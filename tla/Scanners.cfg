SPECIFICATION Spec
CONSTANTS
    MaxItems = 4
    MaxSegments = 4
    MaxNoise = 2
INVARIANT ScanIsExact
INVARIANT AuditIsExact
INVARIANT ReadIsExact
CHECK_DEADLOCK FALSE
