SPECIFICATION Spec
CONSTANTS
    Plans <- AbsentPlans
    Paths <- MCPaths
INVARIANT ForeignIsMismatch
