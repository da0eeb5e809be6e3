SPECIFICATION Spec
CONSTANTS
    Plans <- MCPlans
    Paths <- MCPaths
INVARIANT RefusalChangesNothing
INVARIANT ReportIsExact
INVARIANT OtherTargetUntouched
PROPERTY InventoryIsCurrent
PROPERTY ForeignNeverAdopted
