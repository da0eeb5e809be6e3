SPECIFICATION Spec
CONSTANT Plans <- MCPlans
INVARIANT CountersExact
INVARIANT OrderComplete
INVARIANT OnlyCyclesBreakOrder
PROPERTY BreaksOnlyDeadlocks
