CONSTANT MaxTasks = 3
SPECIFICATION FairSpec
INVARIANT OneExecutorPerType
INVARIANT NothingStranded
INVARIANT NoOvertaking
PROPERTY LateOutcomeIgnored
PROPERTY QueuedTaskLeavesQueue
