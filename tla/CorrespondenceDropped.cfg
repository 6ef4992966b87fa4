SPECIFICATION DroppedSpec
INVARIANT ProgressPending
CHECK_DEADLOCK FALSE
