SPECIFICATION Spec
PROPERTIES
    SchedulerStarted
CHECK_DEADLOCK FALSE
