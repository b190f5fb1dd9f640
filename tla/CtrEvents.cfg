SPECIFICATION Spec
CONSTANTS
    Clients = {1}
    QueueSize = 2
    Timers = 1
    MaxEvents = 3
    Module = 99
    TimeoutsSet = {FALSE}
    FlagsSet = {TRUE}
INVARIANTS
    PermitHasEvent
    IdleHasNoTimer
PROPERTIES
    OnlyTimeoutsStrand
    ImplementsQueue
    EveryWaitReturns
