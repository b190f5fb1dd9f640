SPECIFICATION Spec
CONSTANTS
    Clients = {1}
    QueueSize = 1
    Timers = 1
    MaxEvents = 1
    Module = 99
    TimeoutsSet = {}
    FlagsSet = {}
INVARIANT
    TimedReadsHaveTimers
