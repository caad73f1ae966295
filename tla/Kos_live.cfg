\* Two tasks beside IDLE: liveness, and the abstract specification.
SPECIFICATION FairSpec
CONSTANTS
    N = 2
    TickMs = 10
    Delays = {20}
PROPERTIES
    ExitedLeavesCpu
    ImplementsMultitasking
    ExitedNotChosen
