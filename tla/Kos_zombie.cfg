\* A switch to a task that has exited.
SPECIFICATION Spec
CONSTANTS
    N = 2
    TickMs = 10
    Delays = {20}
PROPERTIES
    ZombieNeverScheduled
