\* A tick that interrupts the only task awake.
SPECIFICATION Spec
CONSTANTS
    N = 2
    TickMs = 10
    Delays = {20}
PROPERTIES
    IdleOnlyWhenAllSleep
