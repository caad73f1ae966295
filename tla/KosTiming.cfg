\* Three tasks beside IDLE, as on the cortex and minus machines.  MaxWait is
\* N * (N + 1) / 2, MaxRevival N - 1.
SPECIFICATION TSpec
CONSTANTS
    N = 3
    TickMs = 10
    Delays = {20}
    MaxWait = 6
    MaxRevival = 2
INVARIANTS
    TypeOK
    RingOK
    ExitedNeverReturns
    BoundedWait
    BoundedRevival
PROPERTIES
    TickHonoursDelay
