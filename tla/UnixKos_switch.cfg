\* Is every task's context kept by a switch that a tick may interrupt?
SPECIFICATION UnixSpec
CONSTANTS
    N = 2
    Delays = {10, 20}
INVARIANT ContextsKept
