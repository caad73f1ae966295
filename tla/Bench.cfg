\* One part at a time.  The servos' callers stop at their bound.
SPECIFICATION Spec
CONSTANTS
    N = 2
    Delays = {10, 20}
    Used <- BenchUsed
    Sights = {112, 138}
    MaxEvents = 1
    Fitted <- BenchFitted
    MaxCalls = 2
    MaxTroubles = 1
    Top = 3
    LineCount = 4
    Width = 20
    polarity <- BenchPolarity
    Moves <- BenchMoves
    MaxMoves = 2
    CalMax = 25
    Drives <- BenchDrives
INVARIANTS
    TypeOK
    LivingStacksMapped
    ChainWraps
    SamplesAreOwn
    CommandIsWhole
    SumsTellTravel
    RouteIsFree
PROPERTIES
    StacksReleased
    PromiseSafety
    SightIsReported
    CommandsEnd
    MovesWithClamp
    CarriesUp
    ReadingIsTravel
    DrivenAsCommanded
    StopStops
    FollowsCommand
CHECK_DEADLOCK FALSE
