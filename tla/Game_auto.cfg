\* Games without a visit to the planner's calibration.
SPECIFICATION FairSpec
CONSTANTS
    NbPose = 3
    GameTicks = 4
    AutobootPolls = 2
    Commands = {"o", "e"}
    MaxSessions = 0
    Beyond = {}
INVARIANTS
    StarterHolds
PROPERTIES
    OrdersFollowPath
    PlaysMatch
    GameEnds
    EndStopsWheels
