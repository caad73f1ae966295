\* A visit to the planner's calibration, then the start of the game.
SPECIFICATION Spec
CONSTANTS
    NbPose = 2
    GameTicks = 3
    AutobootPolls = 1
    Commands = {"g", "e"}
    MaxSessions = 1
    Beyond = {}
INVARIANTS
    StarterHolds
