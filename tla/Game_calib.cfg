\* The game after two visits to the planner's calibration, tests of the wheels
\* and the PWM menu.
SPECIFICATION Spec
CONSTANTS
    NbPose = 2
    GameTicks = 3
    AutobootPolls = 1
    Commands = {"g", "p", "r", "e"}
    MaxSessions = 2
    Beyond = {}
INVARIANTS
    TypeOK
    
PROPERTIES
    ModeFollowsGame
