\* Another pose is asked for while the robot turns at the last one.
SPECIFICATION Spec
CONSTANTS
    NbPose = 2
    GameTicks = 3
    AutobootPolls = 1
    Commands = {"g", "e"}
    MaxSessions = 1
    Beyond = {}
PROPERTIES
    ReachedMeansThere
