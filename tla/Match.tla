-------------------------------- MODULE Match --------------------------------
(***************************************************************************)
(* What a game is to somebody who watches it: a set-up, a match that runs, *)
(* an end (task_planner and planner_start_game, core/planner.c).  The      *)
(* robot is given one pose of its path after another, from the release of  *)
(* the starter on and each when the last is declared reached; its wheels   *)
(* are driven between the release and the end, but for the turn of the     *)
(* controller that the end finds it in.  How the tasks bring that about,   *)
(* and where the robot goes, is not said.                                  *)
(***************************************************************************)
EXTENDS Integers

CONSTANT NbPose        \* the poses of the path

NoGoal == -1

VARIABLES
    phase,             \* "setup", "running" or "over"
    released,          \* the starter is released
    goal, reached,     \* the last pose ordered, and whether it was reached
    turn,              \* a turn of the controller is under way
    wheels             \* "still" or "driven"

avars == <<phase, released, goal, reached, turn, wheels>>

Init ==
    /\ phase = "setup" /\ released = FALSE
    /\ goal = NoGoal /\ reached = FALSE
    /\ turn = FALSE /\ wheels = "still"

Release ==
    /\ ~released /\ released' = TRUE
    /\ UNCHANGED <<phase, goal, reached, turn, wheels>>

Begin ==
    /\ phase = "setup" /\ phase' = "running"
    /\ UNCHANGED <<released, goal, reached, turn, wheels>>

\* The next pose of the path.
Aim ==
    /\ phase = "running" /\ released
    /\ goal = NoGoal \/ reached
    /\ goal + 1 < NbPose
    /\ goal' = goal + 1 /\ reached' = FALSE
    /\ UNCHANGED <<phase, released, turn, wheels>>

\* The controller declares a pose reached.
Reach ==
    /\ turn /\ goal # NoGoal
    /\ reached' = TRUE
    /\ UNCHANGED <<phase, released, goal, turn, wheels>>

StartTurn ==
    /\ phase # "over" /\ ~turn /\ turn' = TRUE
    /\ UNCHANGED <<phase, released, goal, reached, wheels>>

\* The wheels are driven by a turn that ends behind the start and the release.
EndTurn ==
    /\ turn /\ turn' = FALSE
    /\ \/ wheels' = "still"
       \/ phase # "setup" /\ released /\ wheels' = "driven"
    /\ UNCHANGED <<phase, released, goal, reached>>

\* Not while the match runs.
Halt ==
    /\ phase # "running" /\ ~turn
    /\ wheels' = "still"
    /\ UNCHANGED <<phase, released, goal, reached, turn>>

Finish ==
    /\ phase = "running" /\ released /\ phase' = "over"
    /\ UNCHANGED <<released, goal, reached, turn, wheels>>

Next == Release \/ Begin \/ Aim \/ Reach \/ StartTurn \/ EndTurn \/ Halt \/ Finish

Spec == Init /\ [][Next]_avars
=============================================================================
