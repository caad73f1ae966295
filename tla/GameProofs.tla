----------------------------- MODULE GameProofs -----------------------------
(***************************************************************************)
(* Proofs about Game, for every path, every length of a game, every set of *)
(* commands and every number of visits to the planner's calibration.       *)
(*                                                                         *)
(* ModeFollowsGame is not inductive: it needs to know which steps of the   *)
(* calibration entry are still to come when the game starts (Stages), and  *)
(* that the planner cannot run out of game time before (EarlyPeriods).     *)
(* Nor are the types: how far the index passes the path's end depends on   *)
(* what the two tasks that move it have compared and loaded (IndexInv).    *)
(***************************************************************************)
EXTENDS Game, TLAPS

(* What task_calibration_entry has done and what it leaves to be done.     *)
Stages ==
    /\ game_started <=> calib = "exited"
    /\ in_calibration <=> calib \in {"enter", "session", "next", "prev", "up",
                                    "down", "leave", "left"}
    /\ calib = "wait" => autoboot > 0
    /\ calib = "pwm" => "p" \in Commands

(* The wheels' tests are selected in the menu 'r'.                         *)
TestsSelected == mode = "CALIB" \/ ctrl \in {"test", "end"} => "r" \in Commands

(* The mode that planner_start_game has set is kept, or lost to a test.    *)
Underway == mode = "INGAME" \/ (mode = "STOP" /\ "r" \in Commands)
ModeOfPhase ==
    /\ plan = "exited" => mode = "STOP"
    /\ InGame \/ calib = "started" => Underway

(* The index of the path: each task that moves it compares it with the     *)
(* path's end or its beginning, then adds or subtracts one, from what it   *)
(* has compared or from what the other has stored since.                   *)
PlannerMoves == plan \in {"load", "store"}

PlannerIndex ==
    /\ plan = "load" => planned \in 0..(NbPose - 2)
    /\ plan = "store" => planned \in Poses
    /\ PlannerMoves => current_pose_idx < NbPose

ConsoleIndex ==
    /\ calib = "next" =>
         /\ held <= NbPose - 2 /\ current_pose_idx <= NbPose
         /\ PlannerMoves => current_pose_idx <= NbPose - 2
    /\ calib = "up" =>
         /\ held <= NbPose
         /\ held <= NbPose - 2 \/ (~PlannerMoves /\ current_pose_idx >= NbPose - 1)
    /\ calib = "prev" => current_pose_idx > 0
    /\ calib \in {"prev", "down"} =>
         /\ held > 0
         /\ held < NbPose \/ (~PlannerMoves /\ current_pose_idx >= NbPose - 1)

IndexInv == PlannerIndex /\ ConsoleIndex

(* Before the game, each visit to 'g' costs at most one period: the one    *)
(* that the planner counts if the visit ends behind its plan_top.          *)
EarlyPeriods ==
    ~game_started =>
        game_time + (IF in_calibration \/ plan = "clock" THEN 1 ELSE 0)
            <= sessions

(* The planner exits from a game only.                                     *)
ExitsFromGame == plan = "exited" => game_started

(* The invariant of the game beside its types.  Only the planner's clock   *)
(* and the calibration touch what it speaks of.                            *)
Course == /\ Stages /\ EarlyPeriods /\ ExitsFromGame
          /\ TestsSelected /\ ModeOfPhase

IInv == TypeOK /\ IndexInv /\ Course

\* Poses are what the planner orders; the path has a first one.
LEMMA PoseFacts == NbPose \in Nat \ {0} /\ 0 \in Poses /\ Poses \subseteq Slots
<1>1. NbPose \in Nat \ {0}
  BY NbPoseAssumption DEF NbPoseAssumption
<1> QED
  BY <1>1 DEF Poses, Slots

LEMMA InitIInv == Init => IInv
<1> SUFFICES ASSUME Init PROVE IInv
  OBVIOUS
<1>1. TypeOK
  <2>1. current_pose_idx \in Slots /\ place \in Slots \cup {AWAY} /\ held \in Slots
    BY PoseFacts DEF Init
  <2>2. game_time \in 0..GameTicks /\ sessions \in 0..MaxSessions
    BY GameTicksAssumption DEF GameTicksAssumption, Init
  <2>3. autoboot \in 0..AutobootPolls
    BY AutobootAssumption DEF AutobootAssumption, Init
  <2>4. overrun \in 0..2
    <3>1. overrun = 0
      BY DEF Init
    <3> QED
      BY <3>1
  <2> QED
    BY <2>1, <2>2, <2>3, <2>4 DEF Init, TypeOK, Motions
<1>2. Stages /\ ExitsFromGame /\ TestsSelected /\ ModeOfPhase
  BY AutobootAssumption
     DEF AutobootAssumption, Init, Stages, ExitsFromGame, TestsSelected,
         ModeOfPhase, InGame
<1>3. EarlyPeriods
  BY DEF Init, EarlyPeriods
<1>4. IndexInv
  BY DEF Init, IndexInv, PlannerIndex, ConsoleIndex, PlannerMoves
<1> QED
  BY <1>1, <1>2, <1>3, <1>4 DEF IInv, Course

LEMMA NextTypeOK == TypeOK /\ IndexInv /\ Stages /\ [Next]_vars => TypeOK'
<1> SUFFICES ASSUME TypeOK, IndexInv, Stages, [Next]_vars PROVE TypeOK'
  OBVIOUS
<1> USE DEF TypeOK, controller, planner, PLAN, CTRL, CALIB, machine, Motions,
            controller_set_mode
<1>1. CASE plan_top
  BY <1>1 DEF plan_top
<1>2. CASE plan_clock
  BY <1>2, GameTicksAssumption DEF plan_clock, GameTicksAssumption, CountPeriod
<1>3. CASE plan_speed
  BY <1>3 DEF plan_speed, SpeedFor
<1>4. CASE plan_reached \/ plan_compare \/ plan_load \/ plan_pick
  BY <1>4 DEF plan_reached, plan_compare, plan_load, plan_pick
<1>5. CASE plan_store
  <2>1. current_pose_idx' \in Slots
    BY <1>5, PoseFacts DEF plan_store, IndexInv, PlannerIndex, Poses, Slots
  <2> QED
    BY <1>5, <2>1 DEF plan_store
<1>6. CASE plan_send
  BY <1>6 DEF plan_send
<1>7. CASE ctrl_stop
  BY <1>7 DEF ctrl_stop
<1>8. CASE ctrl_idle
  BY <1>8 DEF ctrl_idle, vars
<1>9. CASE ctrl_ingame
  <2>1. place' \in Slots \cup {AWAY}
    BY <1>9, PoseFacts, BeyondAssumption
       DEF ctrl_ingame, Reachable, BeyondAssumption, Slots
  <2> QED
    BY <1>9, <2>1 DEF ctrl_ingame
<1>10. CASE ctrl_order
  BY <1>10 DEF ctrl_order
<1>11. CASE ctrl_speed
  BY <1>11 DEF ctrl_speed
<1>12. CASE ctrl_check
  BY <1>12 DEF ctrl_check
<1>13. CASE \E aligned \in BOOLEAN : ctrl_judge(aligned)
  BY <1>13, ZenonT(60) DEF ctrl_judge, Limited
<1>14. CASE ctrl_drive
  BY <1>14 DEF ctrl_drive
<1>25. CASE ctrl_test \/ ctrl_end
  BY <1>25 DEF ctrl_test, ctrl_end
<1>15. CASE calib_poll
  BY <1>15, AutobootAssumption DEF calib_poll, AutobootAssumption, Stages
<1>16. CASE calib_key
  BY <1>16, AutobootAssumption DEF calib_key, AutobootAssumption
<1>17. CASE calib_encoder \/ calib_test
  BY <1>17 DEF calib_encoder, calib_test
<1>26. CASE calib_hbridge
  <2>1. CASE calib = "menu"
    BY <1>26, <2>1 DEF calib_hbridge
  <2>2. CASE calib = "pwm"
    BY <1>26, <2>2 DEF calib_hbridge
  <2> QED
    BY <1>26, <2>1, <2>2 DEF calib_hbridge
<1>18. CASE planner_enter_calibration
  <2>1. CASE calib = "menu"
    BY <1>18, <2>1, GameTicksAssumption DEF planner_enter_calibration, GameTicksAssumption
  <2>2. CASE calib = "enter"
    BY <1>18, <2>2, GameTicksAssumption DEF planner_enter_calibration, GameTicksAssumption
  <2> QED
    BY <1>18, <2>1, <2>2 DEF planner_enter_calibration
<1>19. CASE calib_compare \/ calib_load
  BY <1>19 DEF calib_compare, calib_load
<1>27. CASE calib_store
  <2>1. current_pose_idx' \in Slots /\ held' \in Slots
    BY <1>27, PoseFacts DEF calib_store, IndexInv, ConsoleIndex, Poses, Slots
  <2> QED
    BY <1>27, <2>1 DEF calib_store
<1>20. CASE calib_leave
  <2>1. CASE calib = "session"
    BY <1>20, <2>1, PoseFacts DEF calib_leave
  <2>2. CASE calib = "leave"
    BY <1>20, <2>2 DEF calib_leave
  <2>3. CASE calib = "left"
    <3>1. in_calibration' \in BOOLEAN /\ calib' = "menu"
      BY <1>20, <2>3, Zenon DEF calib_leave
    <3>2. /\ UNCHANGED <<controller, current_pose_idx, game_started, game_time>>
          /\ UNCHANGED <<PLAN, CTRL, autoboot, held, sessions, machine>>
      BY <1>20, <2>3 DEF calib_leave
    <3> QED
      BY <3>1, <3>2
  <2> QED
    BY <1>20, <2>1, <2>2, <2>3 DEF calib_leave
<1>21. CASE calib_exit
  BY <1>21 DEF calib_exit
<1>22. CASE planner_start_game
  <2>1. CASE calib = "start"
    BY <1>22, <2>1 DEF planner_start_game
  <2>2. CASE calib = "started"
    BY <1>22, <2>2 DEF planner_start_game
  <2> QED
    BY <1>22, <2>1, <2>2 DEF planner_start_game
<1>23. CASE Release
  BY <1>23 DEF Release
<1>24. CASE UNCHANGED vars
  BY <1>24 DEF vars
<1> QED
  BY <1>1, <1>2, <1>3, <1>4, <1>5, <1>6, <1>7, <1>8, <1>9, <1>10, <1>11,
     <1>12, <1>13, <1>14, <1>15, <1>16, <1>17, <1>18, <1>19, <1>20, <1>21,
     <1>22, <1>23, <1>24, <1>25, <1>26, <1>27
     DEF Next, task_planner, task_controller_update, task_calibration_entry, User

\* Each task's index invariant survives its own step, and a step of the other.
LEMMA NextIndexInv == TypeOK /\ IndexInv /\ [Next]_vars => IndexInv'
<1> SUFFICES ASSUME TypeOK, IndexInv, [Next]_vars PROVE IndexInv'
  OBVIOUS
<1> USE DEF IndexInv, PlannerIndex, ConsoleIndex, PlannerMoves, controller,
            planner, PLAN, CTRL, CALIB, machine, controller_set_mode
<1>0. /\ NbPose \in Nat \ {0} /\ Poses = 0..(NbPose - 1)
      /\ current_pose_idx \in Nat /\ held \in Nat
      /\ plan \in {"load", "store"} => planned \in Nat
  BY PoseFacts DEF TypeOK, Poses, Slots
<1>1. CASE plan_compare
  BY <1>0, <1>1 DEF plan_compare, BeforeLast
<1>2. CASE plan_load
  BY <1>0, <1>2 DEF plan_load
<1>3. CASE plan_store
  BY <1>0, <1>3 DEF plan_store
<1>4. CASE calib_compare
  BY <1>0, <1>4 DEF calib_compare, BeforeLast
<1>5. CASE calib_load
  BY <1>0, <1>5 DEF calib_load
<1>6. CASE calib_store
  BY <1>0, <1>6 DEF calib_store
<1>7. CASE calib_leave
  BY <1>0, <1>7 DEF calib_leave
<1>8. CASE plan_top \/ plan_clock \/ plan_speed \/ plan_reached \/ plan_pick
             \/ plan_send
  <2>1. /\ UNCHANGED <<current_pose_idx, CALIB>>
        /\ plan \notin {"load", "store"} /\ plan' \notin {"load", "store"}
    BY <1>8 DEF plan_top, plan_clock, plan_speed, plan_reached, plan_pick,
                plan_send, CountPeriod
  <2> QED
    BY <1>0, <2>1
<1>9. CASE task_controller_update \/ Release \/ UNCHANGED vars
  <2>1. UNCHANGED <<current_pose_idx, plan, planned, calib, held>>
    BY <1>9 DEF task_controller_update, ctrl_stop, ctrl_idle, ctrl_ingame,
                ctrl_order, ctrl_speed, ctrl_check, ctrl_judge, ctrl_drive,
                ctrl_test, ctrl_end, Release, vars
  <2> QED
    BY <1>0, <2>1
<1>10. CASE calib_poll \/ calib_key \/ calib_encoder \/ calib_test
              \/ calib_hbridge \/ planner_enter_calibration \/ calib_exit
              \/ planner_start_game
  <2>1. /\ UNCHANGED <<current_pose_idx, plan, planned, held>>
        /\ calib' \notin {"next", "prev", "up", "down"}
    BY <1>10 DEF calib_poll, calib_key, calib_encoder, calib_test,
                 calib_hbridge, planner_enter_calibration, calib_exit,
                 planner_start_game
  <2> QED
    BY <1>0, <2>1
<1> QED
  BY <1>1, <1>2, <1>3, <1>4, <1>5, <1>6, <1>7, <1>8, <1>9, <1>10
     DEF Next, task_planner, task_calibration_entry, User

\* A period counted before the game belongs to a visit, and there are fewer
\* visits than the game has periods.
LEMMA NoEarlyExit ==
  ASSUME TypeOK, EarlyPeriods, plan = "clock", ~game_started
  PROVE  game_time < GameTicks
<1>1. game_time + 1 <= sessions
  BY DEF EarlyPeriods
<1>2. game_time \in Int /\ sessions \in Int /\ sessions <= MaxSessions
  BY GameTicksAssumption DEF GameTicksAssumption, TypeOK
<1>3. GameTicks \in Int /\ MaxSessions \in Int /\ MaxSessions < GameTicks
  BY GameTicksAssumption DEF GameTicksAssumption
<1> QED
  BY <1>1, <1>2, <1>3

LEMMA NextCourse == TypeOK /\ Course /\ [Next]_vars => Course'
<1> SUFFICES ASSUME TypeOK, Course, [Next]_vars PROVE Course'
  OBVIOUS
<1> USE DEF Course, Stages, EarlyPeriods, ExitsFromGame, TestsSelected,
            ModeOfPhase, InGame, Underway, controller, planner, PLAN, CTRL,
            CALIB, machine, controller_set_mode
<1>0. game_time \in Int /\ sessions \in Int
  BY GameTicksAssumption DEF GameTicksAssumption, TypeOK
<1>1. CASE plan_top
  BY <1>0, <1>1 DEF plan_top
<1>2. CASE plan_clock
  <2>1. CASE in_calibration
    BY <1>0, <1>2, <2>1 DEF plan_clock
  <2>2. CASE ~in_calibration /\ StarterIn
    BY <1>0, <1>2, <2>2 DEF plan_clock
  <2>3. CASE ~in_calibration /\ ~StarterIn /\ game_time >= GameTicks
    <3>1. game_started
      BY <1>0, <1>2, <2>3, NoEarlyExit, GameTicksAssumption
         DEF plan_clock, GameTicksAssumption
    <3>2. plan' = "exited" /\ mode' = "STOP" /\ UNCHANGED <<planner, CTRL, CALIB>>
      BY <1>0, <1>2, <2>3, GameTicksAssumption
         DEF plan_clock, GameTicksAssumption
    <3> QED
      BY <3>1, <3>2
  <2>4. CASE ~in_calibration /\ ~StarterIn /\ game_time < GameTicks
    BY <1>0, <1>2, <2>4, GameTicksAssumption
       DEF plan_clock, CountPeriod, GameTicksAssumption
  <2> QED
    BY <2>1, <2>2, <2>3, <2>4, <1>2 DEF plan_clock
<1>3. CASE plan_speed \/ plan_reached \/ plan_compare \/ plan_load
             \/ plan_store \/ plan_pick \/ plan_send
  <2>1. /\ UNCHANGED <<mode, game_started, in_calibration, game_time, ctrl, CALIB>>
        /\ plan # "exited" /\ plan' # "exited" /\ plan' # "clock"
    BY <1>3 DEF plan_speed, plan_reached, plan_compare, plan_load, plan_store,
                plan_pick, plan_send
  <2> QED
    BY <1>0, <2>1
<1>4. CASE task_controller_update
  <2>1. UNCHANGED <<game_started, in_calibration, game_time, plan, CALIB>>
    BY <1>4 DEF task_controller_update, ctrl_stop, ctrl_idle, ctrl_ingame,
                ctrl_order, ctrl_speed, ctrl_check, ctrl_judge, ctrl_drive,
                ctrl_test, ctrl_end, vars
  <2>2. \/ ctrl = "end" /\ ctrl' = "loop" /\ mode' = "STOP"
        \/ UNCHANGED mode /\ (ctrl' \in {"test", "end"} =>
                              mode = "CALIB" \/ ctrl \in {"test", "end"})
    BY <1>4 DEF task_controller_update, ctrl_stop, ctrl_idle, ctrl_ingame,
                ctrl_order, ctrl_speed, ctrl_check, ctrl_judge, ctrl_drive,
                ctrl_test, ctrl_end, vars
  <2> QED
    BY <1>0, <2>1, <2>2
<1>5. CASE calib_poll \/ calib_key \/ calib_encoder \/ calib_test
             \/ calib_hbridge \/ calib_exit
  BY <1>0, <1>5, AutobootAssumption
     DEF calib_poll, calib_key, calib_encoder, calib_test, calib_hbridge,
         calib_exit, TypeOK, AutobootAssumption
<1>6. CASE planner_enter_calibration
  BY <1>0, <1>6 DEF planner_enter_calibration, TypeOK
<1>7. CASE calib_compare \/ calib_load \/ calib_store \/ calib_leave
  BY <1>0, <1>7 DEF calib_compare, calib_load, calib_store, calib_leave, TypeOK
<1>8. CASE planner_start_game
  BY <1>0, <1>8 DEF planner_start_game, TypeOK
<1>9. CASE Release \/ UNCHANGED vars
  BY <1>0, <1>9 DEF Release, vars
<1> QED
  BY <1>1, <1>2, <1>3, <1>4, <1>5, <1>6, <1>7, <1>8, <1>9
     DEF Next, task_planner, task_calibration_entry, User

LEMMA InvariantHolds == Spec => []IInv
<1>1. IInv /\ [Next]_vars => IInv'
  BY NextTypeOK, NextIndexInv, NextCourse DEF IInv, Course
<1> QED
  BY <1>1, InitIInv, PTL DEF Spec

\* The variables of the game keep their types, though the planner and the
\* console move the index of the path without a lock, each in three accesses:
\* it passes the path's end by two at most and its beginning never, and neither
\* game_time nor the autoboot counter passes its end.
THEOREM TypeCorrect == Spec => []TypeOK
<1>1. IInv => TypeOK
  BY DEF IInv
<1> QED
  BY <1>1, InvariantHolds, PTL

\* The steps that set the mode in a game.
LEMMA ModeInGame ==
  ASSUME IInv, [Next]_vars, InGame, mode # mode'
  PROVE  plan' = "exited" \/ ctrl = "end"
<1> USE DEF controller, planner, PLAN, CTRL, CALIB, machine, InGame,
            controller_set_mode
<1>0. calib = "exited"
  BY DEF IInv, Course, Stages
<1>1. CASE task_planner
  BY <1>1 DEF task_planner, plan_top, plan_clock, plan_speed, plan_reached,
              plan_compare, plan_load, plan_store, plan_pick, plan_send
<1>2. CASE task_controller_update
  BY <1>2 DEF task_controller_update, ctrl_stop, ctrl_idle, ctrl_ingame,
              ctrl_order, ctrl_speed, ctrl_check, ctrl_judge, ctrl_drive,
              ctrl_test, ctrl_end, vars
<1>3. CASE task_calibration_entry \/ User
  BY <1>0, <1>3
     DEF task_calibration_entry, User, calib_poll, planner_enter_calibration,
         calib_load, calib_store, calib_leave, planner_start_game, calib_key,
         calib_encoder, calib_test, calib_hbridge, calib_compare, calib_exit
<1>4. CASE Release \/ UNCHANGED vars
  BY <1>4 DEF Release, vars
<1> QED
  BY <1>1, <1>2, <1>3, <1>4 DEF Next

\* From the start of the game to its end the controller is in INGAME, unless a
\* test of the wheels that the start found under way has ended behind it; from
\* the end on it is in STOP: planner_start_game raises game_started after the
\* mode is set, nothing of the calibration is left to set it again, and only
\* the end of a test or of the game leaves INGAME.
THEOREM ControllerFollowsGame == Spec => ModeFollowsGame
<1>1. IInv => /\ plan = "exited" => mode = "STOP"
              /\ InGame => mode = "INGAME" \/ (mode = "STOP" /\ "r" \in Commands)
  BY DEF IInv, Course, ModeOfPhase, Underway
<1>2. IInv /\ [Next]_vars =>
        [InGame /\ mode # mode' => plan' = "exited" \/ ctrl = "end"]_vars
  BY ModeInGame
<1> QED
  BY <1>1, <1>2, InvariantHolds, PTL DEF Spec, ModeFollowsGame

\* The planner leaves its loop from a game that has started, never from the
\* calibration, whatever periods the visits to it have cost.
THEOREM PlannerExitsFromGame == Spec => []ExitsFromGame
<1>1. IInv => ExitsFromGame
  BY DEF IInv, Course
<1> QED
  BY <1>1, InvariantHolds, PTL

-----------------------------------------------------------------------------
(* The game without a visit to the planner's calibration.                  *)

NoVisit == calib \notin {"enter", "session", "next", "prev", "up", "down",
                         "leave", "left"}

(* A pose is declared reached only after one was ordered: nothing brings   *)
(* the robot to the order never given.                                     *)
OrderedFirst ==
    (pose_reached \/ regul = "POSE_ANGL" \/ order # ORIGIN)
        => pose_order # ORIGIN

(* The order is the current pose, or none before the first period; between *)
(* plan_store and plan_send it is one behind, and still reached.           *)
UpToDate == \/ pose_order = current_pose_idx
            \/ pose_order = ORIGIN /\ current_pose_idx = 0

OrderInStep ==
    /\ current_pose_idx \in Poses
    /\ plan \notin {"pick", "send"} => UpToDate
    /\ plan = "compare" \/ PlannerMoves => pose_reached
    /\ PlannerMoves =>
         planned = current_pose_idx /\ current_pose_idx < NbPose - 1
    /\ plan \in {"pick", "send"} =>
         UpToDate \/ (pose_reached /\ current_pose_idx = pose_order + 1)
    /\ plan = "send" => planned = current_pose_idx

PathInv == NoVisit /\ OrderedFirst /\ OrderInStep

LEMMA InitPathInv == Init => PathInv
  BY PoseFacts DEF Init, PathInv, NoVisit, OrderedFirst, OrderInStep, UpToDate,
                   PlannerMoves

\* Steps that leave the orders alone keep OrderedFirst and OrderInStep.
LEMMA SameOrders ==
  ASSUME OrderedFirst, OrderInStep,
         UNCHANGED <<pose_order, pose_reached, regul, order>>,
         UNCHANGED <<current_pose_idx, plan, planned>>
  PROVE  OrderedFirst' /\ OrderInStep'
  BY DEF OrderedFirst, OrderInStep, UpToDate, PlannerMoves

\* No pose is the order never given.
LEMMA NowhereUnordered == TypeOK => place # ORIGIN
  BY PoseFacts DEF TypeOK, Slots, ORIGIN, AWAY

\* The console moves no index where there is no visit.
LEMMA ConsoleLeavesOrders ==
  ASSUME NoVisit, task_calibration_entry \/ User
  PROVE  /\ UNCHANGED <<pose_order, pose_reached, regul, order>>
         /\ UNCHANGED <<current_pose_idx, plan, planned, speed_order, speed>>
         /\ UNCHANGED <<command, ctrl, launched, place>>
  BY DEF task_calibration_entry, User, calib_poll, calib_key, calib_encoder,
         calib_test, calib_hbridge, planner_enter_calibration, calib_compare,
         calib_load, calib_store, calib_leave, calib_exit, planner_start_game,
         NoVisit, controller, planner, PLAN, CTRL, machine, controller_set_mode

\* Nor is there one without the command 'g'.
LEMMA NextNoVisit ==
  ASSUME "g" \notin Commands, NoVisit, [Next]_vars
  PROVE  NoVisit'
<1> USE DEF NoVisit, CALIB
<1>1. CASE task_calibration_entry
  BY <1>1 DEF task_calibration_entry, calib_poll, planner_enter_calibration,
              calib_load, calib_store, calib_leave, planner_start_game
<1>2. CASE User
  BY <1>2 DEF User, calib_key, calib_encoder, calib_test, calib_hbridge,
              calib_compare, calib_exit
<1>3. CASE task_planner
  BY <1>3 DEF task_planner, plan_top, plan_clock, plan_speed, plan_reached,
              plan_compare, plan_load, plan_store, plan_pick, plan_send
<1>4. CASE task_controller_update
  BY <1>4 DEF task_controller_update, ctrl_stop, ctrl_idle, ctrl_ingame,
              ctrl_order, ctrl_speed, ctrl_check, ctrl_judge, ctrl_drive,
              ctrl_test, ctrl_end, vars
<1>5. CASE Release \/ UNCHANGED vars
  BY <1>5 DEF Release, vars
<1> QED
  BY <1>1, <1>2, <1>3, <1>4, <1>5 DEF Next

LEMMA NextOrders ==
  ASSUME IInv, PathInv, [Next]_vars
  PROVE  OrderedFirst' /\ OrderInStep'
<1> USE DEF PathInv, controller, planner, PLAN, CTRL, CALIB, machine,
            controller_set_mode
<1>0. /\ ~in_calibration
      /\ NbPose \in Nat \ {0} /\ Poses = 0..(NbPose - 1)
      /\ current_pose_idx \in Poses
  BY PoseFacts DEF IInv, Course, Stages, NoVisit, OrderInStep, Poses
<1>1. CASE plan_top \/ plan_clock \/ plan_speed
  <2>1. UNCHANGED <<pose_order, pose_reached, regul, order, current_pose_idx>>
    BY <1>1 DEF plan_top, plan_clock, plan_speed, CountPeriod
  <2>2. /\ plan \notin {"pick", "send"}
        /\ plan' \notin {"compare", "load", "store", "pick", "send"}
    BY <1>1 DEF plan_top, plan_clock, plan_speed
  <2> QED
    BY <2>1, <2>2 DEF OrderedFirst, OrderInStep, UpToDate, PlannerMoves
<1>2. CASE plan_reached
  BY <1>0, <1>2
     DEF plan_reached, OrderedFirst, OrderInStep, UpToDate, PlannerMoves
<1>3. CASE plan_compare \/ plan_load
  BY <1>0, <1>3
     DEF plan_compare, plan_load, BeforeLast, OrderedFirst, OrderInStep,
         UpToDate, PlannerMoves
<1>4. CASE plan_store
  <2>1. /\ plan = "store" /\ plan' = "pick"
        /\ current_pose_idx' = planned + 1
        /\ UNCHANGED <<pose_order, pose_reached, regul, order>>
    BY <1>4 DEF plan_store
  <2>2. /\ planned = current_pose_idx /\ current_pose_idx < NbPose - 1
        /\ pose_reached /\ pose_order = current_pose_idx
    BY <2>1 DEF OrderedFirst, OrderInStep, UpToDate, PlannerMoves
  <2>3. current_pose_idx' \in Poses /\ current_pose_idx' = pose_order' + 1
    BY <1>0, <2>1, <2>2
  <2> QED
    BY <2>1, <2>2, <2>3 DEF OrderedFirst, OrderInStep, PlannerMoves
<1>5. CASE plan_pick
  BY <1>5 DEF plan_pick, OrderedFirst, OrderInStep, UpToDate, PlannerMoves
<1>6. CASE plan_send
  <2>1. /\ pose_order' = current_pose_idx /\ plan' = "top"
        /\ UNCHANGED <<current_pose_idx, regul, order>>
    BY <1>6 DEF plan_send, OrderInStep
  <2> QED
    BY <1>0, <2>1 DEF OrderedFirst, OrderInStep, UpToDate, PlannerMoves, ORIGIN
<1>7. CASE task_controller_update
  <2>1. UNCHANGED <<pose_order, current_pose_idx, plan, planned>>
    BY <1>7 DEF task_controller_update, ctrl_stop, ctrl_idle, ctrl_ingame,
                ctrl_order, ctrl_speed, ctrl_check, ctrl_judge, ctrl_drive,
                ctrl_test, ctrl_end, vars
  <2>2. CASE ctrl_order \/ ctrl_check
    BY <2>1, <2>2 DEF ctrl_order, ctrl_check, OrderedFirst, OrderInStep,
                      UpToDate, PlannerMoves
  <2>3. CASE ctrl_stop \/ ctrl_idle \/ ctrl_ingame \/ ctrl_speed \/ ctrl_drive
               \/ ctrl_test \/ ctrl_end
    BY <2>1, <2>3, SameOrders
       DEF ctrl_stop, ctrl_idle, ctrl_ingame, ctrl_speed, ctrl_drive, ctrl_test,
           ctrl_end, vars
  <2>4. ASSUME NEW aligned \in BOOLEAN, ctrl_judge(aligned)
        PROVE  OrderedFirst' /\ OrderInStep'
    <3>1. place # ORIGIN
      BY NowhereUnordered DEF IInv
    <3>2. \/ UNCHANGED <<pose_reached, regul>>
          \/ pose_order # ORIGIN
      BY <2>4, <3>1 DEF ctrl_judge, OrderedFirst
    <3>3. pose_reached => pose_reached'
      BY <2>4 DEF ctrl_judge
    <3>4. order' = ORIGIN
      BY <2>4 DEF ctrl_judge
    <3> QED
      BY <2>1, <3>2, <3>3, <3>4
         DEF OrderedFirst, OrderInStep, UpToDate, PlannerMoves
  <2> QED
    BY <1>7, <2>2, <2>3, <2>4 DEF task_controller_update
<1>8. CASE task_calibration_entry \/ User
  BY <1>8, ConsoleLeavesOrders, SameOrders
<1>9. CASE Release \/ UNCHANGED vars
  BY <1>9, SameOrders DEF Release, vars
<1> QED
  BY <1>1, <1>2, <1>3, <1>4, <1>5, <1>6, <1>7, <1>8, <1>9 DEF Next, task_planner

LEMMA NextPathInv ==
  ASSUME "g" \notin Commands, IInv, PathInv, [Next]_vars
  PROVE  PathInv'
  BY NextNoVisit, NextOrders DEF PathInv

\* Only plan_send gives an order.
LEMMA OrderIsSent ==
  ASSUME NoVisit, [Next]_vars, pose_order' # pose_order
  PROVE  plan_send
<1> USE DEF controller, planner, PLAN, CTRL, CALIB, machine, controller_set_mode
<1>1. CASE task_planner
  BY <1>1 DEF task_planner, plan_top, plan_clock, plan_speed, plan_reached,
              plan_compare, plan_load, plan_store, plan_pick
<1>2. CASE task_controller_update
  BY <1>2 DEF task_controller_update, ctrl_stop, ctrl_idle, ctrl_ingame,
              ctrl_order, ctrl_speed, ctrl_check, ctrl_judge, ctrl_drive,
              ctrl_test, ctrl_end, vars
<1>3. CASE task_calibration_entry \/ User
  BY <1>3, ConsoleLeavesOrders
<1>4. CASE Release \/ UNCHANGED vars
  BY <1>4 DEF Release, vars
<1> QED
  BY <1>1, <1>2, <1>3, <1>4 DEF Next

LEMMA StepFollowsPath ==
  ASSUME IInv, PathInv, [Next]_vars, pose_order' # pose_order
  PROVE  \/ pose_order = ORIGIN /\ pose_order' = 0
         \/ pose_reached /\ pose_order' = pose_order + 1
<1>1. plan = "send" /\ pose_order' = planned
  BY OrderIsSent DEF PathInv, plan_send
<1>2. /\ planned = current_pose_idx
      /\ UpToDate \/ (pose_reached /\ current_pose_idx = pose_order + 1)
  BY <1>1 DEF PathInv, OrderInStep
<1> QED
  BY <1>1, <1>2 DEF UpToDate

\* Without a visit to the planner's calibration the orders follow the path: the
\* first pose first, and each next one only when the last was declared reached,
\* whatever the controller declares between two steps of the planner.
THEOREM PathIsFollowed ==
  ASSUME "g" \notin Commands
  PROVE  Spec => OrdersFollowPath
<1>1. PathInv /\ IInv /\ [Next]_vars => PathInv'
  BY NextPathInv
<1>2. IInv /\ PathInv /\ [Next]_vars =>
        [game_started /\ pose_order' # pose_order =>
           \/ pose_order = ORIGIN /\ pose_order' = 0
           \/ pose_reached /\ pose_order' = pose_order + 1]_vars
  BY StepFollowsPath
<1> QED
  BY <1>1, <1>2, InitPathInv, InvariantHolds, PTL DEF Spec, OrdersFollowPath

(* From the planner's speed order to the wheels, each hand that passes a   *)
(* motion on got it in a game that has begun, or in a test of the menu.    *)
Begun     == game_started /\ launched
MenuTests == "r" \in Commands \/ "p" \in Commands

MotionInv ==
    /\ plan \notin {"top", "clock", "exited"} => Begun
    /\ plan = "clock" => game_started
    /\ speed_order # "zero" => Begun
    /\ speed # "zero" => Begun
    /\ command \in {"go", "turn"} => Begun
    /\ motor \in {"go", "turn"} => Begun \/ MenuTests

LEMMA InitMotionInv == Init => MotionInv
  BY DEF Init, MotionInv

LEMMA NextMotionInv ==
  ASSUME IInv, NoVisit, MotionInv, [Next]_vars
  PROVE  MotionInv'
<1> USE DEF MotionInv, controller, planner, PLAN, CTRL, CALIB, machine,
            controller_set_mode
<1>0. ~in_calibration
  BY DEF IInv, Course, Stages, NoVisit
<1>1. CASE task_planner
  <2>1. UNCHANGED <<game_started, launched, CTRL, motor>>
    BY <1>1 DEF task_planner, plan_top, plan_clock, plan_speed, plan_reached,
                plan_compare, plan_load, plan_store, plan_pick, plan_send,
                CountPeriod
  <2>2. CASE plan_top \/ plan_clock
    BY <1>0, <2>1, <2>2 DEF plan_top, plan_clock, StarterIn, Begun, CountPeriod
  <2>3. CASE plan_speed
    BY <2>1, <2>3 DEF plan_speed, Begun
  <2>4. CASE plan_reached \/ plan_compare \/ plan_load \/ plan_store \/ plan_pick
               \/ plan_send
    BY <2>1, <2>4 DEF plan_reached, plan_compare, plan_load, plan_store,
                      plan_pick, plan_send, Begun
  <2> QED
    BY <1>1, <2>2, <2>3, <2>4 DEF task_planner
<1>2. CASE task_controller_update
  <2>0. ctrl_test => MenuTests
    BY DEF ctrl_test, IInv, Course, TestsSelected, MenuTests
  <2>1. UNCHANGED <<game_started, launched, plan, speed_order>>
    BY <1>2 DEF task_controller_update, ctrl_stop, ctrl_idle, ctrl_ingame,
                ctrl_order, ctrl_speed, ctrl_check, ctrl_judge, ctrl_drive,
                ctrl_test, ctrl_end, vars
  <2>2. speed' \in {speed, speed_order, "zero"}
    BY <1>2 DEF task_controller_update, ctrl_stop, ctrl_idle, ctrl_ingame,
                ctrl_order, ctrl_speed, ctrl_check, ctrl_judge, ctrl_drive,
                ctrl_test, ctrl_end, vars
  <2>3. command' \in {command, "off", "hold"} \/ speed # "zero"
    BY <1>2 DEF task_controller_update, ctrl_stop, ctrl_idle, ctrl_ingame,
                ctrl_order, ctrl_speed, ctrl_check, ctrl_judge, ctrl_drive,
                ctrl_test, ctrl_end, vars, Limited
  <2>4. motor' \in {motor, "off", command} \/ ctrl_test
    BY <1>2 DEF task_controller_update, ctrl_stop, ctrl_idle, ctrl_ingame,
                ctrl_order, ctrl_speed, ctrl_check, ctrl_judge, ctrl_drive,
                ctrl_end, vars
  <2> QED
    BY <2>0, <2>1, <2>2, <2>3, <2>4 DEF Begun, MenuTests
<1>3. CASE task_calibration_entry \/ User
  <2>1. UNCHANGED <<plan, speed_order, speed, command, launched>>
    BY <1>3, ConsoleLeavesOrders
  <2>2. game_started => game_started'
    BY <1>3 DEF task_calibration_entry, User, calib_poll, calib_key,
                calib_encoder, calib_test, calib_hbridge,
                planner_enter_calibration, calib_compare, calib_load,
                calib_store, calib_leave, calib_exit, planner_start_game
  <2>3. UNCHANGED motor \/ MenuTests
    BY <1>3 DEF task_calibration_entry, User, calib_poll, calib_key,
                calib_encoder, calib_test, calib_hbridge,
                planner_enter_calibration, calib_compare, calib_load,
                calib_store, calib_leave, calib_exit, planner_start_game,
                IInv, Course, Stages, MenuTests
  <2> QED
    BY <2>1, <2>2, <2>3 DEF Begun, MenuTests
<1>4. CASE Release \/ UNCHANGED vars
  BY <1>4 DEF Release, vars, Begun, MenuTests
<1> QED
  BY <1>1, <1>2, <1>3, <1>4 DEF Next

LEMMA MotionHolds ==
  ASSUME "g" \notin Commands
  PROVE  Spec => []MotionInv
<1>1. Init => PathInv /\ MotionInv
  BY InitPathInv, InitMotionInv
<1>2. IInv /\ PathInv /\ MotionInv /\ [Next]_vars => (PathInv /\ MotionInv)'
  BY NextPathInv, NextMotionInv DEF PathInv
<1> QED
  BY <1>1, <1>2, InvariantHolds, PTL DEF Spec

(* The wheels move only in a game that has begun.                          *)
WheelsWaitForGame ==
    motor \in {"go", "turn"} => game_started /\ launched

\* A menu that has neither the planner's calibration nor the tests of the
\* wheels: they are told to move only in a game that has started, its starter
\* released, though an order passes through speed_order, the controller's copy
\* and its command, each in its own time.
THEOREM WheelsWait ==
  ASSUME Commands \subseteq {"o", "e"}
  PROVE  Spec => []WheelsWaitForGame
<1>1. "g" \notin Commands /\ ~MenuTests
  BY DEF MenuTests
<1>2. MotionInv => WheelsWaitForGame
  BY <1>1 DEF MotionInv, Begun, WheelsWaitForGame
<1> QED
  BY <1>1, <1>2, MotionHolds, PTL

\* Nor does the controller get an order at full speed before the starter is
\* released, whatever test the start of the game has found under way: what
\* game_starter shows needs a visit to the planner's calibration.
THEOREM StarterIsAwaited ==
  ASSUME "g" \notin Commands
  PROVE  Spec => []StarterHolds
<1>1. TypeOK /\ MotionInv => StarterHolds
  BY DEF TypeOK, MotionInv, Begun, StarterHolds
<1> QED
  BY <1>1, MotionHolds, TypeCorrect, PTL

(* The game is over, and the controller's last turn of it as well.         *)
Stopped == plan = "exited" /\ ctrl = "loop" /\ motor = "off"

\* Whatever was visited before: once the planner has exited and the controller
\* has stopped the wheels at the top of its loop, no step of any task drives
\* them again, since nobody leaves STOP: the safety half of EndStopsWheels.
THEOREM StoppedStays == Spec => [][Stopped => Stopped']_vars
<1>1. IInv /\ [Next]_vars => [Stopped => Stopped']_vars
  <2> SUFFICES ASSUME IInv, Next, Stopped PROVE Stopped'
    OBVIOUS
  <2> USE DEF Stopped, controller, planner, PLAN, CTRL, CALIB, machine
  <2>1. mode = "STOP" /\ calib = "exited"
    BY DEF IInv, Course, Stages, ModeOfPhase, ExitsFromGame
  <2>2. CASE task_planner
    BY <2>2 DEF task_planner, plan_top, plan_clock, plan_speed, plan_reached,
                plan_compare, plan_load, plan_store, plan_pick, plan_send
  <2>3. CASE task_controller_update
    BY <2>1, <2>3 DEF task_controller_update, ctrl_stop, ctrl_idle, ctrl_ingame,
                      ctrl_order, ctrl_speed, ctrl_check, ctrl_judge, ctrl_drive,
                      ctrl_test, ctrl_end
  <2>4. CASE task_calibration_entry \/ User
    BY <2>1, <2>4
       DEF task_calibration_entry, User, calib_poll, planner_enter_calibration,
           calib_load, calib_store, calib_leave, planner_start_game, calib_key,
           calib_encoder, calib_test, calib_hbridge, calib_compare, calib_exit
  <2>5. CASE Release
    BY <2>5 DEF Release
  <2> QED
    BY <2>2, <2>3, <2>4, <2>5 DEF Next
<1> QED
  BY <1>1, InvariantHolds, PTL DEF Spec

-----------------------------------------------------------------------------
(* The three tasks play a Match: step by step, each is one of its steps or *)
(* none that a Match shows.                                                *)

LEMMA InitIsPlayed == Init => Played!Init
  BY DEF Init, Played!Init, Phase, Wheels, ORIGIN, Played!NoGoal

\* The planner aims at the next pose of the path and finishes the match.
LEMMA PlannerIsPlayed ==
  ASSUME IInv, PathInv, MotionInv, task_planner
  PROVE  [Played!Next]_(Played!avars)
<1> USE DEF controller, planner, PLAN, CTRL, CALIB, machine,
            controller_set_mode, Played!avars, Phase, Wheels
<1>1. CASE plan_top \/ plan_speed \/ plan_reached \/ plan_compare \/ plan_load
             \/ plan_store \/ plan_pick
  BY <1>1 DEF plan_top, plan_speed, plan_reached, plan_compare, plan_load,
              plan_store, plan_pick
<1>2. CASE plan_clock
  <2>1. CASE plan' = "exited"
    <3>1. game_started /\ launched
      BY <1>2, <2>1 DEF plan_clock, MotionInv, StarterIn, IInv, Course, Stages,
                        PathInv, NoVisit
    <3>2. UNCHANGED <<launched, pose_order, pose_reached, ctrl, motor, game_started>>
      BY <1>2, <2>1 DEF plan_clock
    <3>3. Played!Finish
      BY <1>2, <2>1, <3>1, <3>2 DEF plan_clock, Played!Finish
    <3> QED
      BY <3>3 DEF Played!Next
  <2>2. CASE plan' # "exited"
    BY <1>2, <2>2 DEF plan_clock, CountPeriod
  <2> QED
    BY <2>1, <2>2
<1>3. CASE plan_send
  <2>1. /\ plan = "send" /\ plan' = "top" /\ pose_order' = planned
        /\ UNCHANGED <<game_started, launched, ctrl, motor>>
        /\ pose_reached' = (pose_reached /\ planned = pose_order)
    BY <1>3, Zenon DEF plan_send
  <2>2. game_started /\ launched
    BY <2>1 DEF MotionInv, Begun
  <2>3. planned = current_pose_idx /\ current_pose_idx \in 0..(NbPose - 1)
    BY <2>1 DEF PathInv, OrderInStep, Poses
  <2>4. \/ pose_order = current_pose_idx
        \/ pose_order = ORIGIN /\ current_pose_idx = 0
        \/ pose_reached /\ current_pose_idx = pose_order + 1
    BY <2>1 DEF PathInv, OrderInStep, UpToDate
  <2>5. pose_reached \in BOOLEAN
    BY DEF IInv, TypeOK
  <2>6. CASE pose_order = current_pose_idx
    <3>1. UNCHANGED <<pose_order, pose_reached>>
      BY <2>1, <2>3, <2>5, <2>6
    <3> QED
      BY <2>1, <3>1
  <2>7. CASE pose_order # current_pose_idx
    <3>1. pose_order' = pose_order + 1 /\ pose_order' < NbPose
      BY <2>1, <2>3, <2>4, <2>7, NbPoseAssumption DEF ORIGIN, NbPoseAssumption
    <3>2. pose_reached' = FALSE
      BY <2>1, <2>3, <2>7
    <3>3. pose_order = ORIGIN \/ pose_reached
      BY <2>4, <2>7
    <3>4. Played!Aim
      BY <2>1, <2>2, <3>1, <3>2, <3>3 DEF Played!Aim, Played!NoGoal, ORIGIN
    <3> QED
      BY <3>4 DEF Played!Next
  <2> QED
    BY <2>6, <2>7
<1> QED
  BY <1>1, <1>2, <1>3 DEF task_planner

\* The controller starts and ends its turns, drives the wheels, declares a pose
\* reached, and halts when no match runs.
LEMMA ControllerIsPlayed ==
  ASSUME Commands \subseteq {"o", "e"}, IInv, PathInv, MotionInv,
         task_controller_update
  PROVE  [Played!Next]_(Played!avars)
<1> USE DEF controller, planner, PLAN, CTRL, CALIB, machine, Played!avars
<1>0. UNCHANGED Phase /\ UNCHANGED launched
  BY DEF Phase, task_controller_update, ctrl_stop, ctrl_idle, ctrl_ingame,
         ctrl_order, ctrl_speed, ctrl_check, ctrl_judge, ctrl_drive, ctrl_test,
         ctrl_end, vars
<1>6. ~ctrl_test /\ ~ctrl_end
  BY DEF ctrl_test, ctrl_end, IInv, Course, TestsSelected
<1>1. CASE ctrl_idle \/ ctrl_order \/ ctrl_speed \/ ctrl_check
  BY <1>0, <1>1 DEF ctrl_idle, ctrl_order, ctrl_speed, ctrl_check, vars, Wheels
<1>2. CASE ctrl_stop
  <2>1. Phase # "running"
    BY <1>2 DEF ctrl_stop, IInv, Course, ModeOfPhase, InGame, Underway, Phase
  <2>2. /\ ctrl = "loop" /\ motor' = "off"
        /\ UNCHANGED <<pose_order, pose_reached, ctrl>>
    BY <1>2 DEF ctrl_stop
  <2>3. Played!Halt
    BY <1>0, <2>1, <2>2 DEF Played!Halt, Wheels
  <2> QED
    BY <2>3 DEF Played!Next
<1>3. CASE ctrl_ingame
  <2>1. Phase # "over"
    BY <1>3 DEF ctrl_ingame, IInv, Course, ModeOfPhase, Phase
  <2>2. /\ ctrl = "loop" /\ ctrl' = "order"
        /\ UNCHANGED <<pose_order, pose_reached, motor>>
    BY <1>3 DEF ctrl_ingame
  <2>3. Played!StartTurn
    BY <1>0, <2>1, <2>2 DEF Played!StartTurn, Wheels
  <2> QED
    BY <2>3 DEF Played!Next
<1>4. ASSUME NEW aligned \in BOOLEAN, ctrl_judge(aligned)
      PROVE  [Played!Next]_(Played!avars)
  <2>1. /\ ctrl = "judge" /\ ctrl' = "drive"
        /\ UNCHANGED <<pose_order, motor>>
    BY <1>4 DEF ctrl_judge
  <2>2. CASE UNCHANGED pose_reached
    BY <1>0, <2>1, <2>2 DEF Wheels
  <2>3. CASE ~UNCHANGED pose_reached
    <3>1. pose_reached' = TRUE /\ (regul = "POSE_ANGL" \/ place = order)
      BY <1>4, <2>3 DEF ctrl_judge
    <3>2. place # ORIGIN
      BY NowhereUnordered DEF IInv
    <3>3. pose_order # ORIGIN
      BY <3>1, <3>2 DEF PathInv, OrderedFirst
    <3>4. Played!Reach
      BY <1>0, <2>1, <3>1, <3>3 DEF Played!Reach, Played!NoGoal, ORIGIN, Wheels
    <3> QED
      BY <3>4 DEF Played!Next
  <2> QED
    BY <2>2, <2>3
<1>5. CASE ctrl_drive
  <2>1. /\ ctrl = "drive" /\ ctrl' = "loop" /\ motor' = command
        /\ UNCHANGED <<pose_order, pose_reached>>
    BY <1>5 DEF ctrl_drive
  <2>2. command \in {"go", "turn"} => Phase # "setup" /\ launched
    BY DEF MotionInv, Begun, Phase
  <2>3. Played!EndTurn
    BY <1>0, <2>1, <2>2 DEF Played!EndTurn, Wheels
  <2> QED
    BY <2>3 DEF Played!Next
<1> QED
  BY <1>1, <1>2, <1>3, <1>4, <1>5, <1>6 DEF task_controller_update

\* The calibration entry begins the match; the starter is released.
LEMMA OthersArePlayed ==
  ASSUME Commands \subseteq {"o", "e"}, IInv, PathInv,
         task_calibration_entry \/ User \/ Release
  PROVE  [Played!Next]_(Played!avars)
<1> USE DEF controller, planner, PLAN, CTRL, CALIB, machine,
            controller_set_mode, Played!avars, Phase, Wheels
<1>0. calib # "pwm" /\ ~calib_hbridge
  BY DEF calib_hbridge, IInv, Course, Stages
<1>1. UNCHANGED <<plan, pose_order, pose_reached, ctrl, motor>>
  BY <1>0
     DEF task_calibration_entry, User, calib_poll, calib_key, calib_encoder,
         calib_test, planner_enter_calibration, calib_compare, calib_load,
         calib_store, calib_leave, calib_exit, planner_start_game, Release
<1>2. CASE game_started' # game_started
  <2>1. calib = "started" /\ game_started' = TRUE /\ UNCHANGED launched
    BY <1>0, <1>2
       DEF task_calibration_entry, User, calib_poll, calib_key, calib_encoder,
           calib_test, planner_enter_calibration, calib_compare, calib_load,
           calib_store, calib_leave, calib_exit, planner_start_game, Release
  <2>2. ~game_started /\ plan # "exited"
    BY <2>1 DEF IInv, Course, Stages, ExitsFromGame
  <2>3. Played!Begin
    BY <1>1, <2>1, <2>2 DEF Played!Begin
  <2> QED
    BY <2>3 DEF Played!Next
<1>3. CASE game_started' = game_started /\ launched' # launched
  <2>1. ~launched /\ launched' = TRUE
    BY <1>0, <1>3
       DEF task_calibration_entry, User, calib_poll, calib_key, calib_encoder,
           calib_test, planner_enter_calibration, calib_compare, calib_load,
           calib_store, calib_leave, calib_exit, planner_start_game, Release
  <2>2. Played!Release
    BY <1>1, <1>3, <2>1 DEF Played!Release
  <2> QED
    BY <2>2 DEF Played!Next
<1>4. CASE UNCHANGED <<game_started, launched>>
  BY <1>1, <1>4
<1> QED
  BY <1>2, <1>3, <1>4

\* Without a visit to the planner's calibration or to the tests of the wheels
\* the game of the three tasks is a Match, for every path and every length of a
\* game: each pose of the path is ordered in its turn, behind the start and the
\* release, and the wheels are driven by turns of the controller that begin
\* before the end, and end behind the start and the release.
THEOREM GameIsPlayed ==
  ASSUME Commands \subseteq {"o", "e"}
  PROVE  Spec => PlaysMatch
<1>0. "g" \notin Commands
  OBVIOUS
<1>1. IInv /\ PathInv /\ MotionInv /\ [Next]_vars => [Played!Next]_(Played!avars)
  <2>1. CASE UNCHANGED vars
    BY <2>1 DEF vars, controller, planner, PLAN, CTRL, CALIB, machine,
                Played!avars, Phase, Wheels
  <2> QED
    BY <2>1, PlannerIsPlayed, ControllerIsPlayed, OthersArePlayed DEF Next
<1>2. PathInv /\ IInv /\ [Next]_vars => PathInv'
  BY <1>0, NextPathInv
<1>3. Spec => []MotionInv
  BY <1>0, MotionHolds
<1> QED
  BY <1>1, <1>2, <1>3, InitPathInv, InitIsPlayed, InvariantHolds, PTL
     DEF Spec, PlaysMatch, Played!Spec

-----------------------------------------------------------------------------
(* The obstacle and the wheels.                                            *)

(* Behind a look at an obstacle the order is zero; a turn that still took  *)
(* the order from before it ends before the next one takes it.             *)
Held ==
    /\ ctrl \notin {"check", "judge"} => speed = "zero"
    /\ ~obscured => overrun = 0
    /\ obscured => speed_order = "zero" /\ overrun \in {0, 1}
    /\ overrun = 1 => speed = "zero" /\ (ctrl = "drive" => command \in {"off", "hold"})

LEMMA NextHeld ==
  ASSUME TypeOK, Held, [Next]_vars
  PROVE  Held'
<1> USE DEF Held, TypeOK, controller, planner, PLAN, CTRL, CALIB, machine, controller_set_mode
<1>1. CASE plan_speed
  BY <1>1 DEF plan_speed, SpeedFor
<1>2. CASE ctrl_speed
  BY <1>2 DEF ctrl_speed
<1>3. CASE ctrl_check
  BY <1>3 DEF ctrl_check
<1>4. ASSUME NEW aligned \in BOOLEAN, ctrl_judge(aligned) PROVE Held'
  BY <1>4 DEF ctrl_judge, Limited
<1>5. CASE ctrl_drive
  BY <1>5 DEF ctrl_drive
<1>6. CASE \/ plan_top \/ plan_clock \/ plan_reached \/ plan_compare
           \/ plan_load \/ plan_store \/ plan_pick \/ plan_send
  <2>1. UNCHANGED <<speed_order, CTRL, obscured, overrun>>
    BY <1>6 DEF plan_top, plan_clock, plan_reached, plan_compare, plan_load,
                plan_store, plan_pick, plan_send
  <2> QED
    BY <2>1
<1>7. CASE ctrl_stop \/ ctrl_idle \/ ctrl_ingame \/ ctrl_order \/ ctrl_test \/ ctrl_end
  <2>1. /\ UNCHANGED <<speed_order, speed, command, obscured, overrun>>
        /\ ctrl \notin {"check", "judge", "drive"}
        /\ ctrl' \notin {"check", "judge", "drive"}
    BY <1>7 DEF ctrl_stop, ctrl_idle, ctrl_ingame, ctrl_order, ctrl_test,
                ctrl_end, vars
  <2> QED
    BY <2>1
<1>8. CASE task_calibration_entry \/ User \/ Release \/ UNCHANGED vars
  <2>1. UNCHANGED <<speed_order, CTRL, obscured, overrun>>
    BY <1>8 DEF task_calibration_entry, User, calib_poll, calib_key,
                calib_encoder, calib_test, calib_hbridge,
                planner_enter_calibration, calib_compare, calib_load,
                calib_store, calib_leave, calib_exit, planner_start_game,
                Release, vars
  <2> QED
    BY <2>1
<1> QED
  BY <1>1, <1>2, <1>3, <1>4, <1>5, <1>6, <1>7, <1>8
     DEF Next, task_planner, task_controller_update

\* Behind the planner's look at an obstacle at most one turn of the controller
\* still drives the wheels, whatever the console and the tests of the wheels do
\* and wherever in its turn the controller was: the copy of the speed order it
\* took before the look is its last at speed.
THEOREM ObstacleStopsWheels == Spec => []ObstacleHolds
<1>1. Init => Held
  BY DEF Init, Held
<1>2. IInv /\ Held /\ [Next]_vars => Held'
  BY NextHeld DEF IInv
<1>3. Held => ObstacleHolds
  BY DEF Held, ObstacleHolds
<1> QED
  BY <1>1, <1>2, <1>3, InvariantHolds, PTL DEF Spec
=============================================================================
