-------------------------------- MODULE Game --------------------------------
(***************************************************************************)
(* The game of the cortex machine: the planner (core/planner.c), the       *)
(* controller of the wheels (core/controller.c) and the calibration entry  *)
(* (machines/cortex/platform_task.c), three tasks that share the global    *)
(* `controller`, the path and the planner's flags.  The modes CALIB_MODE1  *)
(* to 3 are one here, CALIB: what a test drives is in CalibModes.          *)
(*                                                                         *)
(* The tick may switch tasks anywhere outside the setters and getters that *)
(* mask interrupts, so each access to shared state, or group of accesses   *)
(* that no other task can tell from one, is a step of its own: the index   *)
(* of the path is compared, loaded and stored in three, and the            *)
(* simulator's build (-O0) loads it anew where the firmware's (-Os) still  *)
(* holds the value compared.  Kos says which task runs; here any task may  *)
(* take the next step.                                                     *)
(*                                                                         *)
(* A pose is its index in the path; ORIGIN is the {0,0,0} of an order      *)
(* never given, AWAY a place that is no pose.  The index may pass the      *)
(* path's end, and what lies there is then ordered like a pose.  A place   *)
(* is where the odometry has the robot.  The machine's path has no action  *)
(* and grants the reverse gear nowhere.                                    *)
(***************************************************************************)
EXTENDS Integers

CONSTANTS
    NbPose,        \* path->nb_pose
    GameTicks,     \* GAME_DURATION_TICKS: planner periods in a game
    AutobootPolls, \* looks at the console before the game starts by itself
    Commands,      \* what the user may type in the calibration menu
    MaxSessions,   \* bound: visits to the planner's calibration, 'g'
    Beyond         \* what lies behind the path's end and the robot may get to

ASSUME NbPoseAssumption    == NbPose \in Nat \ {0}
ASSUME CommandsAssumption  == Commands \subseteq {"g", "o", "p", "r", "e"}
ASSUME BeyondAssumption    == Beyond \subseteq {NbPose, NbPose + 1}
ASSUME AutobootAssumption  == AutobootPolls \in Nat \ {0}
(* A visit to 'g' may cost one period of game time (see clock): the code   *)
(* counts 900 of them.                                                     *)
ASSUME GameTicksAssumption ==
    GameTicks \in Nat /\ MaxSessions \in Nat /\ MaxSessions < GameTicks

Poses  == 0..(NbPose - 1)
Slots  == 0..(NbPose + 1)     \* the poses, and two behind the last
ORIGIN == -1
AWAY   == -2

VARIABLES
    \* the global `controller`
    mode,              \* controller.mode
    pose_order,        \* controller.pose_order
    speed_order,       \* controller.speed_order: zero or not
    pose_reached,      \* controller.pose_reached
    regul,             \* controller.regul
    \* the planner's statics
    game_started, in_calibration, game_time, current_pose_idx,
    \* program counters and locals of the tasks
    plan, planned,     \* task_planner, and the index it has loaded
    ctrl,              \* task_controller_update
    order, speed,      \* its copies of pose_order and speed_order
    command,           \* its motor_command
    calib, autoboot,   \* task_calibration_entry, and what planner_enter_calibration does
    held,              \* the index it has loaded
    sessions,          \* visits to 'g' so far
    \* the machine
    motor,             \* what the wheels were last told
    place,             \* the pose the odometry has the robot at
    launched,          \* mach_is_game_launched(): the starter is released
    obscured,          \* what mach_is_zone_obscured() last said of the zone ahead
    overrun            \* history: turns that drove the wheels since it said so

controller == <<mode, pose_order, speed_order, pose_reached, regul>>
planner    == <<game_started, in_calibration, game_time, current_pose_idx>>
PLAN       == <<plan, planned>>
CTRL       == <<ctrl, order, speed, command>>
CALIB      == <<calib, autoboot, held, sessions>>
machine    == <<motor, place, launched, obscured, overrun>>
vars       == <<controller, planner, PLAN, CTRL, CALIB, machine>>

Motions == {"off", "hold", "go", "turn"}

TypeOK ==
    /\ mode \in {"STOP", "IDLE", "INGAME", "CALIB"}
    /\ pose_order \in Slots \cup {ORIGIN}
    /\ speed_order \in {"zero", "full"}
    /\ pose_reached \in BOOLEAN
    /\ regul \in {"POSE_DIST", "POSE_ANGL"}
    /\ game_started \in BOOLEAN /\ in_calibration \in BOOLEAN
    /\ game_time \in 0..GameTicks
    /\ current_pose_idx \in Slots
    /\ plan \in {"top", "clock", "speed", "reached", "compare", "load", "store",
                 "pick", "send", "exited"}
    /\ planned \in Slots \cup {ORIGIN}
    /\ ctrl \in {"loop", "order", "speed", "check", "judge", "drive",
                 "test", "end"}
    /\ order \in Slots \cup {ORIGIN}
    /\ speed \in {"zero", "full"}
    /\ command \in Motions
    /\ calib \in {"wait", "menu", "pwm", "enter", "session", "next", "prev",
                  "up", "down", "leave", "left", "start", "started", "exited"}
    /\ autoboot \in 0..AutobootPolls
    /\ held \in Slots
    /\ sessions \in 0..MaxSessions
    /\ motor \in Motions
    /\ place \in Slots \cup {AWAY}
    /\ launched \in BOOLEAN /\ obscured \in BOOLEAN /\ overrun \in 0..2

\* The planner and the controller have run their first lines: the planner is
\* dispatched first and reaches its loop within the first tick.
Init ==
    /\ mode = "STOP" /\ pose_order = ORIGIN /\ speed_order = "zero"
    /\ pose_reached = FALSE /\ regul = "POSE_DIST"
    /\ game_started = FALSE /\ in_calibration = FALSE
    /\ game_time = 0 /\ current_pose_idx = 0
    /\ plan = "top" /\ planned = ORIGIN
    /\ ctrl = "loop" /\ order = ORIGIN /\ speed = "zero" /\ command = "off"
    /\ calib = "wait" /\ autoboot = AutobootPolls
    /\ held = 0 /\ sessions = 0
    /\ motor = "off" /\ place = 0
    /\ launched = FALSE /\ obscured = FALSE /\ overrun = 0

controller_set_mode(m) ==
    mode' = m /\ UNCHANGED <<pose_order, speed_order, pose_reached, regul>>

\* Mutant of BeforeLast: the last pose alone is told from the others.
BeforeLast_NotEqual(i) == i # NbPose - 1

\* What increment_current_pose_idx asks, for a path that is not played in loop.
BeforeLast(i) == i < NbPose - 1

-----------------------------------------------------------------------------
(* task_planner                                                            *)

\* Nothing to do before the game: kos_yield, and look again.
plan_top ==
    /\ plan = "top"
    /\ game_started \/ in_calibration
    /\ plan' = "clock"
    /\ UNCHANGED <<controller, planner, planned, CTRL, CALIB, machine>>

\* Mutant of StarterIn: the starter switch is not looked at.
StarterIn_Ignored == FALSE

\* The starter switch is not released.
StarterIn == ~launched

\* Mutant of CountPeriod: the period is not counted.
CountPeriod_Forgotten == UNCHANGED game_time

CountPeriod == game_time' = game_time + 1

\* The game's clock, which a calibration suspends.  The calibration may have
\* ended since plan_top: a period is then counted before the game starts.
plan_clock ==
    /\ plan = "clock"
    /\ \/ /\ in_calibration
          /\ plan' = "speed"
          /\ UNCHANGED <<controller, planner>>
       \/ /\ ~in_calibration /\ StarterIn          \* goto yield_point
          /\ plan' = "top"
          /\ UNCHANGED <<controller, planner>>
       \/ /\ ~in_calibration /\ ~StarterIn /\ game_time >= GameTicks
          /\ controller_set_mode("STOP")
          /\ plan' = "exited"                      \* break, kos_task_exit
          /\ UNCHANGED planner
       \/ /\ ~in_calibration /\ ~StarterIn /\ game_time < GameTicks
          /\ CountPeriod
          /\ plan' = "speed"
          /\ UNCHANGED <<controller, game_started, in_calibration,
                         current_pose_idx>>
    /\ UNCHANGED <<planned, CTRL, CALIB, machine>>

\* Mutant of SpeedFor: no collision detection.
SpeedFor_Full(obstacle) == "full"

\* Collision detection: obstacles come and go, and only the look tells.
SpeedFor(obstacle) == IF obstacle THEN "zero" ELSE "full"

plan_speed ==
    /\ plan = "speed"
    /\ obscured' \in BOOLEAN
    /\ speed_order' = SpeedFor(obscured')
    /\ overrun' = IF obscured' THEN overrun ELSE 0
    /\ plan' = "reached"
    /\ UNCHANGED <<mode, pose_order, pose_reached, regul, planner, planned,
                   CTRL, CALIB, motor, place, launched>>

plan_reached ==
    /\ plan = "reached"
    /\ plan' = IF ~in_calibration /\ pose_reached THEN "compare" ELSE "pick"
    /\ UNCHANGED <<controller, planner, planned, CTRL, CALIB, machine>>

\* increment_current_pose_idx: the index is compared with the path's end, ...
plan_compare ==
    /\ plan = "compare"
    /\ IF BeforeLast(current_pose_idx)
       THEN plan' = "load" /\ planned' = current_pose_idx
       ELSE plan' = "pick" /\ UNCHANGED planned
    /\ UNCHANGED <<controller, planner, CTRL, CALIB, machine>>

\* ... loaded, unless the register still holds it, ...
plan_load ==
    /\ plan = "load"
    /\ planned' \in {planned, current_pose_idx}
    /\ plan' = "store"
    /\ UNCHANGED <<controller, planner, CTRL, CALIB, machine>>

\* Mutant of plan_store: the index is moved on by two.
plan_store_Twice ==
    /\ plan = "store"
    /\ current_pose_idx' = IF planned + 2 < NbPose THEN planned + 2 ELSE planned + 1
    /\ planned' = ORIGIN
    /\ plan' = "pick"
    /\ UNCHANGED <<controller, game_started, in_calibration, game_time, CTRL,
                   CALIB, machine>>

\* ... and stored.
plan_store ==
    /\ plan = "store"
    /\ current_pose_idx' = planned + 1
    /\ planned' = ORIGIN
    /\ plan' = "pick"
    /\ UNCHANGED <<controller, game_started, in_calibration, game_time, CTRL,
                   CALIB, machine>>

\* The pose to order.
plan_pick ==
    /\ plan = "pick"
    /\ planned' = current_pose_idx
    /\ plan' = "send"
    /\ UNCHANGED <<controller, planner, CTRL, CALIB, machine>>

\* controller_set_pose_to_reach, with interrupts masked, and kos_yield.
plan_send ==
    /\ plan = "send"
    /\ pose_order' = planned
    /\ pose_reached' = (pose_reached /\ planned = pose_order)
    /\ plan' = "top"
    /\ planned' = ORIGIN
    /\ UNCHANGED <<mode, speed_order, regul, planner, CTRL, CALIB, machine>>

task_planner ==
    \/ plan_top \/ plan_clock \/ plan_speed \/ plan_reached \/ plan_compare
    \/ plan_load \/ plan_store \/ plan_pick \/ plan_send

-----------------------------------------------------------------------------
(* task_controller_update                                                  *)

\* Mutant of ctrl_stop: the final position is reached with the last command.
ctrl_stop_NoDrive ==
    /\ ctrl = "loop" /\ mode = "STOP"
    /\ UNCHANGED vars

\* CTRL_STATE_STOP: the wheels are told to stop.
ctrl_stop ==
    /\ ctrl = "loop" /\ mode = "STOP"
    /\ motor' = "off"
    /\ UNCHANGED <<controller, planner, PLAN, CTRL, CALIB, place, launched,
                   obscured, overrun>>

\* Where the wheels may have brought the robot since the last encoder_read.
\* They turn in place, and do not move the robot when told to stop.
Reachable == IF motor = "go" THEN Poses \cup Beyond \cup {AWAY} ELSE {place}

\* CTRL_STATE_IDLE: the encoder is read and no motor controlled; what it has
\* counted is not passed to the odometry.
ctrl_idle ==
    /\ ctrl = "loop" /\ mode = "IDLE"
    /\ UNCHANGED vars

\* CTRL_STATE_INGAME: encoder_read and odometry_update.
ctrl_ingame ==
    /\ ctrl = "loop" /\ mode = "INGAME"
    /\ place' \in Reachable
    /\ ctrl' = "order"
    /\ UNCHANGED <<controller, planner, PLAN, order, speed, command, CALIB,
                   motor, launched, obscured, overrun>>

\* controller_get_pose_to_reach.
ctrl_order ==
    /\ ctrl = "order"
    /\ order' = pose_order
    /\ ctrl' = "speed"
    /\ UNCHANGED <<controller, planner, PLAN, speed, command, CALIB, machine>>

\* controller_get_speed_order.
ctrl_speed ==
    /\ ctrl = "speed"
    /\ speed' = speed_order
    /\ ctrl' = "check"
    /\ UNCHANGED <<controller, planner, PLAN, order, command, CALIB, machine>>

\* controller_update: nothing to do once the pose is reached.
ctrl_check ==
    /\ ctrl = "check"
    /\ IF pose_reached
       THEN /\ ctrl' = "drive" /\ command' = "off"
            /\ order' = ORIGIN /\ speed' = "zero"
       ELSE /\ ctrl' = "judge"
            /\ UNCHANGED <<command, order, speed>>
    /\ UNCHANGED <<controller, planner, PLAN, CALIB, machine>>

\* limit_speed_command: a zero speed order holds the robot.
Limited(motion) == IF speed = "zero" THEN "hold" ELSE motion

\* The rest of controller_update.  `aligned`: the orientation error is below
\* its threshold.  In the position correction an unaligned robot turns to the
\* pose, an aligned one runs to it; in the orientation correction, entered
\* close to the pose and left when the pose is reached, the distance is not
\* looked at.
ctrl_judge(aligned) ==
    /\ ctrl = "judge"
    /\ ctrl' = "drive"
    /\ \/ /\ regul = "POSE_DIST" /\ place # order
          /\ command' = Limited(IF aligned THEN "go" ELSE "turn")
          /\ UNCHANGED <<regul, pose_reached>>
       \/ /\ regul = "POSE_ANGL" \/ place = order
          /\ IF aligned
             THEN /\ pose_reached' = TRUE
                  /\ regul' = "POSE_DIST"
                  /\ command' = "hold"
             ELSE /\ regul' = "POSE_ANGL"
                  /\ command' = Limited("turn")
                  /\ UNCHANGED pose_reached
    /\ order' = ORIGIN /\ speed' = "zero"           \* the copies are dead
    /\ UNCHANGED <<mode, pose_order, speed_order, planner, PLAN, CALIB, machine>>

\* motor_drive, mach_post_ctrl_loop_func and kos_yield.  `overrun` stops counting
\* above its bound.
ctrl_drive ==
    /\ ctrl = "drive"
    /\ motor' = command
    /\ overrun' = IF obscured /\ command \in {"go", "turn"} /\ overrun <= 1
                  THEN overrun + 1 ELSE overrun
    /\ ctrl' = "loop"
    /\ command' = "off"
    /\ UNCHANGED <<controller, planner, PLAN, order, speed, CALIB, place,
                   launched, obscured>>

\* CTRL_STATE_CALIB_MODE1 to 3: the test drives the wheels, and the odometry
\* does not learn of it.  Its last turn stops them, ...
ctrl_test ==
    /\ \/ /\ ctrl = "loop" /\ mode = "CALIB"
          /\ ctrl' = "test"
          /\ UNCHANGED motor
       \/ /\ ctrl = "test"
          /\ \/ ctrl' = "loop" /\ motor' \in Motions
             \/ ctrl' = "end" /\ motor' = "off"
    /\ UNCHANGED <<controller, planner, PLAN, order, speed, command, CALIB,
                   place, launched, obscured, overrun>>

\* ... then sets the mode, whatever the console set in the meantime.
ctrl_end ==
    /\ ctrl = "end"
    /\ controller_set_mode("STOP")
    /\ ctrl' = "loop"
    /\ UNCHANGED <<planner, PLAN, order, speed, command, CALIB, machine>>

task_controller_update ==
    \/ ctrl_stop \/ ctrl_idle \/ ctrl_ingame \/ ctrl_order \/ ctrl_speed
    \/ ctrl_check \/ ctrl_drive \/ ctrl_test \/ ctrl_end
    \/ \E aligned \in BOOLEAN : ctrl_judge(aligned)

-----------------------------------------------------------------------------
(* task_calibration_entry                                                  *)

\* No key yet: one look less before the game starts by itself.
calib_poll ==
    /\ calib = "wait"
    /\ autoboot' = autoboot - 1
    /\ calib' = IF autoboot = 1 THEN "start" ELSE "wait"
    /\ UNCHANGED <<controller, planner, PLAN, CTRL, held, sessions, machine>>

\* A key: the menu.
calib_key ==
    /\ calib = "wait" /\ Commands # {}
    /\ calib' = "menu"
    /\ autoboot' = 0
    /\ UNCHANGED <<controller, planner, PLAN, CTRL, held, sessions, machine>>

\* 'o': encoder_enter_calibration puts the controller in IDLE.
calib_encoder ==
    /\ calib = "menu" /\ "o" \in Commands
    /\ controller_set_mode("IDLE")
    /\ UNCHANGED <<planner, PLAN, CTRL, CALIB, machine>>

\* 'r': a test of controller_enter_calibration is selected.
calib_test ==
    /\ calib = "menu" /\ "r" \in Commands
    /\ controller_set_mode("CALIB")
    /\ UNCHANGED <<planner, PLAN, CTRL, CALIB, machine>>

\* 'p': hbridge_enter_calibration puts the controller in IDLE; its keys drive
\* the wheels until 'q', and nothing stops them behind it.
calib_hbridge ==
    /\ \/ /\ calib = "menu" /\ "p" \in Commands
          /\ controller_set_mode("IDLE")
          /\ calib' = "pwm"
          /\ UNCHANGED motor
       \/ /\ calib = "pwm"
          /\ motor' \in Motions \ {"hold"}            \* a PWM, not a speed
          /\ UNCHANGED <<controller, calib>>
       \/ /\ calib = "pwm"
          /\ calib' = "menu"
          /\ UNCHANGED <<controller, motor>>
    /\ UNCHANGED <<planner, PLAN, CTRL, autoboot, held, sessions, place,
                   launched, obscured, overrun>>

\* 'g': planner_enter_calibration, up to its loop.
planner_enter_calibration ==
    /\ \/ /\ calib = "menu" /\ "g" \in Commands /\ sessions < MaxSessions
          /\ in_calibration' = TRUE
          /\ sessions' = sessions + 1
          /\ calib' = "enter"
          /\ UNCHANGED controller
       \/ /\ calib = "enter"
          /\ controller_set_mode("INGAME")
          /\ calib' = "session"
          /\ UNCHANGED <<in_calibration, sessions>>
    /\ UNCHANGED <<game_started, game_time, current_pose_idx, PLAN, CTRL,
                   autoboot, held, machine>>

\* 'n' and 'p' in planner_enter_calibration: the index is compared, ...
calib_compare ==
    /\ calib = "session"
    /\ \/ calib' = "next" /\ BeforeLast(current_pose_idx)
       \/ calib' = "prev" /\ current_pose_idx > 0
    /\ held' = current_pose_idx
    /\ UNCHANGED <<controller, planner, PLAN, CTRL, autoboot, sessions, machine>>

\* ... loaded, unless the register still holds it, ...
calib_load ==
    /\ \/ calib = "next" /\ calib' = "up"
       \/ calib = "prev" /\ calib' = "down"
    /\ held' \in {held, current_pose_idx}
    /\ UNCHANGED <<controller, planner, PLAN, CTRL, autoboot, sessions, machine>>

\* ... and stored.
calib_store ==
    /\ \/ calib = "up" /\ current_pose_idx' = held + 1
       \/ calib = "down" /\ current_pose_idx' = held - 1
    /\ calib' = "session" /\ held' = 0
    /\ UNCHANGED <<controller, game_started, in_calibration, game_time, PLAN,
                   CTRL, autoboot, sessions, machine>>

\* 'q': the index is reset, the controller goes to IDLE, the flag comes last.
calib_leave ==
    /\ \/ /\ calib = "session"
          /\ current_pose_idx' = 0
          /\ calib' = "leave"
          /\ UNCHANGED <<controller, in_calibration>>
       \/ /\ calib = "leave"
          /\ controller_set_mode("IDLE")
          /\ calib' = "left"
          /\ UNCHANGED <<in_calibration, current_pose_idx>>
       \/ /\ calib = "left"
          /\ in_calibration' = FALSE
          /\ calib' = "menu"
          /\ UNCHANGED <<controller, current_pose_idx>>
    /\ UNCHANGED <<game_started, game_time, PLAN, CTRL, autoboot, held,
                   sessions, machine>>

\* 'e'.
calib_exit ==
    /\ calib = "menu" /\ "e" \in Commands
    /\ calib' = "start"
    /\ UNCHANGED <<controller, planner, PLAN, CTRL, autoboot, held, sessions,
                   machine>>

\* Mutant of planner_start_game: the flag is raised before the mode is set.
planner_start_game_FlagFirst ==
    /\ \/ /\ calib = "start"
          /\ game_started' = TRUE
          /\ calib' = "started"
          /\ UNCHANGED controller
       \/ /\ calib = "started"
          /\ controller_set_mode("INGAME")
          /\ calib' = "exited"
          /\ UNCHANGED game_started
    /\ UNCHANGED <<in_calibration, game_time, current_pose_idx, PLAN, CTRL,
                   autoboot, held, sessions, machine>>

\* planner_start_game, then kos_task_exit.
planner_start_game ==
    /\ \/ /\ calib = "start"
          /\ controller_set_mode("INGAME")
          /\ calib' = "started"
          /\ UNCHANGED game_started
       \/ /\ calib = "started"
          /\ game_started' = TRUE
          /\ calib' = "exited"
          /\ UNCHANGED controller
    /\ UNCHANGED <<in_calibration, game_time, current_pose_idx, PLAN, CTRL,
                   autoboot, held, sessions, machine>>

\* What the user types.
User ==
    \/ calib_key \/ calib_encoder \/ calib_test \/ calib_hbridge
    \/ calib_compare \/ calib_exit

\* What task_calibration_entry does by itself; 'g' and 'q' are typed too.
task_calibration_entry ==
    \/ calib_poll \/ planner_enter_calibration \/ calib_load \/ calib_store
    \/ calib_leave \/ planner_start_game

\* ... which are its own where the user has nothing to type.
OwnSteps == calib # "menu" /\ calib # "session" /\ task_calibration_entry

-----------------------------------------------------------------------------
(* The machine: the starter is released once.                              *)

Release ==
    /\ ~launched
    /\ launched' = TRUE
    /\ UNCHANGED <<controller, planner, PLAN, CTRL, CALIB, motor, place,
                   obscured, overrun>>

Next ==
    \/ task_planner \/ task_controller_update
    \/ task_calibration_entry \/ User
    \/ Release

Spec == Init /\ [][Next]_vars

(* The kernel gives the CPU again and again to each task that has not      *)
(* exited (Kos, ImplementsMultitasking).  Nobody has to type a command,    *)
(* release the starter or step out of the way.                             *)
Fairness ==
    /\ WF_vars(task_planner)
    /\ WF_vars(task_controller_update)
    /\ WF_vars(OwnSteps)

FairSpec == Spec /\ Fairness

-----------------------------------------------------------------------------
(* Properties                                                              *)

\* From the start of the game to the planner's last period.
InGame == game_started /\ plan # "exited"

\* The controller is in INGAME from the start of the game to its end, and in
\* STOP from then on, whatever the calibration's last steps and the planner's
\* own, begun before, leave in controller.mode; but a test of the wheels still
\* under way at the start may end behind it, and stop the controller for the
\* whole game.
ModeFollowsGame ==
    /\ [](plan = "exited" => mode = "STOP")
    /\ [](InGame => mode = "INGAME" \/ (mode = "STOP" /\ "r" \in Commands))
    /\ [][InGame /\ mode # mode' => plan' = "exited" \/ ctrl = "end"]_vars

\* task_planner, "while starter switch is not release we wait": until then the
\* controller, in INGAME or about to be, has no pose to reach at any speed.
\* True of a game that starts by itself; a visit to 'g' leaves its last orders
\* behind, and the robot runs as soon as the game starts.
StarterHolds ==
    (calib \in {"started", "exited"} /\ ~launched) =>
        speed_order = "zero" \/ pose_reached

\* controller_update, "orientation correction (position is reached)": the pose
\* declared reached is the one ordered, and the odometry has the robot there.
ReachedMeansThere ==
    [][~pose_reached /\ pose_reached' => place = pose_order]_vars

\* Collision detection: behind the planner's look at an obstacle, and until
\* one that sees none, at most one turn of the controller still drives the
\* wheels, the one under way: in a game and in the planner's calibration, and
\* wherever the two tasks were when the obstacle came.
ObstacleHolds == overrun <= 1

\* In a game the orders follow the path, one pose after another, and the next
\* is given only once the last was declared reached.
OrdersFollowPath ==
    [][game_started /\ pose_order' # pose_order =>
         \/ pose_order = ORIGIN /\ pose_order' = 0
         \/ pose_reached /\ pose_order' = pose_order + 1]_vars

\* What a Match shows of the game.
Phase  == IF plan = "exited" THEN "over"
          ELSE IF game_started THEN "running" ELSE "setup"
Wheels == IF motor \in {"go", "turn"} THEN "driven" ELSE "still"

Played == INSTANCE Match
            WITH phase <- Phase, released <- launched, goal <- pose_order,
                 reached <- pose_reached, turn <- ctrl # "loop",
                 wheels <- Wheels

\* task_planner, "while starter switch is not release we wait", and its break
\* at the end of the game: without a visit to 'g' the three tasks play a Match.
\* No pose is ordered, and no wheel driven, before the start and the release,
\* nor behind the end but by the turn that the end finds the controller in.
PlaysMatch == Played!Spec

\* A game whose starter is released ends.
GameEnds == (game_started /\ launched) ~> plan = "exited"

\* The robot is stopped for good after the planner's end, though the
\* controller may be in the middle of a last turn of its loop.
EndStopsWheels == plan = "exited" ~> [](motor = "off")
=============================================================================
