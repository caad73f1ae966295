----------------------------- MODULE CalibModes -----------------------------
(***************************************************************************)
(* The calibration tests of the wheels controller: the modes CALIB_MODE1   *)
(* to 3 of task_controller_update (core/controller.c), which share the     *)
(* counter `tempo` and the local speed_order, and the console task that    *)
(* selects them (controller_enter_calibration) at any moment, or leaves    *)
(* the calibration and starts the game.                                    *)
(*                                                                         *)
(* tempo, motor_command and speed_order belong to the controller's task:   *)
(* only its accesses to controller.mode can be told apart by the console   *)
(* task, so a turn of its loop is one step, and two when a test ends.      *)
(***************************************************************************)
EXTENDS Integers

CONSTANT Width    \* values of tempo, an uint16_t: 65536 in the code

ASSUME WidthAssumption == Width \in Nat /\ Width > 800

VARIABLES
    mode,        \* controller.mode
    tempo,       \* iterations of the current test
    ctrl,        \* task_controller_update
    last,        \* the mode of its last turn (history)
    spin,        \* speed_order.angle, kept from one turn to the next
    motor,       \* what the wheels were last told: a PWM, or a speed
    calib        \* the console task

vars == <<mode, tempo, ctrl, last, spin, motor, calib>>

Tests == {"MODE1", "MODE2", "MODE3"}
Modes == Tests \cup {"STOP", "IDLE", "INGAME"}

Pwm(d)      == [unit |-> "pwm", distance |-> d, angle |-> 0]
Speed(d, a) == [unit |-> "speed", distance |-> d, angle |-> a]

TypeOK ==
    /\ mode \in Modes /\ last \in Modes
    /\ tempo \in 0..(Width - 1)
    /\ ctrl \in {"loop", "end"}
    /\ spin \in {0, 75, 15, -15, 30, -30}
    /\ motor \in { Pwm(d) : d \in -200..200 }
                   \cup { Speed(d, a) : d \in {0, 15, 150}, a \in {0, 75, 15, -15, 30, -30} }
    /\ calib \in {"menu", "start", "exited"}

Init ==
    /\ mode = "STOP" /\ last = "STOP"
    /\ tempo = 0
    /\ ctrl = "loop"
    /\ spin = 0
    /\ motor = Pwm(0)
    /\ calib = "menu"

-----------------------------------------------------------------------------
(* task_controller_update                                                  *)

\* Mutant of SweepPwm: the second ramp is computed from the end of the first.
SweepPwm_Early(t) ==
    CASE t < 50               -> -200
      [] t \in 50..349        -> ((t - 50) * 4) \div 3 - 200
      [] t \in 350..449       -> 200
      [] t \in 450..749       -> 200 - ((t - 350) * 4) \div 3
      [] OTHER                -> -200

\* MODE1: a ramp of the PWM from -200 to 200, a second one back.
SweepPwm(t) ==
    CASE t < 50               -> -200
      [] t \in 50..349        -> ((t - 50) * 4) \div 3 - 200
      [] t \in 350..449       -> 200
      [] t \in 450..749       -> 200 - ((t - 450) * 4) \div 3
      [] OTHER                -> -200

\* MODE2: the linear speed asked for.
StepSpeed(t) == IF t \in 50..349 THEN 15 ELSE 0

\* MODE3: the angular speed asked for; behind the test's 8 seconds, and only
\* there, it is the one the local held.
SpinSpeed(t) ==
    CASE t < 100        -> 15
      [] t \in 100..199 -> -30
      [] t \in 200..299 -> 30
      [] t \in 300..399 -> -15
      [] OTHER          -> spin

\* Mutant of Tick: the counter stops at its largest value.
Tick_Saturating == IF tempo = Width - 1 THEN tempo ELSE tempo + 1

Tick == (tempo + 1) % Width

\* The iteration a test ends on, tested with ==.
Length(m) == IF m = "MODE1" THEN 800 ELSE 400

\* One turn in a calibration test.
ctrl_test(m) ==
    /\ ctrl = "loop" /\ mode = m
    /\ last' = m
    /\ CASE m = "MODE1" -> motor' = Pwm(SweepPwm(tempo)) /\ UNCHANGED spin
         [] m = "MODE2" -> spin' = 0 /\ motor' = Speed(StepSpeed(tempo), 0)
         [] m = "MODE3" -> /\ spin' = SpinSpeed(tempo)
                           /\ motor' = Speed(0, SpinSpeed(tempo))
    /\ tempo' = Tick
    /\ ctrl' = IF Tick = Length(m) THEN "end" ELSE "loop"
    /\ UNCHANGED <<mode, calib>>

\* Mutant of ctrl_end: the counter is left for the next test.
ctrl_end_NoReset ==
    /\ ctrl = "end"
    /\ motor' = Pwm(0)
    /\ mode' = "STOP"
    /\ ctrl' = "loop"
    /\ UNCHANGED <<tempo, last, spin, calib>>

\* The last lines of a test's last turn.  The console task may have changed
\* the mode since the turn began: the change is lost.
ctrl_end ==
    /\ ctrl = "end"
    /\ motor' = Pwm(0)
    /\ mode' = "STOP"
    /\ tempo' = 0
    /\ ctrl' = "loop"
    /\ UNCHANGED <<last, spin, calib>>

\* STOP, IDLE and INGAME, as far as they touch what the tests use: in INGAME
\* speed_order holds the planner's order, 150 and 75 at most.
ctrl_other ==
    /\ ctrl = "loop" /\ mode \notin Tests
    /\ last' = mode
    /\ CASE mode = "STOP"   -> motor' = Pwm(0) /\ UNCHANGED spin
         [] mode = "IDLE"   -> UNCHANGED <<motor, spin>>
         [] mode = "INGAME" -> /\ spin' \in {0, 75}
                               /\ motor' = Speed(2 * spin', spin')
    /\ UNCHANGED <<mode, tempo, ctrl, calib>>

task_controller_update == ctrl_other \/ ctrl_end \/ \E m \in Tests : ctrl_test(m)

-----------------------------------------------------------------------------
(* The console task                                                        *)

\* '1', '2' and '3' in controller_enter_calibration.
calib_select(m) ==
    /\ calib = "menu"
    /\ mode' = m
    /\ UNCHANGED <<tempo, ctrl, last, spin, motor, calib>>

\* 'o' in the menu above: encoder_enter_calibration.
calib_encoder ==
    /\ calib = "menu"
    /\ mode' = "IDLE"
    /\ UNCHANGED <<tempo, ctrl, last, spin, motor, calib>>

\* 'q', then 'e': planner_start_game, then kos_task_exit.
calib_start ==
    /\ \/ calib = "menu" /\ calib' = "start" /\ UNCHANGED mode
       \/ calib = "start" /\ calib' = "exited" /\ mode' = "INGAME"
    /\ UNCHANGED <<tempo, ctrl, last, spin, motor>>

Console == calib_encoder \/ calib_start \/ \E m \in Tests : calib_select(m)

Next == task_controller_update \/ Console

Spec == Init /\ [][Next]_vars

\* The kernel gives the controller's task the CPU again and again.
FairSpec == Spec /\ WF_vars(task_controller_update)

-----------------------------------------------------------------------------
(* Properties                                                              *)

\* Every test ends, also one that begins with the counter of another, past
\* the iteration it would end on: the counter wraps.
TestsEnd == \A m \in Tests : mode = m ~> mode # m

\* controller.c, "Two ramps: [-pwm ... +pwm], [+pwm ... -pwm]": within a sweep
\* the PWM never jumps, from one branch to the next and across the wrap of
\* the counter.
SweepIsSmooth ==
    [][last = "MODE1" /\ mode = "MODE1" /\ ctrl = "loop" /\ tempo # 0
         /\ tempo' # tempo
         => /\ motor'.distance - motor.distance <= 2
            /\ motor.distance - motor'.distance <= 2]_vars

\* A test begins a turn in a mode that the last turn was not in.
Enters(m) == ctrl = "loop" /\ mode = m /\ last # m /\ last' = m

\* A test selected once the controller has stopped runs in full, whatever was
\* done before with the modes and their common counter.
FreshFromStop ==
    [][\A m \in Tests : Enters(m) /\ last = "STOP" => tempo = 0]_vars

\* controller.c, "first entry, we reset the datalog", if (!tempo): the counter
\* is zero on the first turn of a test.  The code does not keep this: a test
\* selected while another one runs goes on with the other one's counter.
FirstEntryResets ==
    [][\A m \in Tests : Enters(m) => tempo = 0]_vars
=============================================================================
