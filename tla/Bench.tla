------------------------------- MODULE Bench -------------------------------
(***************************************************************************)
(* The drivers and the ports, side by side for the model checker: in each  *)
(* behaviour one part, chosen at the start, runs and the others stay in    *)
(* their initial state.  The parts share nothing but the tasks that call   *)
(* them, whose interleavings each of them models.                          *)
(***************************************************************************)
EXTENDS UnixKos, Sensors, Servos, Tower, Encoders, Engines

VARIABLES
    part,       \* the part that runs
    \* SimWheels
    engine, pwm, changes, simu_dir, tc, simu_encoder,
    \* Avoidance
    path, latest_pos_idx, start, finish, route, index, pose_reached

-----------------------------------------------------------------------------
(* The instances.  Bench.cfg takes two tasks and IDLE, with delays of one  *)
(* tick and of two, for the kernel; an elevator of four positions.         *)

\* Three sensors; a sight that is near for each of them, and one that is not.
BenchUsed == <<0, 1, 2>>

\* A turn that drives one wheel within the PWM's period and one beyond it.
BenchDrives == {<<100, -200>>}

\* One servo, whose two pulses differ in both bytes, for both tasks.
BenchFitted == <<5>>

\* Geonobot's polarities, on a counter of 16 values: centre 2.  Each move is
\* past one end for one wheel and within the range for the other.
BenchPolarity == [w \in Wheel |-> 1 - 2 * w]
BenchMoves == {-3, 13}

W == INSTANCE SimWheels WITH Pwms <- {-200, 0, 40}, MaxChanges <- 1

\* The machines' obstacle on a table of 3 m by 2 m, in steps of 200 mm; poses
\* around it, and on its vertices, where a route may be left; paths of two.
Obstacle == <<<<5, 3>>, <<7, 3>>, <<7, 5>>, <<5, 5>>>>
Around == ({2, 8} \X {1, 4, 6}) \cup { Obstacle[n] : n \in DOMAIN Obstacle }
Pairs  == { <<p, q>> : p \in {<<8, 6>>, <<7, 3>>}, q \in Around }
A == INSTANCE Avoidance
       WITH polygons <- <<Obstacle>>, Unit <- 200, Points <- Around, Paths <- Pairs

\* What the theorems about the avoidance ask of a table.
ASSUME TableAssumption == A!Table /\ A!Connected

Parts == {"unix", "sensors", "servos", "tower", "encoders", "engines",
          "simwheels", "avoidance"}

simwheelVars  == <<engine, pwm, changes, simu_dir, tc, simu_encoder>>
avoidanceVars == <<path, latest_pos_idx, start, finish, route, index,
                   pose_reached>>
allVars       == <<part, unixVars, sensorVars, servoVars, towerVars,
                   encoderVars, engineVars, simwheelVars, avoidanceVars>>

\* A part that does not run starts in one of its initial states.
Init ==
    /\ part \in Parts
    /\ part = "sensors"   \/ sight = [i \in Index |-> 112]
    /\ part = "tower"     \/ (position = 0 /\ spot = FALSE)
    /\ part = "simwheels" \/ (engine = "left" /\ pwm = 0)
    /\ part = "avoidance" \/ (path = <<<<8, 6>>, <<2, 6>>>> /\ pose_reached = <<2, 1>>)
    /\ UnixInit /\ SensorsInit /\ ServosInit /\ TowerInit
    /\ EncodersInit /\ EnginesInit /\ W!Init /\ A!Init

unix ==
    /\ part = "unix" /\ UnixNext
    /\ UNCHANGED <<part, sensorVars, servoVars, towerVars, encoderVars,
                   engineVars, simwheelVars, avoidanceVars>>

sensors ==
    /\ part = "sensors" /\ SensorsNext
    /\ UNCHANGED <<part, unixVars, servoVars, towerVars, encoderVars,
                   engineVars, simwheelVars, avoidanceVars>>

servos ==
    /\ part = "servos" /\ ServosNext
    /\ UNCHANGED <<part, unixVars, sensorVars, towerVars, encoderVars,
                   engineVars, simwheelVars, avoidanceVars>>

tower ==
    /\ part = "tower" /\ TowerNext
    /\ UNCHANGED <<part, unixVars, sensorVars, servoVars, encoderVars,
                   engineVars, simwheelVars, avoidanceVars>>

encoders ==
    /\ part = "encoders" /\ EncodersNext
    /\ UNCHANGED <<part, unixVars, sensorVars, servoVars, towerVars,
                   engineVars, simwheelVars, avoidanceVars>>

engines ==
    /\ part = "engines" /\ EnginesNext
    /\ UNCHANGED <<part, unixVars, sensorVars, servoVars, towerVars,
                   encoderVars, simwheelVars, avoidanceVars>>

simwheels ==
    /\ part = "simwheels" /\ W!Next
    /\ UNCHANGED <<part, unixVars, sensorVars, servoVars, towerVars,
                   encoderVars, engineVars, avoidanceVars>>

avoidance ==
    /\ part = "avoidance" /\ A!Next
    /\ UNCHANGED <<part, unixVars, sensorVars, servoVars, towerVars,
                   encoderVars, engineVars, simwheelVars>>

Next == \/ unix \/ sensors \/ servos \/ tower
        \/ encoders \/ engines \/ simwheels \/ avoidance

\* What each part's own specification assumes, for the part that runs.
Fairness ==
    /\ WF_unixVars(part = "unix" /\ (\/ kos_new_task
                                    \/ timer_normal_mode_setup \/ kos_run))
    /\ WF_unixVars(part = "unix" /\ \E t \in Tasks \cup {MAIN} : Kernel(t))
    /\ WF_unixVars(part = "unix" /\ TimerExpires)
    /\ WF_unixVars(part = "unix" /\ irq_timer_tick_handler)
    /\ WF_sensorVars(part = "sensors" /\ (refresh_mux \/ refresh_start))
    /\ WF_sensorVars(part = "sensors" /\ Convert)
    /\ WF_sensorVars(part = "sensors" /\ irq_adc_handler)
    /\ WF_servoVars(part = "servos" /\ Step("EVNT"))
    /\ WF_servoVars(part = "servos" /\ Step("CALIB"))
    /\ WF_towerVars(part = "tower" /\ Pass)
    /\ WF_towerVars(part = "tower" /\ Motion)
    /\ WF_engineVars(part = "engines" /\ (Turn \/ Update("CTRL")))
    /\ WF_engineVars(part = "engines" /\ Update("CALIB"))
    /\ WF_simwheelVars(part = "simwheels" /\ W!timer_pwm_duty_cycle)

Spec == Init /\ [][Next]_allVars /\ Fairness

-----------------------------------------------------------------------------
(* What is checked.  Each property is stated, with its reasons, in the     *)
(* module of its part; here are those of the instances, and those that     *)
(* only the running part can keep.                                         *)

\* The type invariants of all parts.
TypeOK == /\ part \in Parts
          /\ UnixTypeOK /\ SensorsTypeOK /\ ServosTypeOK /\ TowerTypeOK
          /\ EncodersTypeOK /\ EnginesTypeOK /\ W!TypeOK

\* drivers/sensors/analog_sensor.c: what is in front is reported in the end.
SightIsReported == part = "sensors" => VerdictSettles

\* arch/unix/hwtimer.c: the simulated wheels follow their commands.
FollowsCommand == part = "simwheels" => W!FollowsCommand

\* core/avoidance.c: the legs lead on, and through no obstacle.
RouteIsFree == A!RouteLeads /\ A!LegIsFree
=============================================================================
