------------------------------ MODULE Engines ------------------------------
(***************************************************************************)
(* The engines of the wheels behind the H-bridge                           *)
(* (drivers/actuators/hbridge.c): commands of the controller's turns       *)
(* (core/controller.c, motor_drive) and of the calibration menu            *)
(* (hbridge_enter_calibration), each a write to the direction pin and one  *)
(* to the duty cycle of the PWM.  A tick may take the CPU from either task *)
(* between the two.                                                        *)
(***************************************************************************)
EXTENDS Integers, Sequences

CONSTANTS CalMax,      \* CAL_MAX, and CAL_MIN is -CalMax: 1000 in the code
          Drives       \* commands of a turn that drives, <<distance, angle>>

ASSUME EnginesAssumption == CalMax \in Nat /\ Drives \subseteq Int \X Int

\* The machine's table: the left engine and the right one.
Engine == {"left", "right"}
PERIOD == 200
direction_inverse_polarity(e) == e = "right"

Task == {"CTRL", "CALIB"}

VARIABLES
    mode,              \* controller.mode: "STOP", "IDLE", or "DRIVE" for
                       \* those that drive the wheels
    todo,              \* todo[t]: updates t is to carry out, <<engine, pwm>>
    turned,            \* turned[t]: it has written the direction
    menu,              \* the calibration menu is open
    engine_id, cur,    \* what it works on
    direction, duty,   \* of each engine: the pin's level, the PWM's compare
    alone              \* alone[t]: no other write to the engine since t's

regs == <<direction, duty>>
engineVars == <<mode, todo, turned, menu, engine_id, cur, regs, alone>>

EnginesTypeOK ==
    /\ mode \in {"STOP", "IDLE", "DRIVE"}
    /\ todo \in [Task -> Seq(Engine \X Int)]
    /\ turned \in [Task -> BOOLEAN] /\ alone \in [Task -> BOOLEAN]
    /\ menu \in BOOLEAN
    /\ engine_id \in Engine /\ cur \in -CalMax..CalMax
    /\ direction \in [Engine -> BOOLEAN] /\ duty \in [Engine -> 0..PERIOD]

\* hbridge_setup: the pins are outputs, the PWM runs and nothing is driven.
EnginesInit ==
    /\ mode = "STOP"
    /\ todo = [t \in Task |-> <<>>]
    /\ turned = [t \in Task |-> FALSE] /\ alone = [t \in Task |-> FALSE]
    /\ menu = FALSE /\ engine_id = "left" /\ cur = 0
    /\ direction = [e \in Engine |-> FALSE]
    /\ duty = [e \in Engine |-> 0]

-----------------------------------------------------------------------------
(* hbridge_engine_update                                                   *)

\* Mutant of pwm_limitation: cut to its width before it is compared.
pwm_limitation_CutFirst(value) ==
    LET out == (IF value >= 0 THEN value ELSE -value) % 256
    IN  IF out > PERIOD THEN PERIOD ELSE out

\* The engines' offset is 0.
pwm_limitation(value) ==
    LET out == IF value >= 0 THEN value ELSE -value
    IN  IF out > PERIOD THEN PERIOD ELSE out

gpio_set_output(t) ==
    /\ todo[t] # <<>> /\ ~turned[t]
    /\ LET e   == Head(todo[t])[1]
           pwm == Head(todo[t])[2]
       IN  /\ direction' = [direction EXCEPT ![e] =
                   IF direction_inverse_polarity(e) THEN pwm < 0 ELSE pwm > 0]
           /\ alone' = [u \in Task |->
                  IF u = t THEN TRUE
                  ELSE alone[u] /\ (todo[u] = <<>> \/ Head(todo[u])[1] # e)]
    /\ turned' = [turned EXCEPT ![t] = TRUE]
    /\ UNCHANGED <<mode, todo, menu, engine_id, cur, duty>>

timer_pwm_duty_cycle(t) ==
    /\ turned[t]
    /\ LET e   == Head(todo[t])[1]
           pwm == Head(todo[t])[2]
       IN  /\ duty' = [duty EXCEPT ![e] = pwm_limitation(pwm)]
           /\ alone' = [u \in Task |->
                  IF u = t THEN FALSE
                  ELSE alone[u] /\ (todo[u] = <<>> \/ Head(todo[u])[1] # e)]
    /\ turned' = [turned EXCEPT ![t] = FALSE]
    /\ todo' = [todo EXCEPT ![t] = Tail(@)]
    /\ UNCHANGED <<mode, menu, engine_id, cur, direction>>

Update(t) == gpio_set_output(t) \/ timer_pwm_duty_cycle(t)

-----------------------------------------------------------------------------
(* The controller                                                          *)

motor_drive(distance, angle) ==
    todo' = [todo EXCEPT !["CTRL"] =
                << <<"right", distance + angle>>, <<"left", distance - angle>> >>]

\* Mutant of Turn: STOP leaves the wheels alone, as IDLE does.
Turn_StopIdles ==
    /\ todo["CTRL"] = <<>>
    /\ mode = "DRIVE"
    /\ \E d \in Drives : motor_drive(d[1], d[2])
    /\ UNCHANGED <<mode, turned, menu, engine_id, cur, regs, alone>>

\* A turn of the controller's loop: the switch on the mode, then the drive; in
\* IDLE the wheels keep what they have.
Turn ==
    /\ todo["CTRL"] = <<>>
    /\ \/ mode = "STOP" /\ motor_drive(0, 0)
       \/ mode = "DRIVE" /\ \E d \in Drives : motor_drive(d[1], d[2])
    /\ UNCHANGED <<mode, turned, menu, engine_id, cur, regs, alone>>

\* controller_set_mode, called by the game and by a test that ends.
controller_set_mode ==
    /\ \E m \in {"STOP", "DRIVE"} : mode' = m
    /\ UNCHANGED <<todo, turned, menu, engine_id, cur, regs, alone>>

-----------------------------------------------------------------------------
(* hbridge_enter_calibration                                               *)

\* The engine selected is the one of the last visit, the command is not.
enter ==
    /\ ~menu /\ menu' = TRUE
    /\ cur' = 0 /\ mode' = "IDLE"
    /\ UNCHANGED <<todo, turned, engine_id, regs, alone>>

AtPrompt == menu /\ todo["CALIB"] = <<>>

\* 'n' and 'b', which with two engines are the same.
key_select ==
    /\ AtPrompt
    /\ engine_id' = CHOOSE e \in Engine : e # engine_id
    /\ UNCHANGED <<mode, todo, turned, menu, cur, regs, alone>>

\* Mutant of Added: the command is not kept within its limits.
Added_Unclamped(d) == cur + d

Added(d) == IF cur + d > CalMax THEN CalMax
            ELSE IF cur + d < -CalMax THEN -CalMax ELSE cur + d

\* 'r', '+' and '-'.
key_command ==
    /\ AtPrompt
    /\ cur' \in {0, Added(25), Added(-25)}
    /\ todo' = [todo EXCEPT !["CALIB"] = << <<engine_id, cur'>> >>]
    /\ UNCHANGED <<mode, turned, menu, engine_id, regs, alone>>

key_quit ==
    /\ AtPrompt /\ menu' = FALSE
    /\ UNCHANGED <<mode, todo, turned, engine_id, cur, regs, alone>>

Console == enter \/ key_select \/ key_command \/ key_quit

EnginesNext == Turn \/ controller_set_mode \/ Console \/ \E t \in Task : Update(t)

\* The controller takes its turns, and a task once in an update goes on.
EnginesFairness ==
    /\ WF_engineVars(Turn \/ Update("CTRL"))
    /\ WF_engineVars(Update("CALIB"))

EnginesSpec == EnginesInit /\ [][EnginesNext]_engineVars /\ EnginesFairness

-----------------------------------------------------------------------------
\* What an engine is driven with, forward being positive.
Drive(e) == IF direction[e] # direction_inverse_polarity(e)
            THEN duty[e] ELSE -duty[e]

Limited(pwm) == IF pwm > PERIOD THEN PERIOD
                ELSE IF pwm < -PERIOD THEN -PERIOD ELSE pwm

\* An update in which the other task has not written to the engine leaves it
\* driven by the command, limited to the PWM's period.
DrivenAsCommanded ==
    [][\A t \in Task, e \in Engine :
          timer_pwm_duty_cycle(t) /\ alone[t] /\ Head(todo[t])[1] = e
             => Drive(e)' = Limited(Head(todo[t])[2])]_engineVars

\* Once the controller stays in STOP and no more keys are typed the wheels stop
\* for good, whatever the tasks were in the middle of.
StopStops ==
    <>[](mode = "STOP" /\ ~menu) => <>[](\A e \in Engine : duty[e] = 0)
=============================================================================
