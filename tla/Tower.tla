------------------------------- MODULE Tower -------------------------------
(***************************************************************************)
(* The tower of the geonobot machine: an elevator that goes down for a     *)
(* spot, clamps it and carries it up (machines/geonobot/action.c,          *)
(* monter_tour), run by the event task once a tick.  Each sensor is read   *)
(* when the code reads it (machines/geonobot/sensor.c): the elevator moves *)
(* on, and spots come and go, between two reads of one pass.  The motor is *)
(* commanded in two writes, direction first (hbridge_engine_update): what  *)
(* stops a descent sets the direction of an ascent and then cuts the power,*)
(* and the elevator jolts up if a tick comes in between.                   *)
(*                                                                         *)
(* flag_tower_down stays 0: what would set it is a route that is never     *)
(* driven, so gestion_tour is monter_tour.  The cups are left out.         *)
(***************************************************************************)
EXTENDS Integers

CONSTANT Top         \* the elevator's highest position; 0 is the lowest

ASSUME TopAssumption == Top \in Nat

VARIABLES
    tower_mode,      \* the game has begun: the controller is in INGAME
    spot_get_up, spot_get_down,
    tower_pc,        \* where the pass is
    seen,            \* what the last sensor read said
    tower_pin, tower_duty, \* the motor's direction, high for down, and PWM
    clamp, door,     \* "open", "closed", or "any" until first commanded
    position, spot   \* the elevator, and whether a spot stands under it

code == <<tower_mode, spot_get_up, spot_get_down, tower_pc, seen>>
hbridge == <<tower_pin, tower_duty>>
parts == <<hbridge, clamp, door>>
world == <<position, spot>>
towerVars == <<code, parts, world>>

TowerTypeOK ==
    /\ tower_mode \in {"wait", "INGAME"}
    /\ spot_get_up \in BOOLEAN /\ spot_get_down \in BOOLEAN
    /\ tower_pc \in {"yield", "spot", "up", "open", "down?", "down", "down_duty",
                     "door?", "second", "close", "up?", "rise", "rise_duty",
                     "end"}
    /\ seen \in BOOLEAN
    /\ tower_pin \in {"low", "high"} /\ tower_duty \in {0, 200}
    /\ clamp \in {"any", "open", "closed"} /\ door \in {"any", "closed"}
    /\ position \in 0..Top /\ spot \in BOOLEAN

TowerInit ==
    /\ tower_mode = "wait" /\ tower_pc = "yield" /\ seen = FALSE
    /\ spot_get_up = TRUE /\ spot_get_down = FALSE
    /\ tower_pin = "low" /\ tower_duty = 0 /\ clamp = "any" /\ door = "any"
    /\ position \in 0..Top /\ spot \in BOOLEAN

detect_elevator_up   == position = Top
detect_elevator_down == position = 0

Goto(l) == tower_pc' = l

\* planner_start_game, in another task.
StartGame ==
    /\ tower_mode = "wait" /\ tower_mode' = "INGAME"
    /\ UNCHANGED <<spot_get_up, spot_get_down, tower_pc, seen, parts, world>>

\* task_active_event_loop: a pass per tick once the game has begun.
task_active_event_loop ==
    /\ tower_mode = "INGAME" /\ tower_pc = "yield" /\ Goto("spot")
    /\ UNCHANGED <<tower_mode, spot_get_up, spot_get_down, seen, parts, world>>

-----------------------------------------------------------------------------
(* monter_tour                                                             *)

\* "elevator is up or get down": detect_spot() && detect_elevator_up(), or a
\* descent begun.
detect_spot ==
    /\ tower_pc = "spot"
    /\ Goto(IF spot THEN "up" ELSE IF spot_get_down THEN "open" ELSE "second")
    /\ UNCHANGED <<tower_mode, spot_get_up, spot_get_down, seen, parts, world>>

spot_at_top ==
    /\ tower_pc = "up"
    /\ Goto(IF detect_elevator_up \/ spot_get_down THEN "open" ELSE "second")
    /\ UNCHANGED <<tower_mode, spot_get_up, spot_get_down, seen, parts, world>>

open_pince ==
    /\ tower_pc = "open" /\ Goto("down?")
    /\ clamp' = "open"
    /\ UNCHANGED <<tower_mode, spot_get_up, spot_get_down, seen, hbridge, door, world>>

\* spot_down, and the flags of monter_tour behind it.
spot_down_read ==
    /\ tower_pc = "down?" /\ Goto("down")
    /\ seen' = detect_elevator_down
    /\ UNCHANGED <<tower_mode, spot_get_up, spot_get_down, parts, world>>

\* hbridge_engine_update of HBRIDGE_MOTOR_TOWER, whose polarity is not inverse:
\* the direction, which is that of an ascent for 0 too, ...
tower_direction(pwm) ==
    /\ tower_pin' = IF pwm > 0 THEN "high" ELSE "low"
    /\ UNCHANGED <<tower_mode, spot_get_up, spot_get_down, seen, tower_duty,
                   clamp, door, world>>

\* ... and the PWM.
tower_duty_cycle(pwm) ==
    /\ tower_duty' = IF pwm = 0 THEN 0 ELSE 200
    /\ UNCHANGED <<tower_mode, seen, tower_pin, clamp, door, world>>

spot_down_pwm == IF seen THEN 0 ELSE 200

\* Mutant of spot_down: the ascent asked for before is not called off.
spot_down_KeepUp ==
    \/ /\ tower_pc = "down" /\ Goto("down_duty")
       /\ tower_direction(spot_down_pwm)
    \/ /\ tower_pc = "down_duty" /\ Goto("door?")
       /\ tower_duty_cycle(spot_down_pwm)
       /\ spot_get_down' = TRUE /\ UNCHANGED spot_get_up

spot_down ==
    \/ /\ tower_pc = "down" /\ Goto("down_duty")
       /\ tower_direction(spot_down_pwm)
    \/ /\ tower_pc = "down_duty" /\ Goto("door?")
       /\ tower_duty_cycle(spot_down_pwm)
       /\ spot_get_down' = TRUE /\ spot_get_up' = FALSE

close_door ==
    /\ tower_pc = "door?" /\ Goto("second")
    /\ door' = IF detect_elevator_up THEN "closed" ELSE door
    /\ UNCHANGED <<tower_mode, spot_get_up, spot_get_down, seen, hbridge, clamp, world>>

\* "elevation is down or get up".
second_test ==
    /\ tower_pc = "second"
    /\ Goto(IF detect_elevator_down \/ spot_get_up THEN "close" ELSE "end")
    /\ UNCHANGED <<tower_mode, spot_get_up, spot_get_down, seen, parts, world>>

\* Mutant of close_pince: the clamp's other position is commanded.
close_pince_Opens ==
    /\ tower_pc = "close" /\ Goto("up?")
    /\ clamp' = "open"
    /\ UNCHANGED <<tower_mode, spot_get_up, spot_get_down, seen, hbridge, door, world>>

close_pince ==
    /\ tower_pc = "close" /\ Goto("up?")
    /\ clamp' = "closed"
    /\ UNCHANGED <<tower_mode, spot_get_up, spot_get_down, seen, hbridge, door, world>>

\* spot_up, and the flags behind it.
spot_up_read ==
    /\ tower_pc = "up?" /\ Goto("rise")
    /\ seen' = detect_elevator_up
    /\ UNCHANGED <<tower_mode, spot_get_up, spot_get_down, parts, world>>

spot_up_pwm == IF seen THEN 0 ELSE -200

spot_up ==
    \/ /\ tower_pc = "rise" /\ Goto("rise_duty")
       /\ tower_direction(spot_up_pwm)
    \/ /\ tower_pc = "rise_duty" /\ Goto("end")
       /\ tower_duty_cycle(spot_up_pwm)
       /\ spot_get_up' = TRUE /\ spot_get_down' = FALSE

event_loop_yield ==
    /\ tower_pc = "end" /\ Goto("yield")
    /\ UNCHANGED <<tower_mode, spot_get_up, spot_get_down, seen, parts, world>>

-----------------------------------------------------------------------------
Rises == tower_duty > 0 /\ tower_pin = "low"
Sinks == tower_duty > 0 /\ tower_pin = "high"

Motion ==
    /\ \/ Rises /\ position < Top /\ position' = position + 1
       \/ Sinks /\ position > 0   /\ position' = position - 1
    /\ UNCHANGED <<code, parts, spot>>

Spot == spot' = ~spot /\ UNCHANGED <<code, parts, position>>

Pass ==
    \/ task_active_event_loop \/ detect_spot \/ spot_at_top \/ open_pince
    \/ spot_down_read \/ spot_down \/ close_door \/ second_test
    \/ close_pince \/ spot_up_read \/ spot_up \/ event_loop_yield

TowerNext == StartGame \/ Pass \/ Motion \/ Spot

\* The task gets its ticks; a motor under power moves the elevator.
TowerFairness == WF_towerVars(Pass) /\ WF_towerVars(Motion)

TowerSpec == TowerInit /\ [][TowerNext]_towerVars /\ TowerFairness

-----------------------------------------------------------------------------
\* Between the two writes that stop a descent, where the motor runs up.
Stopping == tower_pc = "down_duty" /\ seen

\* The elevator goes down with the clamp open and rises with the clamp closed
\* on its spot, whenever the sensors change between the reads of a pass, but
\* for the jolt between the two writes that stop a descent.
MovesWithClamp ==
    [][/\ position' > position => clamp = "closed" \/ Stopping
       /\ position' < position => clamp = "open"]_towerVars

\* The stop of a descent jolts the elevator off the bottom again and again.
Jolts == []<><<Stopping /\ position' # position>>_towerVars

\* A descent once begun gets to the bottom and clamps there, unless each of its
\* stops jolts it off again, and what has been clamped gets to the top, whatever
\* becomes of the spot meanwhile.
CarriesUp ==
    /\ \/ spot_get_down /\ clamp = "open" ~> detect_elevator_down /\ clamp = "closed"
       \/ Jolts
    /\ spot_get_up /\ clamp # "open" /\ tower_mode = "INGAME" ~> detect_elevator_up
=============================================================================
