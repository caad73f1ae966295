----------------------------- MODULE SimWheels -----------------------------
(***************************************************************************)
(* A wheel of the simulator (arch/unix): the commands of the engine come   *)
(* back as what the encoder counts, through a filter over the last three   *)
(* values that a write to the duty cycle computes (hwtimer.c,              *)
(* timer_pwm_duty_cycle and timer_get_cnt; gpio.c; qdec.c).                *)
(***************************************************************************)
EXTENDS Integers, Sequences

CONSTANTS Pwms,          \* commands of the engine
          MaxChanges     \* changes of the command

PERIOD == 200
RESOLUTION == 2000       \* WHEELS_ENCODER_RESOLUTION
Centre == (RESOLUTION \div 4) \div 2

VARIABLES
    engine,              \* the wheel looked at
    pwm, changes,        \* the command of its engine
    simu_dir,            \* simu_left_motor_dir or simu_right_motor_dir
    tc,                  \* the encoder's timer
    simu_encoder         \* the last three values, newest last

vars == <<engine, pwm, changes, simu_dir, tc, simu_encoder>>

Buffer == [1..3 -> 0..(Centre + PERIOD)]

TypeOK ==
    /\ engine \in {"left", "right"}
    /\ pwm \in Pwms /\ changes \in 0..MaxChanges
    /\ simu_dir \in BOOLEAN /\ tc \in 0..(Centre + PERIOD)
    /\ simu_encoder \in Buffer

\* qdec_setup recentres the timer, and leaves the buffer, which is what is read.
Init ==
    /\ engine \in {"left", "right"}
    /\ pwm \in Pwms /\ changes = 0
    /\ simu_dir = FALSE /\ tc = Centre
    /\ simu_encoder = <<0, 0, 0>>

\* gpio_set_output, called by hbridge_engine_update: the right engine's
\* direction is inverted.
gpio_set_output == IF engine = "left" THEN pwm > 0 ELSE pwm < 0

pwm_limitation ==
    LET out == IF pwm >= 0 THEN pwm ELSE -pwm
    IN  IF out > PERIOD THEN PERIOD ELSE out

\* What the filter is fed with.
Target(dir) ==
    Centre + IF engine = "left"
             THEN IF dir THEN pwm_limitation ELSE -pwm_limitation
             ELSE IF dir THEN -pwm_limitation ELSE pwm_limitation

\* Mutant of Filter: one more in the divisor than there are values.
Filter_Damped(e, new) == (e[1] + e[2] + e[3] + new) \div 5

\* The sum of the buffer and the new value, over SIMU_ENC_BUFSIZE + 1.
Filter(e, new) == (e[1] + e[2] + e[3] + new) \div 4

\* The buffer moves on by one and its newest value is the filtered one.
timer_pwm_duty_cycle ==
    /\ simu_dir' = gpio_set_output
    /\ tc' = Target(simu_dir')
    /\ simu_encoder' = <<simu_encoder[2], simu_encoder[3],
                         Filter(simu_encoder, tc')>>
    /\ UNCHANGED <<engine, pwm, changes>>

\* The recentring of a reading ends in the timer, which nothing reads.
timer_set_cnt ==
    /\ tc' = Centre
    /\ UNCHANGED <<engine, pwm, changes, simu_dir, simu_encoder>>

NewCommand ==
    /\ changes < MaxChanges /\ changes' = changes + 1
    /\ pwm' \in Pwms
    /\ UNCHANGED <<engine, simu_dir, tc, simu_encoder>>

Next == timer_pwm_duty_cycle \/ timer_set_cnt \/ NewCommand

\* A command is repeated in every turn of the controller.
Fairness == WF_vars(timer_pwm_duty_cycle)

Spec == Init /\ [][Next]_vars /\ Fairness

\* qdec_read.
qdec_read == simu_encoder[3] - Centre

-----------------------------------------------------------------------------
\* A command that stays is followed: in the end every reading is the command,
\* with its sign, less at most the three pulses that the integer division
\* holds back.  These three pulses are also what a wheel at rest reads that
\* was slower before.
Commanded == IF pwm > PERIOD THEN PERIOD ELSE IF pwm < -PERIOD THEN -PERIOD ELSE pwm

FollowsCommand == <>[](qdec_read - Commanded \in -3..0)
=============================================================================
