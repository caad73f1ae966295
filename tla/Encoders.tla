------------------------------ MODULE Encoders ------------------------------
(***************************************************************************)
(* The coding wheels: the quadrature counters (arch/xmega/qdec.c, the QDEC *)
(* mode of hwtimer.c), the controller that reads and recentres them each   *)
(* turn (core/encoder.c, encoder_read) and the calibration menu that sums  *)
(* the readings up (encoder_enter_calibration).                            *)
(*                                                                         *)
(* The hardware counts at any moment, also between the two accesses of a   *)
(* reading; a tick may take the CPU from either task between two accesses  *)
(* to the sums.  The bot is moved MaxMoves times, by one of Moves pulses.  *)
(***************************************************************************)
EXTENDS Integers

CONSTANTS LineCount,   \* line_count: 500 in the machines' tables
          Width,       \* the values of an int16_t: 65536 in the code
          polarity,    \* polarity[w], 1 or -1: left is 0, right is 1
          Moves, MaxMoves

Wheel  == {0, 1}

\* The period register has 16 bits, and a reading is an int16_t.
ASSUME LineCountAssumption == LineCount \in 1..8192
ASSUME WidthAssumption     == Width \in Nat \ {0}
ASSUME PolarityAssumption  == polarity \in [Wheel -> {1, -1}]
ASSUME MovesAssumption     == Moves \subseteq Int /\ MaxMoves \in Nat

PER    == LineCount * 4 - 1
Range  == PER + 1
Centre == LineCount \div 2

\* What an int16_t keeps of a number: the compiler's addition wraps.
int16_t(n) == ((n + Width \div 2) % Width) - Width \div 2
Int16 == -(Width \div 2)..(Width - 1 - Width \div 2)

VARIABLES
    cnt,          \* cnt[w]: the counter's register
    ctrl,         \* where the controller is in encoder_read
    wheel,        \* the wheel it reads, or adds up
    count, speed, \* the counter's value got, and the readings
    load,         \* the sum it has loaded
    display_dbg, sum,
    key,          \* what the menu does: "none", or the statement of 'S'
    travel,       \* travel[w]: pulses since the counter was last recentred
    due,          \* due[w]: pulses the session's sums are to tell of
    total,        \* total[w]: the readings of the session, added up
    raced,        \* a reading and the start of the session overlapped
    moves

hardware    == <<cnt, travel>>
reading     == <<ctrl, wheel, count, speed, load>>
sums        == <<display_dbg, sum, key>>
history     == <<due, total, raced, moves>>
encoderVars == <<hardware, reading, sums, history>>

EncodersTypeOK ==
    /\ cnt \in [Wheel -> 0..PER]
    /\ ctrl \in {"yield", "get", "set", "test", "load", "store"}
    /\ wheel \in Wheel
    /\ count \in 0..PER /\ speed \in [Wheel -> -PER..PER]
    /\ load \in Int16
    /\ display_dbg \in BOOLEAN /\ sum \in [Wheel -> Int16]
    /\ key \in {"none", "left", "right"}
    /\ travel \in [Wheel -> Int] /\ due \in [Wheel -> Int]
    /\ total \in [Wheel -> Int]
    /\ raced \in BOOLEAN /\ moves \in 0..MaxMoves

\* qdec_setup: the counter runs from 0 to PER and starts at its centre.
EncodersInit ==
    /\ cnt = [w \in Wheel |-> Centre] /\ travel = [w \in Wheel |-> 0]
    /\ ctrl = "yield" /\ wheel = 0 /\ count = 0
    /\ speed = [w \in Wheel |-> 0] /\ load = 0
    /\ display_dbg = FALSE /\ sum = [w \in Wheel |-> 0] /\ key = "none"
    /\ due = [w \in Wheel |-> 0] /\ total = due /\ raced = FALSE /\ moves = 0

\* The wheel's travel is told by the counter against its polarity.
Pulses ==
    /\ moves < MaxMoves /\ moves' = moves + 1
    /\ \E w \in Wheel, d \in Moves :
          /\ cnt' = [cnt EXCEPT ![w] = (@ + polarity[w] * d) % Range]
          /\ travel' = [travel EXCEPT ![w] = @ + d]
          /\ due' = [due EXCEPT ![w] = @ + d]
    /\ UNCHANGED <<reading, sums, total, raced>>

decode(w, counter) == polarity[w] * (counter - Centre)

-----------------------------------------------------------------------------
(* encoder_read, in the controller's task                                  *)

encoder_read ==
    /\ ctrl = "yield" /\ ctrl' = "get" /\ wheel' = 0
    /\ raced' = (raced \/ key # "none")
    /\ UNCHANGED <<hardware, count, speed, load, sums, due, total, moves>>

\* qdec_read, with the interrupts masked: timer_get_cnt...
timer_get_cnt ==
    /\ ctrl = "get" /\ ctrl' = "set"
    /\ count' = cnt[wheel]
    /\ UNCHANGED <<hardware, wheel, speed, load, sums, history>>

\* Mutant of timer_set_cnt: the counter is cleared, not recentred.
timer_set_cnt_Zero ==
    /\ ctrl = "set"
    /\ cnt' = [cnt EXCEPT ![wheel] = 0]
    /\ travel' = [travel EXCEPT ![wheel] = 0]
    /\ speed' = [speed EXCEPT ![wheel] = decode(wheel, count)]
    /\ due' = [due EXCEPT ![wheel] = @ - decode(wheel, cnt[wheel]) + speed'[wheel]]
    /\ IF wheel = 0 THEN wheel' = 1 /\ ctrl' = "get"
                    ELSE wheel' = 0 /\ ctrl' = "test"
    /\ UNCHANGED <<count, load, sums, total, raced, moves>>

\* ... and timer_set_cnt: what the wheel moved in between is lost.
timer_set_cnt ==
    /\ ctrl = "set"
    /\ cnt' = [cnt EXCEPT ![wheel] = Centre]
    /\ travel' = [travel EXCEPT ![wheel] = 0]
    /\ speed' = [speed EXCEPT ![wheel] = decode(wheel, count)]
    /\ due' = [due EXCEPT ![wheel] = @ - decode(wheel, cnt[wheel]) + speed'[wheel]]
    /\ IF wheel = 0 THEN wheel' = 1 /\ ctrl' = "get"
                    ELSE wheel' = 0 /\ ctrl' = "test"
    /\ UNCHANGED <<count, load, sums, total, raced, moves>>

if_display_dbg ==
    /\ ctrl = "test"
    /\ ctrl' = IF display_dbg THEN "load" ELSE "yield"
    /\ UNCHANGED <<hardware, wheel, count, speed, load, sums, history>>

\* sum_left_speed += left_speed, then the right one: not atomic.
load_sum ==
    /\ ctrl = "load" /\ ctrl' = "store"
    /\ load' = sum[wheel]
    /\ UNCHANGED <<hardware, wheel, count, speed, sums, history>>

store_sum ==
    /\ ctrl = "store"
    /\ sum' = [sum EXCEPT ![wheel] = int16_t(load + speed[wheel])]
    /\ total' = [total EXCEPT ![wheel] = @ + speed[wheel]]
    /\ IF wheel = 0 THEN wheel' = 1 /\ ctrl' = "load"
                    ELSE wheel' = 0 /\ ctrl' = "yield"
    /\ UNCHANGED <<hardware, count, speed, load, display_dbg, key, due, raced,
                   moves>>

Read == \/ encoder_read \/ timer_get_cnt \/ timer_set_cnt
        \/ if_display_dbg \/ load_sum \/ store_sum

-----------------------------------------------------------------------------
(* encoder_enter_calibration: 'S'                                          *)

\* A session starts or ends.
key_S ==
    /\ key = "none"
    /\ display_dbg' = ~display_dbg
    /\ IF display_dbg'
       THEN /\ key' = "left" /\ raced' = (ctrl # "yield")
            /\ due' = [w \in Wheel |-> travel[w]]
            /\ total' = [w \in Wheel |-> 0]
       ELSE UNCHANGED <<key, raced, due, total>>
    /\ UNCHANGED <<hardware, reading, sum, moves>>

\* Mutant of key_S_left: the sum is kept from the session before.
key_S_left_Kept ==
    /\ key = "left" /\ key' = "right"
    /\ UNCHANGED <<hardware, reading, display_dbg, sum, history>>

\* sum_left_speed = 0, and sum_right_speed = 0.
key_S_left ==
    /\ key = "left" /\ key' = "right"
    /\ sum' = [sum EXCEPT ![0] = 0]
    /\ UNCHANGED <<hardware, reading, display_dbg, history>>

key_S_right ==
    /\ key = "right" /\ key' = "none"
    /\ sum' = [sum EXCEPT ![1] = 0]
    /\ UNCHANGED <<hardware, reading, display_dbg, history>>

Menu == key_S \/ key_S_left \/ key_S_right

EncodersNext == Pulses \/ Read \/ Menu

EncodersSpec == EncodersInit /\ [][EncodersNext]_encoderVars

-----------------------------------------------------------------------------
\* A reading is the wheel's travel since the last one, with its sign, as long
\* as that is less than Centre backward and less than the rest of the range
\* forward (which is which depends on the polarity): what is moved between the
\* two accesses never gets into a reading twice, nor into the wrong one.
Readable(w) == polarity[w] * travel[w] \in -Centre..(PER - Centre)

ReadingIsTravel ==
    [][\A w \in Wheel :
          timer_get_cnt /\ wheel = w /\ Readable(w)
             => decode(w, count') = travel[w]]_encoderVars

\* Between two turns the sums of a session that began between two turns are
\* what an int16_t keeps of totals that tell what the wheels have moved since,
\* but for what is not read yet, modulo the counter's range: a movement too fast
\* costs the totals whole ranges, and one too long costs the sums whole widths.
SumsTellTravel ==
    display_dbg /\ key = "none" /\ ctrl = "yield" /\ ~raced
        => \A w \in Wheel :
              /\ sum[w] = int16_t(total[w])
              /\ (total[w] + decode(w, cnt[w]) - due[w]) % Range = 0
=============================================================================
