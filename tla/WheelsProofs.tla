---------------------------- MODULE WheelsProofs ----------------------------
(***************************************************************************)
(* Theorems about the wheels' engines and encoders, for every step of the  *)
(* menu, all commands of the controller, every line count of the encoders  *)
(* and however far the wheels turn.                                        *)
(*                                                                         *)
(* An update of an engine is a write to the direction pin and one to the   *)
(* duty cycle: that the second one completes the first, and not another    *)
(* task's, needs that the pin is still what the update has made it.        *)
(*                                                                         *)
(* The encoders' readings add up to the travel plus whole ranges of the    *)
(* counter, what the counters hold counted in: the induction is over the   *)
(* remainders of a division by that range, since neither the total nor the *)
(* travel is bounded.  The sums keep the totals' remainders of another     *)
(* division, by the width of an int16_t.                                   *)
(***************************************************************************)
EXTENDS Engines, Encoders, TLAPS

-----------------------------------------------------------------------------
(* The engines                                                             *)

(* The level of an engine's pin for a command.                             *)
Level(e, pwm) == IF direction_inverse_polarity(e) THEN pwm < 0 ELSE pwm > 0

(* A task that has turned an engine still has to give it its strength.     *)
HalfDone == \A t \in Task : turned[t] => todo[t] # <<>>

(* The pin keeps its level until then, if no other task has written to the *)
(* engine.                                                                 *)
PinKept ==
    \A t \in Task : turned[t] /\ alone[t]
        => direction[Head(todo[t])[1]] = Level(Head(todo[t])[1], Head(todo[t])[2])

EnginesInv == EnginesTypeOK /\ HalfDone /\ PinKept

\* An update to carry out names an engine and a command.
LEMMA HeadOfTodo ==
    ASSUME EnginesTypeOK, NEW t \in Task, todo[t] # <<>>
    PROVE  /\ Head(todo[t]) \in Engine \X Int
           /\ Head(todo[t])[1] \in Engine /\ Head(todo[t])[2] \in Int
           /\ Tail(todo[t]) \in Seq(Engine \X Int)
<1>1. todo[t] \in Seq(Engine \X Int)
  BY DEF EnginesTypeOK
<1>2. Head(todo[t]) \in Engine \X Int /\ Tail(todo[t]) \in Seq(Engine \X Int)
  BY <1>1
<1> QED
  BY <1>2

\* The strength is within the PWM's period, and the command's size if that is.
LEMMA Limitation ==
    ASSUME NEW value \in Int
    PROVE  /\ pwm_limitation(value) \in 0..PERIOD
           /\ value > 0 => pwm_limitation(value) = Limited(value)
           /\ ~(value > 0) => -pwm_limitation(value) = Limited(value)
BY DEF pwm_limitation, Limited, PERIOD

\* A level is a Boolean.
LEMMA LevelIsBoolean ==
    ASSUME NEW e \in Engine, NEW pwm \in Int
    PROVE  Level(e, pwm) \in BOOLEAN
<1>1. (pwm < 0) \in BOOLEAN /\ (pwm > 0) \in BOOLEAN
  OBVIOUS
<1>2. CASE direction_inverse_polarity(e)
  <2>1. Level(e, pwm) = (pwm < 0)
    BY <1>2, Zenon DEF Level
  <2> QED
    BY <1>1, <2>1, Zenon
<1>3. CASE ~direction_inverse_polarity(e)
  <2>1. Level(e, pwm) = (pwm > 0)
    BY <1>3, Zenon DEF Level
  <2> QED
    BY <1>1, <2>1, Zenon
<1> QED
  BY <1>2, <1>3

LEMMA InitEnginesInv == ASSUME EnginesInit PROVE EnginesInv
<1>1. todo \in [Task -> Seq(Engine \X Int)]
  BY DEF EnginesInit
<1>2. turned \in [Task -> BOOLEAN] /\ alone \in [Task -> BOOLEAN]
  BY DEF EnginesInit
<1>3. /\ mode \in {"STOP", "IDLE", "DRIVE"} /\ menu \in BOOLEAN
      /\ engine_id \in Engine /\ direction \in [Engine -> BOOLEAN]
  BY DEF EnginesInit, Engine
<1>4. cur \in -CalMax..CalMax /\ duty \in [Engine -> 0..PERIOD]
  BY EnginesAssumption DEF EnginesInit, EnginesAssumption, PERIOD
<1>5. HalfDone /\ PinKept
  BY DEF EnginesInit, HalfDone, PinKept
<1> QED
  BY <1>1, <1>2, <1>3, <1>4, <1>5 DEF EnginesInv, EnginesTypeOK

\* The first half: the pin.
LEMMA PinKeepsInv ==
    ASSUME EnginesInv, NEW t \in Task, gpio_set_output(t)
    PROVE  EnginesInv'
<1> DEFINE e   == Head(todo[t])[1]
           pwm == Head(todo[t])[2]
<1>1. /\ todo[t] # <<>> /\ ~turned[t]
      /\ direction' = [direction EXCEPT ![e] = Level(e, pwm)]
      /\ alone' = [u \in Task |->
             IF u = t THEN TRUE
             ELSE alone[u] /\ (todo[u] = <<>> \/ Head(todo[u])[1] # e)]
      /\ turned' = [turned EXCEPT ![t] = TRUE]
      /\ UNCHANGED <<mode, todo, menu, engine_id, cur, duty>>
  BY DEF gpio_set_output, Level
<1>2. e \in Engine /\ pwm \in Int
  BY <1>1, HeadOfTodo DEF EnginesInv
<1>3. Level(e, pwm) \in BOOLEAN
  BY <1>2, LevelIsBoolean
<1>4. direction' \in [Engine -> BOOLEAN] /\ direction'[e] = Level(e, pwm)
      /\ \A f \in Engine \ {e} : direction'[f] = direction[f]
  <2> HIDE DEF e, pwm
  <2> QED
    BY <1>1, <1>2, <1>3, Zenon DEF EnginesInv, EnginesTypeOK
<1>5. turned' \in [Task -> BOOLEAN] /\ \A u \in Task \ {t} : turned'[u] = turned[u]
  BY <1>1 DEF EnginesInv, EnginesTypeOK
<1>6. alone' \in [Task -> BOOLEAN]
  <2>1. \A u \in Task : alone[u] \in BOOLEAN
    BY DEF EnginesInv, EnginesTypeOK
  <2> QED
    BY <1>1, <2>1
<1>7. EnginesTypeOK'
  BY <1>1, <1>4, <1>5, <1>6 DEF EnginesInv, EnginesTypeOK
<1>8. HalfDone'
  BY <1>1, <1>5 DEF EnginesInv, HalfDone
<1>9. ASSUME NEW u \in Task, turned'[u], alone'[u]
      PROVE  direction'[Head(todo[u])[1]]
               = Level(Head(todo[u])[1], Head(todo[u])[2])
  <2>1. CASE u = t
    BY <1>4, <2>1
  <2>2. CASE u # t
    <3>1. turned[u] /\ alone[u]
      BY <1>1, <1>5, <1>9, <2>2
    <3>2. todo[u] # <<>> /\ Head(todo[u])[1] # e
      BY <1>1, <1>9, <2>2, <3>1 DEF EnginesInv, HalfDone
    <3>3. direction'[Head(todo[u])[1]] = direction[Head(todo[u])[1]]
      BY <1>4, <3>2, HeadOfTodo DEF EnginesInv
    <3>4. direction[Head(todo[u])[1]]
            = Level(Head(todo[u])[1], Head(todo[u])[2])
      BY <3>1 DEF EnginesInv, PinKept
    <3> QED
      BY <3>3, <3>4
  <2> QED
    BY <2>1, <2>2
<1>10. PinKept'
  BY <1>1, <1>9, Zenon DEF PinKept, Level
<1> QED
  BY <1>7, <1>8, <1>10 DEF EnginesInv

\* The second half: the duty cycle.
LEMMA DutyKeepsInv ==
    ASSUME EnginesInv, NEW t \in Task, timer_pwm_duty_cycle(t)
    PROVE  EnginesInv'
<1> DEFINE e   == Head(todo[t])[1]
           pwm == Head(todo[t])[2]
<1>1. /\ turned[t]
      /\ duty' = [duty EXCEPT ![e] = pwm_limitation(pwm)]
      /\ alone' = [u \in Task |->
             IF u = t THEN FALSE
             ELSE alone[u] /\ (todo[u] = <<>> \/ Head(todo[u])[1] # e)]
      /\ turned' = [turned EXCEPT ![t] = FALSE]
      /\ todo' = [todo EXCEPT ![t] = Tail(@)]
      /\ UNCHANGED <<mode, menu, engine_id, cur, direction>>
  BY DEF timer_pwm_duty_cycle
<1>2. /\ e \in Engine /\ pwm \in Int
      /\ Tail(todo[t]) \in Seq(Engine \X Int)
  BY <1>1, HeadOfTodo DEF EnginesInv, HalfDone
<1>3. pwm_limitation(pwm) \in 0..PERIOD
  BY <1>2, Limitation
<1>4. duty' \in [Engine -> 0..PERIOD]
  <2> HIDE DEF e, pwm
  <2> QED
    BY <1>1, <1>2, <1>3 DEF EnginesInv, EnginesTypeOK
<1>5. /\ turned' \in [Task -> BOOLEAN] /\ ~turned'[t]
      /\ \A u \in Task \ {t} : turned'[u] = turned[u]
  BY <1>1 DEF EnginesInv, EnginesTypeOK
<1>6. alone' \in [Task -> BOOLEAN]
  <2>1. \A u \in Task : alone[u] \in BOOLEAN
    BY DEF EnginesInv, EnginesTypeOK
  <2> QED
    BY <1>1, <2>1
<1>7. /\ todo' \in [Task -> Seq(Engine \X Int)]
      /\ \A u \in Task \ {t} : todo'[u] = todo[u]
  BY <1>1, <1>2 DEF EnginesInv, EnginesTypeOK
<1>8. EnginesTypeOK'
  BY <1>1, <1>4, <1>5, <1>6, <1>7 DEF EnginesInv, EnginesTypeOK
<1>9. HalfDone'
  BY <1>5, <1>7 DEF EnginesInv, HalfDone
<1>10. \A u \in Task : turned'[u] /\ alone'[u]
          => u # t /\ turned[u] /\ alone[u] /\ todo'[u] = todo[u]
  BY <1>1, <1>5, <1>7
<1>11. PinKept'
  BY <1>1, <1>10, Zenon DEF EnginesInv, PinKept, Level
<1> QED
  BY <1>8, <1>9, <1>11 DEF EnginesInv

\* A task that has nothing to carry out is given something, or nothing at all.
LEMMA OthersKeepInv ==
    ASSUME EnginesInv, Turn \/ controller_set_mode \/ Console
    PROVE  EnginesInv'
<1>1. ASSUME NEW t \in Task, todo[t] = <<>>, NEW s \in Seq(Engine \X Int),
             todo' = [todo EXCEPT ![t] = s],
             UNCHANGED <<turned, alone, direction>>
      PROVE  todo' \in [Task -> Seq(Engine \X Int)] /\ HalfDone' /\ PinKept'
  <2>1. /\ todo' \in [Task -> Seq(Engine \X Int)]
        /\ \A u \in Task \ {t} : todo'[u] = todo[u]
    BY <1>1 DEF EnginesInv, EnginesTypeOK
  <2>2. ~turned[t]
    BY <1>1 DEF EnginesInv, HalfDone
  <2>3. HalfDone'
    BY <1>1, <2>1, <2>2 DEF EnginesInv, HalfDone
  <2>4. PinKept'
    BY <1>1, <2>1, <2>2, Zenon DEF EnginesInv, PinKept, Level
  <2> QED
    BY <2>1, <2>3, <2>4
<1>2. CASE Turn
  <2>1. PICK d, a \in Int : todo["CTRL"] = <<>> /\ motor_drive(d, a)
    BY <1>2, EnginesAssumption DEF Turn, EnginesAssumption
  <2> DEFINE s == << <<"right", d + a>>, <<"left", d - a>> >>
  <2>2. s \in Seq(Engine \X Int)
    BY DEF Engine
  <2>3. todo' \in [Task -> Seq(Engine \X Int)] /\ HalfDone' /\ PinKept'
    BY <1>1, <1>2, <2>1, <2>2 DEF Turn, motor_drive, Task, regs
  <2> QED
    BY <1>2, <2>3 DEF Turn, EnginesInv, EnginesTypeOK, regs
<1>3. CASE controller_set_mode \/ enter \/ key_select \/ key_quit
  <2>1. UNCHANGED <<todo, turned, alone, direction, duty>>
    BY <1>3 DEF controller_set_mode, enter, key_select, key_quit, regs
  <2>2. HalfDone' /\ PinKept'
    BY <2>1 DEF EnginesInv, HalfDone, PinKept
  <2>3. (CHOOSE e \in Engine : e # engine_id) \in Engine
    BY DEF Engine
  <2>4. /\ mode' \in {"STOP", "IDLE", "DRIVE"} /\ menu' \in BOOLEAN
        /\ engine_id' \in Engine
    BY <1>3, <2>3
       DEF controller_set_mode, enter, key_select, key_quit, EnginesInv, EnginesTypeOK
  <2>5. cur' \in -CalMax..CalMax
    BY <1>3, EnginesAssumption
       DEF controller_set_mode, enter, key_select, key_quit, EnginesInv,
                EnginesTypeOK, EnginesAssumption
  <2> QED
    BY <2>1, <2>2, <2>4, <2>5 DEF EnginesInv, EnginesTypeOK
<1>4. CASE key_command
  <2>1. cur' \in -CalMax..CalMax
    BY <1>4, EnginesAssumption
       DEF key_command, Added, EnginesInv, EnginesTypeOK, EnginesAssumption
  <2> DEFINE s == << <<engine_id, cur'>> >>
  <2>2. s \in Seq(Engine \X Int)
    BY <2>1 DEF EnginesInv, EnginesTypeOK
  <2>3. todo' \in [Task -> Seq(Engine \X Int)] /\ HalfDone' /\ PinKept'
    BY <1>1, <1>4, <2>2 DEF key_command, AtPrompt, Task, regs
  <2> QED
    BY <1>4, <2>1, <2>3 DEF key_command, EnginesInv, EnginesTypeOK, regs
<1> QED
  BY <1>2, <1>3, <1>4 DEF Console

LEMMA NextKeepsEnginesInv ==
    ASSUME EnginesInv, [EnginesNext]_engineVars
    PROVE  EnginesInv'
<1>1. EnginesInv /\ UNCHANGED engineVars => EnginesInv'
  BY DEF engineVars, regs, EnginesInv, EnginesTypeOK, HalfDone, PinKept
<1> QED
  BY <1>1, PinKeepsInv, DutyKeepsInv, OthersKeepInv DEF EnginesNext, Update

LEMMA EnginesInvariant == EnginesSpec => []EnginesInv
<1>1. EnginesInit => EnginesInv
  BY InitEnginesInv
<1>2. EnginesInv /\ [EnginesNext]_engineVars => EnginesInv'
  BY NextKeepsEnginesInv
<1> QED
  BY <1>1, <1>2, PTL DEF EnginesSpec

-----------------------------------------------------------------------------
\* Type correctness of Engines: the menu's command stays within its limits and
\* the strength within the PWM's period.
THEOREM EnginesTypeCorrect == EnginesSpec => []EnginesTypeOK
<1>1. EnginesInv => EnginesTypeOK
  BY DEF EnginesInv
<1> QED
  BY <1>1, EnginesInvariant, PTL

LEMMA DrivenStep ==
    ASSUME EnginesInv, NEW t \in Task, NEW e \in Engine,
           timer_pwm_duty_cycle(t), alone[t], Head(todo[t])[1] = e
    PROVE  Drive(e)' = Limited(Head(todo[t])[2])
<1> DEFINE pwm == Head(todo[t])[2]
<1>1. turned[t] /\ direction' = direction
      /\ duty' = [duty EXCEPT ![e] = pwm_limitation(pwm)]
  BY DEF timer_pwm_duty_cycle
<1>2. pwm \in Int
  BY <1>1, HeadOfTodo DEF EnginesInv, HalfDone
<1>3. duty'[e] = pwm_limitation(pwm)
  <2> HIDE DEF pwm
  <2> QED
    BY <1>1 DEF EnginesInv, EnginesTypeOK
<1>4. direction[e] = Level(e, pwm)
  BY <1>1 DEF EnginesInv, PinKept
<1> HIDE DEF pwm
<1>5. CASE pwm > 0
  <2>1. direction'[e] # direction_inverse_polarity(e)
    BY <1>1, <1>2, <1>4, <1>5
       DEF Level, Engine, direction_inverse_polarity
  <2> QED
    BY <1>2, <1>3, <1>5, <2>1, Limitation DEF Drive, pwm
<1>6. CASE pwm < 0
  <2>1. ~(direction'[e] # direction_inverse_polarity(e))
    BY <1>1, <1>2, <1>4, <1>6
       DEF Level, Engine, direction_inverse_polarity
  <2> QED
    BY <1>2, <1>3, <1>6, <2>1, Limitation DEF Drive, pwm
<1>7. CASE pwm = 0
  <2>1. duty'[e] = 0 /\ Limited(pwm) = 0
    BY <1>3, <1>7 DEF pwm_limitation, Limited, PERIOD
  <2> QED
    BY <2>1 DEF Drive, pwm
<1> QED
  BY <1>2, <1>5, <1>6, <1>7

\* For every command: an update of hbridge_engine_update in which no other task
\* has written to the engine leaves it driven by its command, with its sign,
\* limited to the PWM's period.
THEOREM UpdatesDrive == EnginesSpec => DrivenAsCommanded
<1>1. EnginesInv =>
        [\A t \in Task, e \in Engine :
            timer_pwm_duty_cycle(t) /\ alone[t] /\ Head(todo[t])[1] = e
               => Drive(e)' = Limited(Head(todo[t])[2])]_engineVars
  BY DrivenStep
<1> QED
  BY <1>1, EnginesInvariant, PTL DEF EnginesSpec, DrivenAsCommanded

-----------------------------------------------------------------------------
(* The encoders                                                            *)

(* A whole number of the counter's ranges.                                 *)
Ranges(a) == a % Range = 0

(* The counter tells the travel since it was recentred, modulo its range.  *)
Counted == \A w \in Wheel : Ranges(decode(w, cnt[w]) - travel[w])

(* A session begins between two turns, or a turn is in the race.           *)
Beginning == key # "none" /\ ~raced =>
    /\ display_dbg /\ ctrl = "yield"
    /\ due = travel /\ total = [w \in Wheel |-> 0]
    /\ key = "right" => sum[0] = 0

(* The readings of this turn that are not in the sums yet.                 *)
Unadded(w) ==
    IF \/ ctrl \in {"get", "set"} /\ w < wheel
       \/ ctrl = "test"
       \/ ctrl \in {"load", "store"} /\ w >= wheel
    THEN speed[w] ELSE 0

(* What the readings of a wheel are to be, in whole ranges: the total, what *)
(* it still gets and what the counter holds make up the travel.            *)
Balance(w) == total[w] + Unadded(w) + decode(w, cnt[w]) - due[w]

(* In a session they do, and the sums follow the totals.                   *)
InSession == display_dbg /\ key = "none" /\ ~raced

Summed   == InSession => \A w \in Wheel : Ranges(Balance(w))
SumsKept == InSession =>
    /\ \A w \in Wheel : sum[w] = int16_t(total[w])
    /\ ctrl = "store" => load = sum[wheel]

EncodersInv == /\ EncodersTypeOK /\ Counted /\ Beginning /\ Summed /\ SumsKept
               /\ ctrl = "test" => wheel = 0

LEMMA RangeFacts ==
  /\ LineCount \in Nat /\ LineCount > 0
  /\ Range \in Nat /\ Range > 0 /\ PER = Range - 1
  /\ Centre \in 0..PER
  /\ \A w \in Wheel : polarity[w] \in {1, -1}
<1>1. LineCount \in 1..8192
  BY LineCountAssumption DEF LineCountAssumption
<1>2. LineCount \in Nat /\ LineCount > 0
  BY <1>1
<1>3. \A n \in Nat : n > 0 => n \div 2 \in 0..(n * 4 - 1)
  OBVIOUS
<1>4. Centre \in 0..PER
  BY <1>2, <1>3 DEF Centre, PER
<1>5. Range \in Nat /\ Range > 0 /\ PER = Range - 1
  BY <1>2 DEF Range, PER
<1>6. \A w \in Wheel : polarity[w] \in {1, -1}
  BY PolarityAssumption DEF PolarityAssumption
<1> QED
  BY <1>2, <1>4, <1>5, <1>6

LEMMA RangesAsProduct ==
  ASSUME NEW a \in Int
  PROVE  Ranges(a) <=> \E k \in Int : a = k * Range
<1>1. Range \in Nat /\ Range > 0
  BY RangeFacts
<1>2. a = (a \div Range) * Range + (a % Range) /\ a \div Range \in Int
  BY <1>1
<1>3. ASSUME NEW k \in Int, a = k * Range PROVE a % Range = 0
  <2>1. a % Range \in 0..(Range - 1)
    BY <1>1
  <2> DEFINE q == a \div Range
  <2>2. (k - q) * Range = a % Range
    BY <1>1, <1>2, <1>3
  <2>3. k - q >= 1 => (k - q) * Range >= Range
    BY <1>1, <1>2
  <2>4. k - q <= -1 => (k - q) * Range <= -Range
    BY <1>1, <1>2
  <2>5. k - q = 0
    BY <1>1, <1>2, <2>1, <2>2, <2>3, <2>4
  <2> QED
    BY <2>2, <2>5, <1>1
<1>4. a % Range = 0 => a = (a \div Range) * Range
  BY <1>1, <1>2
<1> QED
  BY <1>2, <1>3, <1>4 DEF Ranges

\* Whole ranges add up.
LEMMA RangesAdd ==
  ASSUME NEW a \in Int, NEW b \in Int, Ranges(a), Ranges(b)
  PROVE  Ranges(a + b) /\ Ranges(a - b) /\ Ranges(-a)
<1>1. PICK k \in Int : a = k * Range
  BY RangesAsProduct
<1>2. PICK l \in Int : b = l * Range
  BY RangesAsProduct
<1>3. Range \in Int
  BY RangeFacts
<1>4. a + b = (k + l) * Range /\ a - b = (k - l) * Range /\ -a = (-k) * Range
  BY <1>1, <1>2, <1>3
<1>5. k + l \in Int /\ k - l \in Int /\ -k \in Int /\ a + b \in Int /\ a - b \in Int /\ -a \in Int
  OBVIOUS
<1> QED
  BY <1>4, <1>5, RangesAsProduct

\* Wrapping costs whole ranges.
LEMMA Wraps ==
  ASSUME NEW a \in Int
  PROVE  a % Range \in 0..PER /\ Ranges((a % Range) - a)
<1>1. Range \in Nat /\ Range > 0 /\ PER = Range - 1
  BY RangeFacts
<1>2. a = (a \div Range) * Range + (a % Range) /\ a \div Range \in Int /\ a % Range \in 0..(Range - 1)
  BY <1>1
<1>3. (a % Range) - a = (-(a \div Range)) * Range /\ -(a \div Range) \in Int /\ (a % Range) - a \in Int
  BY <1>1, <1>2
<1> QED
  BY <1>1, <1>2, <1>3, RangesAsProduct

LEMMA DecodeFacts ==
  ASSUME NEW w \in Wheel
  PROVE  /\ \A c \in 0..PER : decode(w, c) \in -PER..PER /\ decode(w, c) \in Int
         /\ decode(w, Centre) = 0
         /\ \A c \in 0..PER, d \in Int :
              Ranges(decode(w, (c + polarity[w] * d) % Range) - decode(w, c) - d)
<1>1. polarity[w] \in {1, -1} /\ Centre \in 0..PER /\ PER \in Nat
  BY RangeFacts
<1>2. \A c \in 0..PER : decode(w, c) \in -PER..PER /\ decode(w, c) \in Int
  BY <1>1 DEF decode
<1>3. decode(w, Centre) = 0
  BY <1>1 DEF decode
<1>4. ASSUME NEW c \in 0..PER, NEW d \in Int
      PROVE  Ranges(decode(w, (c + polarity[w] * d) % Range) - decode(w, c) - d)
  <2> DEFINE a == c + polarity[w] * d
             r == a % Range
  <2>1. a \in Int /\ c \in Int
    BY <1>1
  <2>2. r \in 0..PER /\ Ranges(r - a)
    BY <2>1, Wraps
  <2>3. r - a \in Int
    BY <1>1, <2>1, <2>2
  <2>4. Ranges(-(r - a)) /\ Ranges(r - a)
    BY <2>2, <2>3, RangesAdd
  <2>5. decode(w, r) - decode(w, c) - d \in {r - a, -(r - a)}
    <3> HIDE DEF r
    <3>1. CASE polarity[w] = 1
      BY <1>1, <2>1, <2>2, <3>1 DEF decode
    <3>2. CASE polarity[w] = -1
      BY <1>1, <2>1, <2>2, <3>2 DEF decode
    <3> QED
      BY <1>1, <3>1, <3>2
  <2> QED
    BY <2>4, <2>5
<1> QED
  BY <1>2, <1>3, <1>4

\* Two values of a counter a whole number of ranges apart are one.
LEMMA OneInRange ==
  ASSUME NEW a \in Int, a \in -PER..PER, Ranges(a)
  PROVE  a = 0
<1>1. Range \in Nat /\ Range > 0 /\ PER = Range - 1
  BY RangeFacts
<1>2. PICK k \in Int : a = k * Range
  BY RangesAsProduct
<1>3. (k >= 1 => k * Range >= Range) /\ (k <= -1 => k * Range <= -Range)
  BY <1>1
<1> QED
  BY <1>1, <1>2, <1>3

\* Whole widths do not change a remainder.
LEMMA WidthsVanish ==
  ASSUME NEW k \in Int, NEW b \in Int
  PROVE  (k * Width + b) % Width = b % Width
<1>1. Width \in Nat /\ Width > 0
  BY WidthAssumption DEF WidthAssumption
<1> DEFINE c == k * Width + b
           q == c \div Width
           p == b \div Width
<1>2. c \in Int /\ q \in Int /\ p \in Int
  BY <1>1
<1>3. /\ c = q * Width + (c % Width) /\ c % Width \in 0..(Width - 1)
      /\ b = p * Width + (b % Width) /\ b % Width \in 0..(Width - 1)
  BY <1>1, <1>2
<1> DEFINE m == q - k - p
<1>4. m \in Int /\ m * Width = (b % Width) - (c % Width)
  BY <1>1, <1>2, <1>3
<1>5. m * Width < Width /\ m * Width > -Width
  BY <1>1, <1>3, <1>4
<1>6. (m >= 1 => m * Width >= Width) /\ (m <= -1 => m * Width <= -Width)
  BY <1>1, <1>4
<1>7. m = 0
  BY <1>1, <1>4, <1>5, <1>6
<1> QED
  BY <1>1, <1>3, <1>4, <1>7

\* An int16_t keeps a number of its own, and adds up as numbers do.
LEMMA Int16Facts ==
  /\ 0 \in Int16 /\ int16_t(0) = 0
  /\ \A n \in Int : int16_t(n) \in Int16 /\ int16_t(n) \in Int
  /\ \A n, d \in Int : int16_t(int16_t(n) + d) = int16_t(n + d)
<1> DEFINE h == Width \div 2
<1>1. Width \in Nat /\ Width > 0 /\ h \in Nat /\ h < Width
  <2>1. Width \in Nat /\ Width > 0
    BY WidthAssumption DEF WidthAssumption
  <2>2. \A n \in Nat : n > 0 => n \div 2 \in Nat /\ n \div 2 < n
    OBVIOUS
  <2> QED
    BY <2>1, <2>2
<1>2. \A n : int16_t(n) = ((n + h) % Width) - h
  BY DEF int16_t
<1>3. Int16 = -h..(Width - 1 - h)
  BY DEF Int16
<1> HIDE DEF h
<1>4. ASSUME NEW n \in Int PROVE int16_t(n) \in Int16 /\ int16_t(n) \in Int
  <2>1. (n + h) % Width \in 0..(Width - 1)
    BY <1>1
  <2> QED
    BY <1>1, <1>2, <1>3, <2>1
<1>5. 0 \in Int16 /\ int16_t(0) = 0
  <2>1. h % Width = h
    BY <1>1
  <2> QED
    BY <1>1, <1>2, <1>3, <2>1
<1>6. ASSUME NEW n \in Int, NEW d \in Int
      PROVE  int16_t(int16_t(n) + d) = int16_t(n + d)
  <2> DEFINE a == n + h
             q == a \div Width
             r == a % Width
  <2>1. a \in Int /\ q \in Int /\ r \in Int /\ a = q * Width + r
    BY <1>1
  <2>2. int16_t(n) + d + h = r + d
    <3>1. int16_t(n) = r - h
      BY <1>2
    <3> HIDE DEF a, q, r
    <3> QED
      BY <1>1, <2>1, <3>1
  <2>3. n + d + h = q * Width + (r + d)
    BY <1>1, <2>1
  <2> HIDE DEF a, q, r
  <2>4. (q * Width + (r + d)) % Width = (r + d) % Width
    <3>1. r + d \in Int
      BY <2>1
    <3> QED
      BY <2>1, <3>1, WidthsVanish
  <2> QED
    BY <1>2, <2>2, <2>3, <2>4
<1> QED
  BY <1>4, <1>5, <1>6

LEMMA InitEncodersInv == EncodersInit => EncodersInv
<1> SUFFICES ASSUME EncodersInit PROVE EncodersInv
  OBVIOUS
<1>1. EncodersTypeOK
  <2>1. /\ PER \in Nat /\ Centre \in 0..PER /\ 0 \in 0..PER /\ 0 \in -PER..PER
        /\ 0 \in 0..MaxMoves /\ 0 \in Wheel /\ 0 \in Int16
    BY RangeFacts, MovesAssumption, Int16Facts DEF MovesAssumption, Wheel
  <2>2. cnt \in [Wheel -> 0..PER] /\ speed \in [Wheel -> -PER..PER]
    BY <2>1 DEF EncodersInit
  <2>3. /\ travel \in [Wheel -> Int] /\ due \in [Wheel -> Int]
        /\ total \in [Wheel -> Int] /\ sum \in [Wheel -> Int16]
    BY <2>1 DEF EncodersInit
  <2> QED
    BY <2>1, <2>2, <2>3 DEF EncodersInit, EncodersTypeOK
<1>2. Counted
  <2>1. Ranges(0)
    BY RangesAsProduct, RangeFacts
  <2>2. \A w \in Wheel : cnt[w] = Centre /\ travel[w] = 0 /\ decode(w, Centre) = 0
    BY DecodeFacts DEF EncodersInit
  <2> QED
    BY <2>1, <2>2 DEF Counted
<1> QED
  BY <1>1, <1>2 DEF EncodersInit, EncodersInv, Beginning, Summed, SumsKept, InSession

LEMMA NextEncodersTypeOK ==
  ASSUME EncodersTypeOK, [EncodersNext]_encoderVars
  PROVE  EncodersTypeOK'
<1> USE DEF hardware, reading, sums, history
<1>0. /\ PER \in Nat /\ Centre \in 0..PER
      /\ \A w \in Wheel, c \in 0..PER : decode(w, c) \in -PER..PER /\ decode(w, c) \in Int
  BY RangeFacts, DecodeFacts
<1>1. CASE Pulses
  <2>1. PICK w \in Wheel, d \in Moves :
          /\ cnt' = [cnt EXCEPT ![w] = (@ + polarity[w] * d) % Range]
          /\ travel' = [travel EXCEPT ![w] = @ + d]
          /\ due' = [due EXCEPT ![w] = @ + d]
    BY <1>1 DEF Pulses
  <2>2. d \in Int /\ polarity[w] \in Int /\ cnt[w] \in Int
    BY <1>0, MovesAssumption, RangeFacts DEF MovesAssumption, EncodersTypeOK
  <2>3. (cnt[w] + polarity[w] * d) % Range \in 0..PER
    BY <2>2, Wraps
  <2>4. cnt' \in [Wheel -> 0..PER] /\ travel' \in [Wheel -> Int] /\ due' \in [Wheel -> Int]
    BY <2>1, <2>2, <2>3 DEF EncodersTypeOK
  <2>5. moves' \in 0..MaxMoves
    BY <1>1, MovesAssumption DEF Pulses, MovesAssumption, EncodersTypeOK
  <2> QED
    BY <1>1, <2>4, <2>5 DEF Pulses, EncodersTypeOK
<1>2. CASE Read
  <2>1. CASE encoder_read \/ timer_get_cnt \/ if_display_dbg \/ load_sum
    BY <1>0, <2>1 DEF encoder_read, timer_get_cnt, if_display_dbg, load_sum,
                      EncodersTypeOK, Wheel
  <2>2. CASE timer_set_cnt
    <3>1. decode(wheel, count) \in -PER..PER /\ decode(wheel, cnt[wheel]) \in Int
      BY <1>0 DEF EncodersTypeOK
    <3>2. speed' \in [Wheel -> -PER..PER]
      BY <2>2, <3>1 DEF timer_set_cnt, EncodersTypeOK
    <3>3. due' \in [Wheel -> Int]
      <4>1. due[wheel] - decode(wheel, cnt[wheel]) + speed'[wheel] \in Int
        BY <1>0, <3>1, <3>2 DEF EncodersTypeOK
      <4> QED
        BY <2>2, <4>1 DEF timer_set_cnt, EncodersTypeOK
    <3>4. cnt' \in [Wheel -> 0..PER] /\ travel' \in [Wheel -> Int]
      BY <1>0, <2>2 DEF timer_set_cnt, EncodersTypeOK
    <3>5. wheel' \in Wheel /\ ctrl' \in {"get", "test"}
      BY <2>2 DEF timer_set_cnt, Wheel
    <3> QED
      BY <2>2, <3>2, <3>3, <3>4, <3>5 DEF timer_set_cnt, EncodersTypeOK
  <2>3. CASE store_sum
    <3>0. load \in Int /\ speed[wheel] \in Int /\ total[wheel] \in Int
      BY <1>0, WidthAssumption DEF EncodersTypeOK, Int16, WidthAssumption
    <3>1. /\ load + speed[wheel] \in Int
          /\ total[wheel] + speed[wheel] \in Int
      BY <3>0
    <3>4. int16_t(load + speed[wheel]) \in Int16
      BY <3>1, Int16Facts
    <3>3. sum' \in [Wheel -> Int16] /\ total' \in [Wheel -> Int]
      BY <2>3, <3>1, <3>4 DEF store_sum, EncodersTypeOK
    <3>2. wheel' \in Wheel /\ ctrl' \in {"load", "yield"}
      BY <2>3 DEF store_sum, Wheel
    <3> QED
      BY <2>3, <3>2, <3>3 DEF store_sum, EncodersTypeOK
  <2> QED
    BY <1>2, <2>1, <2>2, <2>3 DEF Read
<1>3. CASE Menu
  <2>1. CASE key_S
    <3>1. display_dbg' \in BOOLEAN /\ raced' \in BOOLEAN
      BY <2>1, Zenon DEF key_S, EncodersTypeOK
    <3>2. /\ key' \in {"none", "left"} /\ due' \in [Wheel -> Int]
          /\ total' \in [Wheel -> Int]
      BY <2>1 DEF key_S, EncodersTypeOK
    <3> QED
      BY <2>1, <3>1, <3>2 DEF key_S, EncodersTypeOK
  <2>2. CASE key_S_left \/ key_S_right
    BY <2>2, Int16Facts DEF key_S_left, key_S_right, EncodersTypeOK
  <2> QED
    BY <1>3, <2>1, <2>2 DEF Menu
<1>4. CASE UNCHANGED encoderVars
  BY <1>4 DEF encoderVars, EncodersTypeOK
<1> QED
  BY <1>1, <1>2, <1>3, <1>4 DEF EncodersNext

LEMMA PulseFacts ==
  ASSUME EncodersTypeOK, Pulses
  PROVE  /\ \A w \in Wheel : \E d \in Int :
              /\ travel'[w] = travel[w] + d /\ due'[w] = due[w] + d
              /\ decode(w, cnt'[w]) \in Int
              /\ Ranges(decode(w, cnt'[w]) - decode(w, cnt[w]) - d)
         /\ due = travel => due' = travel'
         /\ UNCHANGED <<reading, sums, total, raced>>
<1>1. PICK v \in Wheel, d \in Moves :
        /\ cnt' = [cnt EXCEPT ![v] = (@ + polarity[v] * d) % Range]
        /\ travel' = [travel EXCEPT ![v] = @ + d]
        /\ due' = [due EXCEPT ![v] = @ + d]
  BY DEF Pulses
<1>2. d \in Int
  BY MovesAssumption DEF MovesAssumption
<1>3. ASSUME NEW w \in Wheel
      PROVE  \E e \in Int :
                /\ travel'[w] = travel[w] + e /\ due'[w] = due[w] + e
                /\ decode(w, cnt'[w]) \in Int
                /\ Ranges(decode(w, cnt'[w]) - decode(w, cnt[w]) - e)
  <2>1. cnt[w] \in 0..PER /\ travel[w] \in Int /\ due[w] \in Int
    BY DEF EncodersTypeOK
  <2>2. CASE w = v
    <3>1. /\ cnt'[w] = (cnt[w] + polarity[w] * d) % Range
          /\ travel'[w] = travel[w] + d /\ due'[w] = due[w] + d
      BY <1>1, <2>2 DEF EncodersTypeOK
    <3>2. polarity[w] \in Int /\ cnt[w] \in Int
      BY <2>1, RangeFacts
    <3>3. cnt[w] + polarity[w] * d \in Int
      BY <1>2, <3>2
    <3>4. cnt'[w] \in 0..PER
      BY <3>1, <3>3, Wraps
    <3>5. decode(w, cnt'[w]) \in Int
      BY <3>4, DecodeFacts
    <3>6. Ranges(decode(w, cnt'[w]) - decode(w, cnt[w]) - d)
      BY <1>2, <2>1, <3>1, DecodeFacts
    <3> QED
      BY <1>2, <3>1, <3>5, <3>6
  <2>3. CASE w # v
    <3>1. cnt'[w] = cnt[w] /\ travel'[w] = travel[w] + 0 /\ due'[w] = due[w] + 0
      BY <1>1, <2>1, <2>3 DEF EncodersTypeOK
    <3>2. decode(w, cnt[w]) \in Int
      BY <2>1, DecodeFacts
    <3>3. Ranges(0) /\ decode(w, cnt[w]) - decode(w, cnt[w]) - 0 = 0
      BY <3>2, RangesAsProduct, RangeFacts
    <3> QED
      BY <3>1, <3>2, <3>3
  <2> QED
    BY <2>2, <2>3
<1>4. due = travel => due' = travel'
  BY <1>1
<1>5. UNCHANGED <<reading, sums, total, raced>>
  BY DEF Pulses
<1> QED
  BY <1>3, <1>4, <1>5

LEMMA NextCounted ==
  ASSUME EncodersTypeOK, Counted, [EncodersNext]_encoderVars
  PROVE  Counted'
<1>1. CASE Pulses
  <2> SUFFICES ASSUME NEW w \in Wheel
               PROVE  Ranges(decode(w, cnt'[w]) - travel'[w])
    BY DEF Counted, Ranges, Range, decode, PER
  <2>1. PICK d \in Int :
          /\ travel'[w] = travel[w] + d
          /\ decode(w, cnt'[w]) \in Int
          /\ Ranges(decode(w, cnt'[w]) - decode(w, cnt[w]) - d)
    BY <1>1, PulseFacts
  <2>2. decode(w, cnt[w]) \in Int /\ travel[w] \in Int
    BY DecodeFacts DEF EncodersTypeOK
  <2>3. Ranges(decode(w, cnt[w]) - travel[w])
    BY DEF Counted
  <2> DEFINE a == decode(w, cnt'[w]) - decode(w, cnt[w]) - d
             b == decode(w, cnt[w]) - travel[w]
  <2>4. a \in Int /\ b \in Int /\ Ranges(a) /\ Ranges(b)
    BY <2>1, <2>2, <2>3
  <2>5. Ranges(a + b)
    BY <2>4, RangesAdd
  <2>6. a + b = decode(w, cnt'[w]) - travel'[w]
    BY <2>1, <2>2
  <2> QED
    BY <2>5, <2>6
<1>2. CASE timer_set_cnt
  <2> SUFFICES ASSUME NEW w \in Wheel
               PROVE  Ranges(decode(w, cnt'[w]) - travel'[w])
    BY DEF Counted, Ranges, Range, decode, PER
  <2>1. CASE w = wheel
    <3>1. cnt'[w] = Centre /\ travel'[w] = 0
      BY <1>2, <2>1 DEF timer_set_cnt, EncodersTypeOK
    <3>2. Ranges(0)
      BY RangesAsProduct, RangeFacts
    <3> QED
      BY <3>1, <3>2, DecodeFacts
  <2>2. CASE w # wheel
    BY <1>2, <2>2 DEF timer_set_cnt, EncodersTypeOK, Counted
  <2> QED
    BY <2>1, <2>2
<1>3. CASE UNCHANGED hardware
  BY <1>3 DEF hardware, Counted
<1> QED
  BY <1>1, <1>2, <1>3
     DEF EncodersNext, Read, encoder_read, timer_get_cnt, if_display_dbg, load_sum,
         store_sum, Menu, key_S, key_S_left, key_S_right, encoderVars

LEMMA NextBeginning ==
  ASSUME EncodersTypeOK, Beginning, [EncodersNext]_encoderVars
  PROVE  Beginning'
<1> USE DEF hardware, reading, sums, history
<1>1. CASE Pulses
  BY <1>1, PulseFacts DEF Beginning
<1>2. CASE Read
  BY <1>2 DEF Read, encoder_read, timer_get_cnt, timer_set_cnt, if_display_dbg,
              load_sum, store_sum, Beginning
<1>3. CASE key_S
  <2>1. [w \in Wheel |-> travel[w]] = travel
    BY DEF EncodersTypeOK
  <2> QED
    BY <1>3, <2>1 DEF key_S, Beginning
<1>4. CASE key_S_left
  <2>1. sum'[0] = 0
    BY <1>4 DEF key_S_left, EncodersTypeOK, Wheel
  <2> QED
    BY <1>4, <2>1 DEF key_S_left, Beginning
<1>5. CASE key_S_right
  BY <1>5 DEF key_S_right, Beginning
<1>6. CASE UNCHANGED encoderVars
  BY <1>6 DEF encoderVars, Beginning
<1> QED
  BY <1>1, <1>2, <1>3, <1>4, <1>5, <1>6 DEF EncodersNext, Menu

\* Steps of the controller that move a reading on: the balance of every wheel
\* stays the same.
LEMMA ReadKeepsBalance ==
  ASSUME EncodersTypeOK, Read, display_dbg,
         ctrl = "test" => wheel = 0, NEW w \in Wheel
  PROVE  Balance(w)' = Balance(w)
<1> USE DEF hardware, reading, sums, history
<1>0. /\ wheel \in {0, 1} /\ w \in {0, 1}
      /\ total[w] \in Int /\ due[w] \in Int /\ speed[w] \in Int
      /\ decode(w, cnt[w]) \in Int
  <2>1. speed[w] \in -PER..PER /\ PER \in Nat /\ cnt[w] \in 0..PER
    BY RangeFacts DEF EncodersTypeOK
  <2>2. decode(w, cnt[w]) \in Int
    BY <2>1, DecodeFacts
  <2> QED
    BY <2>1, <2>2 DEF EncodersTypeOK, Wheel
<1>1. CASE encoder_read \/ timer_get_cnt \/ if_display_dbg \/ load_sum
  <2>1. UNCHANGED <<cnt, total, due, speed>>
    BY <1>1 DEF encoder_read, timer_get_cnt, if_display_dbg, load_sum
  <2>2. Unadded(w)' = Unadded(w)
    <3>1. CASE encoder_read
      BY <1>0, <2>1, <3>1 DEF encoder_read, Unadded
    <3>2. CASE timer_get_cnt \/ load_sum
      BY <1>0, <2>1, <3>2 DEF timer_get_cnt, load_sum, Unadded
    <3>3. CASE if_display_dbg
      <4>1. ctrl = "test" /\ ctrl' = "load" /\ wheel = 0 /\ wheel' = 0
        BY <3>3, Zenon DEF if_display_dbg
      <4> QED
        BY <1>0, <2>1, <4>1 DEF Unadded
    <3> QED
      BY <1>1, <3>1, <3>2, <3>3
  <2> QED
    BY <2>1, <2>2 DEF Balance
<1>2. CASE timer_set_cnt
  <2>0. UNCHANGED total
    BY <1>2 DEF timer_set_cnt
  <2>1. CASE w = wheel
    <3>1. /\ cnt'[w] = Centre /\ speed'[w] = decode(w, count)
          /\ due'[w] = due[w] - decode(w, cnt[w]) + speed'[w]
          /\ decode(w, count) \in Int
      BY <1>2, <2>1, DecodeFacts DEF timer_set_cnt, EncodersTypeOK
    <3>2. Unadded(w) = 0 /\ Unadded(w)' = speed'[w]
      BY <1>0, <1>2, <2>1 DEF timer_set_cnt, Unadded
    <3>3. decode(w, cnt'[w]) = 0
      BY <3>1, DecodeFacts
    <3>4. Balance(w)' = total[w] + speed'[w] + 0 - due'[w]
      BY <2>0, <3>2, <3>3 DEF Balance
    <3> QED
      BY <1>0, <3>1, <3>2, <3>4 DEF Balance
  <2>2. CASE w # wheel
    <3>1. cnt'[w] = cnt[w] /\ speed'[w] = speed[w] /\ due'[w] = due[w]
      BY <1>2, <2>2 DEF timer_set_cnt, EncodersTypeOK
    <3>2. Unadded(w)' = Unadded(w)
      BY <1>0, <1>2, <2>2, <3>1 DEF timer_set_cnt, Unadded
    <3> QED
      BY <2>0, <3>1, <3>2 DEF Balance
  <2> QED
    BY <2>1, <2>2
<1>3. CASE store_sum
  <2>0. UNCHANGED <<cnt, due, speed>>
    BY <1>3 DEF store_sum
  <2>1. CASE w = wheel
    <3>1. total'[w] = total[w] + speed[w]
      BY <1>3, <2>1 DEF store_sum, EncodersTypeOK
    <3>2. Unadded(w) = speed[w] /\ Unadded(w)' = 0
      BY <1>0, <1>3, <2>1 DEF store_sum, Unadded
    <3> QED
      BY <1>0, <2>0, <3>1, <3>2 DEF Balance
  <2>2. CASE w # wheel
    <3>1. total'[w] = total[w]
      BY <1>3, <2>2 DEF store_sum, EncodersTypeOK
    <3>2. Unadded(w)' = Unadded(w)
      BY <1>0, <1>3, <2>0, <2>2 DEF store_sum, Unadded
    <3> QED
      BY <2>0, <3>1, <3>2 DEF Balance
  <2> QED
    BY <2>1, <2>2
<1> QED
  BY <1>1, <1>2, <1>3 DEF Read

\* A turn neither begins nor ends a session.
LEMMA ReadKeepsSession ==
  ASSUME Read, display_dbg', key' = "none", ~raced'
  PROVE  display_dbg /\ key = "none" /\ ~raced
<1>1. CASE encoder_read
  BY <1>1, Zenon DEF encoder_read, sums
<1>2. CASE timer_get_cnt \/ timer_set_cnt \/ if_display_dbg \/ load_sum
              \/ store_sum
  <2>1. UNCHANGED <<display_dbg, key, raced>>
    BY <1>2 DEF timer_get_cnt, timer_set_cnt, if_display_dbg, load_sum,
                store_sum, sums, history
  <2> QED
    BY <2>1
<1> QED
  BY <1>1, <1>2 DEF Read

LEMMA NextSummed ==
  ASSUME EncodersInv, [EncodersNext]_encoderVars
  PROVE  Summed'
<1> USE DEF hardware, reading, sums, history
<1>0. SUFFICES ASSUME display_dbg', key' = "none", ~raced'
               PROVE  \A w \in Wheel : Ranges(Balance(w)')
  BY DEF Summed, InSession, Balance, Ranges, Range, PER
<1>1. CASE Pulses
  <2>1. UNCHANGED <<reading, sums, total, raced>>
    BY <1>1, PulseFacts DEF EncodersInv
  <2>2. \A w \in Wheel : Ranges(Balance(w))
    BY <1>0, <2>1 DEF EncodersInv, Summed, InSession, Balance
  <2> SUFFICES ASSUME NEW w \in Wheel PROVE Ranges(Balance(w)')
    OBVIOUS
  <2>3. PICK d \in Int :
          /\ due'[w] = due[w] + d
          /\ decode(w, cnt'[w]) \in Int
          /\ Ranges(decode(w, cnt'[w]) - decode(w, cnt[w]) - d)
    BY <1>1, PulseFacts DEF EncodersInv
  <2>4. /\ total[w] \in Int /\ due[w] \in Int /\ decode(w, cnt[w]) \in Int
        /\ Unadded(w) \in Int /\ Unadded(w)' = Unadded(w)
    <3>1. speed[w] \in -PER..PER /\ PER \in Nat /\ cnt[w] \in 0..PER
      BY RangeFacts DEF EncodersInv, EncodersTypeOK
    <3>2. decode(w, cnt[w]) \in Int
      BY <3>1, DecodeFacts
    <3> QED
      BY <2>1, <3>1, <3>2 DEF EncodersInv, EncodersTypeOK, Unadded
  <2> DEFINE a == Balance(w)
             b == decode(w, cnt'[w]) - decode(w, cnt[w]) - d
  <2>5. a \in Int /\ b \in Int
    BY <2>3, <2>4 DEF Balance
  <2>6. Ranges(a + b)
    BY <2>2, <2>3, <2>5, RangesAdd
  <2>7. Balance(w)' = a + b
    BY <2>1, <2>3, <2>4 DEF Balance
  <2> QED
    BY <2>6, <2>7
<1>2. CASE Read
  <2>1. display_dbg /\ key = "none" /\ ~raced
    BY <1>0, <1>2, ReadKeepsSession
  <2>2. \A w \in Wheel : Ranges(Balance(w))
    BY <2>1 DEF EncodersInv, Summed, InSession, Balance
  <2>3. \A w \in Wheel : Balance(w)' = Balance(w)
    BY <1>2, <2>1, <2>2, ReadKeepsBalance DEF EncodersInv
  <2> QED
    BY <2>2, <2>3
<1>3. CASE key_S \/ key_S_left
  BY <1>0, <1>3, Zenon DEF key_S, key_S_left
<1>4. CASE key_S_right
  <2>1. key = "right" /\ ~raced /\ UNCHANGED <<hardware, reading, display_dbg, history>>
    BY <1>0, <1>4 DEF key_S_right
  <2>2. ctrl = "yield" /\ due = travel /\ total = [w \in Wheel |-> 0]
    BY <2>1 DEF EncodersInv, Beginning
  <2> SUFFICES ASSUME NEW w \in Wheel PROVE Ranges(Balance(w)')
    OBVIOUS
  <2>3. total'[w] = 0 /\ Unadded(w)' = 0
    BY <2>1, <2>2 DEF Unadded
  <2>4. decode(w, cnt[w]) \in Int /\ travel[w] \in Int
    BY DecodeFacts DEF EncodersInv, EncodersTypeOK
  <2>5. Balance(w)' = decode(w, cnt[w]) - travel[w]
    BY <2>1, <2>2, <2>3, <2>4 DEF Balance
  <2> QED
    BY <2>5 DEF EncodersInv, Counted
<1>5. CASE UNCHANGED encoderVars
  <2>1. UNCHANGED <<hardware, reading, sums, history>>
    BY <1>5 DEF encoderVars
  <2>2. \A w \in Wheel : Ranges(Balance(w))
    BY <1>0, <2>1 DEF EncodersInv, Summed, InSession, Balance
  <2>3. \A w \in Wheel : Balance(w)' = Balance(w)
    BY <2>1 DEF Balance, Unadded
  <2> QED
    BY <2>2, <2>3
<1> QED
  BY <1>1, <1>2, <1>3, <1>4, <1>5 DEF EncodersNext, Menu

\* The sums wrap as the totals grow, and what a wrapped sum and a reading add up
\* to is what an int16_t keeps of the total and the reading.
LEMMA NextKept ==
  ASSUME EncodersInv, [EncodersNext]_encoderVars
  PROVE  SumsKept'
<1> USE DEF hardware, reading, sums, history
<1>0. SUFFICES ASSUME display_dbg', key' = "none", ~raced'
               PROVE  /\ \A w \in Wheel : sum'[w] = int16_t(total'[w])
                      /\ ctrl' = "store" => load' = sum'[wheel']
  BY DEF SumsKept, InSession, int16_t
<1>1. CASE Pulses \/ UNCHANGED encoderVars
  <2>1. UNCHANGED <<reading, sums, total, raced>>
    BY <1>1, PulseFacts DEF EncodersInv, encoderVars
  <2> QED
    BY <1>0, <2>1 DEF EncodersInv, SumsKept, InSession
<1>2. CASE Read
  <2>1. display_dbg /\ key = "none" /\ ~raced
    BY <1>0, <1>2, ReadKeepsSession
  <2>2. /\ \A w \in Wheel : sum[w] = int16_t(total[w])
        /\ ctrl = "store" => load = sum[wheel]
    BY <2>1 DEF EncodersInv, SumsKept, InSession
  <2>3. CASE store_sum
    <3>1. /\ wheel \in Wheel /\ total[wheel] \in Int /\ speed[wheel] \in Int
          /\ load = int16_t(total[wheel]) /\ ctrl' # "store"
      <4>1. PER \in Nat /\ speed[wheel] \in -PER..PER
        BY RangeFacts DEF EncodersInv, EncodersTypeOK
      <4>2. ctrl = "store" /\ ctrl' \in {"load", "yield"}
        BY <2>3 DEF store_sum
      <4> QED
        BY <2>2, <4>1, <4>2 DEF EncodersInv, EncodersTypeOK
    <3>2. int16_t(load + speed[wheel]) = int16_t(total[wheel] + speed[wheel])
      BY <3>1, Int16Facts
    <3>3. /\ sum' = [sum EXCEPT ![wheel] = int16_t(load + speed[wheel])]
          /\ total' = [total EXCEPT ![wheel] = total[wheel] + speed[wheel]]
      BY <2>3 DEF store_sum
    <3>4. sum \in [Wheel -> Int16] /\ total \in [Wheel -> Int]
      BY DEF EncodersInv, EncodersTypeOK
    <3> HIDE DEF hardware, reading, sums, history
    <3>5. \A w \in Wheel : sum'[w] = int16_t(total'[w])
      BY <2>2, <3>1, <3>2, <3>3, <3>4
    <3> QED
      BY <3>1, <3>5
  <2>4. CASE ~store_sum
    <3>1. UNCHANGED <<sum, total>>
      BY <1>2, <2>4 DEF Read, encoder_read, timer_get_cnt, timer_set_cnt,
                        if_display_dbg, load_sum
    <3>2. ctrl' = "store" => load' = sum'[wheel']
      BY <1>2, <2>4 DEF Read, encoder_read, timer_get_cnt, timer_set_cnt,
                        if_display_dbg, load_sum
    <3> QED
      BY <2>2, <3>1, <3>2
  <2> QED
    BY <2>3, <2>4
<1>3. CASE key_S \/ key_S_left
  BY <1>0, <1>3, Zenon DEF key_S, key_S_left
<1>4. CASE key_S_right
  <2>1. key = "right" /\ ~raced /\ UNCHANGED <<hardware, reading, display_dbg, history>>
    BY <1>0, <1>4 DEF key_S_right
  <2>2. ctrl = "yield" /\ total = [w \in Wheel |-> 0] /\ sum[0] = 0
    BY <2>1 DEF EncodersInv, Beginning
  <2>3. \A w \in Wheel : sum'[w] = 0 /\ total'[w] = 0
    BY <1>4, <2>1, <2>2 DEF key_S_right, EncodersInv, EncodersTypeOK, Wheel
  <2>4. ctrl' # "store"
    BY <2>1, <2>2
  <2> QED
    BY <2>3, <2>4, Int16Facts
<1> QED
  BY <1>1, <1>2, <1>3, <1>4 DEF EncodersNext, Menu

LEMMA NextKeepsEncodersInv ==
  ASSUME EncodersInv, [EncodersNext]_encoderVars
  PROVE  EncodersInv'
<1>1. ctrl' = "test" => wheel' = 0
  BY DEF EncodersInv, EncodersNext, Pulses, Read, encoder_read, timer_get_cnt,
         timer_set_cnt, if_display_dbg, load_sum, store_sum, Menu, key_S,
         key_S_left, key_S_right, encoderVars, reading
<1> QED
  BY <1>1, NextEncodersTypeOK, NextCounted, NextBeginning, NextSummed,
     NextKept DEF EncodersInv

LEMMA EncodersInvariant == EncodersSpec => []EncodersInv
<1>1. EncodersInv /\ [EncodersNext]_encoderVars => EncodersInv'
  BY NextKeepsEncodersInv
<1> QED
  BY <1>1, InitEncodersInv, PTL DEF EncodersSpec

\* Type correctness of Encoders: the counters stay within the range that
\* encoder_setup gives the timer, and the turn's place within its loop.
THEOREM EncodersTypeCorrect == EncodersSpec => []EncodersTypeOK
<1>1. EncodersInv => EncodersTypeOK
  BY DEF EncodersInv
<1> QED
  BY <1>1, EncodersInvariant, PTL

LEMMA SummedTravel == ASSUME EncodersInv PROVE SumsTellTravel
<1> SUFFICES ASSUME display_dbg, key = "none", ctrl = "yield", ~raced,
                    NEW w \in Wheel
             PROVE  /\ sum[w] = int16_t(total[w])
                    /\ (total[w] + decode(w, cnt[w]) - due[w]) % Range = 0
  BY DEF SumsTellTravel
<1>1. sum[w] = int16_t(total[w])
  BY DEF EncodersInv, SumsKept, InSession
<1>2. Ranges(total[w] + 0 + decode(w, cnt[w]) - due[w])
  BY DEF EncodersInv, Summed, InSession, Balance, Unadded
<1>3. total[w] + 0 = total[w]
  BY DEF EncodersInv, EncodersTypeOK
<1> QED
  BY <1>1, <1>2, <1>3 DEF Ranges

\* Between two turns of a session of the encoders' menu that began between two
\* turns, the sums that the menu shows are the readings' totals as an int16_t
\* keeps them, and the totals and what the counters still hold make up the
\* wheels' travel, but for whole ranges of the counter: for every line count,
\* every width of the sums and any travel, past the ends of both included.
THEOREM SumsAreTravel == EncodersSpec => []SumsTellTravel
<1>1. EncodersInv => SumsTellTravel
  BY SummedTravel
<1> QED
  BY <1>1, EncodersInvariant, PTL

LEMMA ReadingStep ==
  ASSUME EncodersInv, timer_get_cnt, Readable(wheel)
  PROVE  decode(wheel, count') = travel[wheel]
<1>1. /\ wheel \in Wheel /\ cnt[wheel] \in 0..PER /\ travel[wheel] \in Int
      /\ count' = cnt[wheel]
  BY DEF EncodersInv, EncodersTypeOK, timer_get_cnt
<1>2. polarity[wheel] \in {1, -1} /\ Centre \in 0..PER /\ PER \in Nat
  BY <1>1, RangeFacts
<1> DEFINE a == decode(wheel, cnt[wheel]) - travel[wheel]
<1>3. a \in Int /\ Ranges(a)
  BY <1>1, DecodeFacts DEF EncodersInv, Counted
<1>4. polarity[wheel] * travel[wheel] \in -Centre..(PER - Centre)
  BY DEF Readable
<1>5. a \in -PER..PER
  <2>1. CASE polarity[wheel] = 1
    BY <1>1, <1>2, <1>4, <2>1 DEF decode
  <2>2. CASE polarity[wheel] = -1
    BY <1>1, <1>2, <1>4, <2>2 DEF decode
  <2> QED
    BY <1>2, <2>1, <2>2
<1>6. a = 0
  BY <1>3, <1>5, OneInRange
<1>7. decode(wheel, cnt[wheel]) \in Int
  BY <1>1, DecodeFacts
<1> QED
  BY <1>1, <1>6, <1>7

\* What encoder_get reads is the wheel's travel since the last reading, with
\* its sign, if that travel is within the range around the centre: a count that
\* comes between its two accesses gets neither lost nor into two readings.
THEOREM ReadingsAreTravel == EncodersSpec => ReadingIsTravel
<1>1. EncodersInv /\ [EncodersNext]_encoderVars =>
        [\A w \in Wheel :
           timer_get_cnt /\ wheel = w /\ Readable(w)
              => decode(w, count') = travel[w]]_encoderVars
  BY ReadingStep
<1> QED
  BY <1>1, EncodersInvariant, PTL DEF EncodersSpec, ReadingIsTravel
=============================================================================
