--------------------------- MODULE DriversProofs ---------------------------
(***************************************************************************)
(* Theorems about the drivers: the analog sensors, for any table of them,  *)
(* any raw values and any number of changes and of refreshes that overlap  *)
(* a chain; the geonobot machine's actuators, for an elevator of any       *)
(* height and any servos.                                                  *)
(*                                                                         *)
(* That a chain at rest has wrapped is inductive once it is known that a   *)
(* conversion the handler starts is in the channel's pipeline, or that two *)
(* others are.                                                             *)
(*                                                                         *)
(* That the elevator moves with the clamp is not inductive: the motor may  *)
(* still run up when the clamp is told to open, and down when it is told   *)
(* to close.  The invariant says that the elevator has then arrived.       *)
(*                                                                         *)
(* Nor is that an undisturbed command arrives: the invariant follows it    *)
(* byte by byte (Undisturbed), from an address that the bus takes in any   *)
(* state to the registers that hold what it has written so far.            *)
(***************************************************************************)
EXTENDS Sensors, Tower, Servos, WellFoundedInduction, TLAPS

-----------------------------------------------------------------------------
(* The chain of conversions                                                *)

(* Away from index 0 a result waits or is on its way.                      *)
OnItsWay == sensor_index # 0 => converting # <<>> \/ flag

SensorsInv == SensorsTypeOK /\ OnItsWay

\* The indices are those of a non-empty sequence, and NextIndex stays among
\* them.
LEMMA Indices ==
    /\ sensors_nb \in Nat \ {0}
    /\ 0 \in Index
    /\ \A i \in Index : NextIndex(i) \in Index
BY SensorsAssumption DEF SensorsAssumption, sensors_nb, Index, NextIndex

\* The pipeline holds two conversions at most, and at least the one that was
\* started last or two older ones.
LEMMA StartedFits ==
    ASSUME NEW S, NEW pin \in S, converting \in Seq(S), Len(converting) <= 2
    PROVE  /\ Started(pin) \in Seq(S)
           /\ Len(Started(pin)) <= 2
           /\ Started(pin) # <<>>
BY DEF Started

\* An average of bytes is a byte.
LEMMA AverageIsByte ==
    ASSUME NEW s \in [1..3 -> RawValue], NEW byte \in RawValue
    PROVE  Average(s, byte) \in RawValue
<1>1. ASSUME NEW n \in Nat, n <= 765 PROVE n \div 3 \in 0..255
  BY <1>1
<1>2. \A b \in RawValue : b \in Nat /\ b <= 255
  BY DEF RawValue
<1>3. s[1] \in RawValue /\ s[2] \in RawValue
  OBVIOUS
<1>4. byte + s[1] + s[2] \in Nat /\ byte + s[1] + s[2] <= 765
  BY <1>2, <1>3
<1> QED
  BY <1>1, <1>4 DEF Average, RawValue

\* Three values of a set are a window of that set.
LEMMA WindowOfThree ==
    ASSUME NEW S, NEW a \in S, NEW b \in S, NEW c \in S
    PROVE  <<a, b, c>> \in [1..3 -> S]
<1> DEFINE w == <<a, b, c>>
<1>1. DOMAIN w = 1..3
  OBVIOUS
<1>2. \A i \in 1..3 : w[i] \in S
  OBVIOUS
<1>3. w = [i \in DOMAIN w |-> w[i]]
  OBVIOUS
<1> QED
  BY <1>1, <1>2, <1>3

LEMMA InitSensorsInv == ASSUME SensorsInit PROVE SensorsInv
<1>1. sensor_index \in Index /\ mux \in Index
  BY Indices DEF SensorsInit
<1>2. raw_values \in [Index -> [1..3 -> RawValue]]
  BY DEF SensorsInit, RawValue
<1>3. converting \in Seq(Index) /\ Len(converting) <= 2
  BY Indices DEF SensorsInit
<1>4. result \in Index \X RawValue
  BY Indices DEF SensorsInit, RawValue
<1>5. flag \in BOOLEAN /\ refresh \in BOOLEAN
  BY DEF SensorsInit
<1>6. sight \in [Index -> Sights] /\ origin \in [Index -> Index]
  BY DEF SensorsInit
<1>7. events \in 0..MaxEvents /\ clean \in BOOLEAN
  BY SensorsAssumption DEF SensorsInit, SensorsAssumption
<1>8. OnItsWay
  BY DEF SensorsInit, OnItsWay
<1> QED
  BY <1>1, <1>2, <1>3, <1>4, <1>5, <1>6, <1>7, <1>8 DEF SensorsInv, SensorsTypeOK

LEMMA NextKeepsSensorsInv ==
    ASSUME SensorsInv, [SensorsNext]_sensorVars
    PROVE  SensorsInv'
<1> USE DEF SensorsInv
<1>1. CASE refresh_mux
  <2>1. mux' \in Index /\ events' \in 0..MaxEvents /\ clean' \in BOOLEAN
    BY <1>1, Indices, SensorsAssumption
       DEF refresh_mux, SensorsTypeOK, SensorsAssumption, Quiet
  <2> QED
    BY <1>1, <2>1 DEF refresh_mux, SensorsTypeOK, OnItsWay
<1>2. CASE refresh_start
  <2>1. /\ converting' \in Seq(Index) /\ Len(converting') <= 2
        /\ converting' # <<>>
    BY <1>2, StartedFits DEF refresh_start, SensorsTypeOK
  <2> QED
    BY <1>2, <2>1 DEF refresh_start, SensorsTypeOK, OnItsWay
<1>3. CASE Convert
  <2>1. /\ converting' \in Seq(Index) /\ Len(converting') <= 2
        /\ Head(converting) \in Index
    BY <1>3 DEF Convert, SensorsTypeOK
  <2>2. result' \in Index \X RawValue
    BY <1>3, <2>1, SensorsAssumption
       DEF Convert, SensorsTypeOK, SensorsAssumption
  <2> QED
    BY <1>3, <2>1, <2>2 DEF Convert, SensorsTypeOK, OnItsWay
<1>4. CASE irq_adc_handler
  <2>1. sensor_index' \in Index
    BY <1>4, Indices DEF irq_adc_handler, SensorsTypeOK
  <2>2. raw_values' \in [Index -> [1..3 -> RawValue]]
    <3> DEFINE s == raw_values[sensor_index]
    <3>1. s \in [1..3 -> RawValue] /\ result[2] \in RawValue
      BY DEF SensorsTypeOK
    <3>2. Average(s, result[2]) \in RawValue
      BY <3>1, AverageIsByte
    <3>3. s[2] \in RawValue /\ s[3] \in RawValue
      BY <3>1
    <3>4. <<s[2], s[3], Average(s, result[2])>> \in [1..3 -> RawValue]
      BY <3>2, <3>3, WindowOfThree
    <3>5. raw_values' = [raw_values EXCEPT ![sensor_index] =
                           <<s[2], s[3], Average(s, result[2])>>]
      BY <1>4 DEF irq_adc_handler
    <3> HIDE DEF s
    <3> QED
      BY <3>4, <3>5 DEF SensorsTypeOK
  <2>3. origin' \in [Index -> Index]
    BY <1>4 DEF irq_adc_handler, SensorsTypeOK
  <2>4. /\ mux' \in Index
        /\ converting' \in Seq(Index) /\ Len(converting') <= 2
        /\ sensor_index' # 0 => converting' # <<>>
    BY <1>4, <2>1, StartedFits DEF irq_adc_handler, SensorsTypeOK
  <2> QED
    BY <1>4, <2>1, <2>2, <2>3, <2>4 DEF irq_adc_handler, SensorsTypeOK, OnItsWay
<1>5. CASE Move
  BY <1>5, SensorsAssumption DEF Move, SensorsTypeOK, OnItsWay, SensorsAssumption
<1>6. CASE UNCHANGED sensorVars
  BY <1>6 DEF sensorVars, SensorsTypeOK, OnItsWay
<1> QED
  BY <1>1, <1>2, <1>3, <1>4, <1>5, <1>6 DEF SensorsNext

LEMMA WrappedAtRest == SensorsInv => ChainWraps
BY DEF SensorsInv, OnItsWay, ChainWraps, Quiet

LEMMA SensorsInvariant == SensorsSpec => []SensorsInv
<1>1. SensorsInit => SensorsInv
  BY InitSensorsInv
<1>2. SensorsInv /\ [SensorsNext]_sensorVars => SensorsInv'
  BY NextKeepsSensorsInv
<1> QED
  BY <1>1, <1>2, PTL DEF SensorsSpec

\* Type correctness of Sensors: the index stays in the table, the samples stay
\* bytes, two conversions at most are in the pipeline.
THEOREM SensorsTypeCorrect == SensorsSpec => []SensorsTypeOK
<1>1. SensorsInv => SensorsTypeOK
  BY DEF SensorsInv
<1> QED
  BY <1>1, SensorsInvariant, PTL

\* A chain of conversions that has come to rest is back at the first sensor,
\* for any number of sensors and of overlapping refreshes (irq_adc_handler).
THEOREM ChainsWrap == SensorsSpec => []ChainWraps
<1>1. SensorsInv => ChainWraps
  BY WrappedAtRest
<1> QED
  BY <1>1, SensorsInvariant, PTL

-----------------------------------------------------------------------------
(* Whose sample a sensor has                                               *)

(* A chain that no refresh has overlapped has one conversion on its way or *)
(* one result waiting, of the pin of the sensor it is for, and behind it   *)
(* the sensors' own samples.                                               *)
OwnChain == clean =>
    IF refresh THEN Quiet /\ mux = 0 /\ sensor_index = 0
    ELSE \/ Quiet /\ sensor_index = 0 /\ \A i \in Index : origin[i] = i
         \/ /\ \/ converting = <<sensor_index>> /\ ~flag
               \/ converting = <<>> /\ flag /\ result[1] = sensor_index
            /\ \A i \in 0..(sensor_index - 1) : origin[i] = i

\* The index goes up by one, or back to 0 from the last sensor.
LEMMA NextOfIndex ==
    ASSUME NEW i \in Index
    PROVE  NextIndex(i) = IF i = sensors_nb - 1 THEN 0 ELSE i + 1
<1>1. sensors_nb \in Nat \ {0} /\ i \in 0..(sensors_nb - 1)
  BY Indices DEF Index
<1>2. CASE i = sensors_nb - 1
  <2>1. i + 1 = sensors_nb
    BY <1>1, <1>2
  <2>2. \A n \in Nat \ {0} : n % n = 0
    OBVIOUS
  <2> QED
    BY <1>1, <1>2, <2>1, <2>2 DEF NextIndex
<1>3. CASE i # sensors_nb - 1
  <2>1. i + 1 \in 0..(sensors_nb - 1)
    BY <1>1, <1>3
  <2>2. \A n \in Nat \ {0} : \A m \in 0..(n - 1) : m % n = m
    OBVIOUS
  <2> QED
    BY <1>1, <1>3, <2>1, <2>2 DEF NextIndex
<1> QED
  BY <1>2, <1>3

LEMMA InitOwnChain == SensorsInit => OwnChain
BY DEF SensorsInit, OwnChain

LEMMA SamplesOfOwnChain == OwnChain => SamplesAreOwn
BY DEF OwnChain, SamplesAreOwn, Quiet

LEMMA NextKeepsOwnChain ==
    ASSUME SensorsInv, OwnChain, [SensorsNext]_sensorVars
    PROVE  OwnChain'
<1> USE DEF SensorsInv
<1>1. CASE refresh_mux
  <2>1. Quiet => sensor_index = 0
    BY DEF Quiet, OnItsWay
  <2> QED
    BY <1>1, <2>1 DEF refresh_mux, OwnChain, Quiet
<1>2. CASE refresh_start
  <2>1. clean' => Quiet /\ mux = 0 /\ sensor_index = 0
    BY <1>2 DEF refresh_start, OwnChain
  <2>2. clean' => converting' = <<0>> /\ ~flag' /\ sensor_index' = 0
    BY <1>2, <2>1 DEF refresh_start, Quiet, Started
  <2> QED
    BY <1>2, <2>2 DEF refresh_start, OwnChain
<1>3. CASE Convert
  <2>1. clean => ~refresh /\ converting = <<sensor_index>>
    BY <1>3 DEF Convert, OwnChain, Quiet
  <2>2. clean => /\ converting' = <<>> /\ result'[1] = sensor_index
                 /\ \A i \in 0..(sensor_index - 1) : origin[i] = i
    BY <1>3, <2>1 DEF Convert, OwnChain, Quiet
  <2> QED
    BY <1>3, <2>1, <2>2 DEF Convert, OwnChain
<1>4. CASE irq_adc_handler
  <2> SUFFICES ASSUME clean' PROVE OwnChain'
    BY DEF OwnChain
  <2>1. /\ clean /\ ~refresh /\ converting = <<>> /\ result[1] = sensor_index
        /\ \A i \in 0..(sensor_index - 1) : origin[i] = i
    BY <1>4 DEF irq_adc_handler, OwnChain, Quiet
  <2>2. ~flag' /\ ~refresh'
    BY <1>4, <2>1 DEF irq_adc_handler
  <2>3. sensor_index \in 0..(sensors_nb - 1) /\ sensors_nb \in Nat
    BY Indices DEF SensorsTypeOK, Index
  <2>4. \A i \in 0..sensor_index : origin'[i] = i
    <3>1. origin' = [origin EXCEPT ![sensor_index] = sensor_index]
      BY <1>4, <2>1 DEF irq_adc_handler
    <3>2. origin'[sensor_index] = sensor_index
      BY <3>1 DEF SensorsTypeOK
    <3>3. \A i \in Index \ {sensor_index} : origin'[i] = origin[i]
      BY <3>1 DEF SensorsTypeOK
    <3>4. ASSUME NEW i \in 0..sensor_index, i # sensor_index PROVE origin'[i] = i
      <4>1. i \in 0..(sensor_index - 1) /\ i \in Index \ {sensor_index}
        BY <2>3, <3>4 DEF Index
      <4> QED
        BY <2>1, <3>3, <4>1
    <3> QED
      BY <3>2, <3>4
  <2>5. sensor_index' = IF sensor_index = sensors_nb - 1 THEN 0
                        ELSE sensor_index + 1
    BY <1>4, NextOfIndex DEF irq_adc_handler, SensorsTypeOK
  <2>6. CASE sensor_index = sensors_nb - 1
    <3>1. sensor_index' = 0 /\ converting' = <<>>
      BY <1>4, <2>1, <2>5, <2>6 DEF irq_adc_handler
    <3> QED
      BY <2>2, <2>4, <2>6, <3>1 DEF OwnChain, Quiet, Index
  <2>7. CASE sensor_index # sensors_nb - 1
    <3>1. sensor_index' = sensor_index + 1 /\ sensor_index' # 0
      BY <2>3, <2>5, <2>7
    <3>2. converting' = <<sensor_index'>>
      BY <1>4, <2>1, <3>1 DEF irq_adc_handler, Started
    <3> QED
      BY <2>2, <2>3, <2>4, <3>1, <3>2 DEF OwnChain
  <2> QED
    BY <2>6, <2>7
<1>5. CASE Move
  BY <1>5 DEF Move, OwnChain, Quiet
<1>6. CASE UNCHANGED sensorVars
  BY <1>6 DEF sensorVars, OwnChain, Quiet
<1> QED
  BY <1>1, <1>2, <1>3, <1>4, <1>5, <1>6 DEF SensorsNext

\* For any number of sensors: once a chain that no refresh has overlapped is at
\* rest, each sensor's newest sample is one of its own pin (irq_adc_handler,
\* analog_sensor_refresh_all), whatever happened to the chains before.
THEOREM OwnSamples == SensorsSpec => []SamplesAreOwn
<1>1. SensorsInit => OwnChain
  BY InitOwnChain
<1>2. SensorsInv /\ OwnChain /\ [SensorsNext]_sensorVars => OwnChain'
  BY NextKeepsOwnChain
<1>3. SensorsInv /\ OwnChain => SamplesAreOwn
  BY SamplesOfOwnChain
<1> QED
  BY <1>1, <1>2, <1>3, SensorsInvariant, PTL DEF SensorsSpec

-----------------------------------------------------------------------------
(* The elevator and its clamp                                              *)

(* The flags are those of a descent or of an ascent, and the motor obeys,  *)
(* but for the writes that turn it round, which come before the flags'.    *)
Flags ==
    /\ spot_get_up = ~spot_get_down
    /\ Rises => spot_get_up \/ Stopping \/ tower_pc = "rise_duty"
    /\ Sinks => spot_get_down \/ tower_pc = "down_duty"

(* What a pass writes to the motor is what it has read.                    *)
Writing ==
    /\ tower_pc = "down_duty" => (tower_pin = "low" <=> seen)
    /\ tower_pc = "rise_duty" => tower_pin = "low"

(* The clamp opens in a descent only, or with the elevator at the top.     *)
Opening ==
    /\ tower_pc \in {"open", "down?", "down"} => spot_get_down \/ position = Top
    /\ tower_pc \in {"down?", "down", "down_duty"} => clamp = "open"

(* It closes in an ascent only, or with the elevator at the bottom.        *)
Closing ==
    /\ tower_pc \in {"close", "up?", "rise"} => spot_get_up \/ position = 0
    /\ tower_pc \in {"up?", "rise", "rise_duty"} => clamp = "closed"

(* Wherever the motor can move the elevator the clamp is as it must be.    *)
Grip ==
    /\ Rises /\ position < Top => clamp = "closed" \/ Stopping
    /\ Sinks /\ position > 0 => clamp = "open"

TowerInv == TowerTypeOK /\ Flags /\ Writing /\ Opening /\ Closing /\ Grip

LEMMA InitTowerInv == ASSUME TowerInit PROVE TowerInv
<1>1. ASSUME TowerInit PROVE ~Rises /\ ~Sinks
  BY <1>1 DEF TowerInit, Rises, Sinks
<1>2. ASSUME TowerInit PROVE TowerTypeOK
  BY <1>2, TopAssumption DEF TopAssumption, TowerInit, TowerTypeOK
<1>3. ASSUME TowerInit PROVE Writing /\ Opening /\ Closing
  BY <1>3 DEF TowerInit, Writing, Opening, Closing
<1>4. ASSUME TowerInit PROVE spot_get_up = ~spot_get_down
  BY <1>4 DEF TowerInit
<1> QED
  BY <1>1, <1>2, <1>3, <1>4 DEF TowerInv, Flags, Grip

\* The steps that read a sensor or hand the pass on: the motor and the clamp
\* keep their state.
LEMMA ReadsKeepInv ==
    ASSUME TowerInv,
           \/ StartGame \/ task_active_event_loop \/ detect_spot \/ spot_at_top
           \/ spot_down_read \/ close_door \/ second_test \/ spot_up_read
           \/ event_loop_yield
    PROVE  TowerInv'
<1> USE TopAssumption
       DEF TopAssumption, code, parts, hbridge, world, Goto, TowerInv,
           TowerTypeOK, Flags, Writing, Opening, Closing, Grip, Rises, Sinks,
           Stopping
<1>1. CASE StartGame              BY <1>1 DEF StartGame
<1>2. CASE task_active_event_loop BY <1>2 DEF task_active_event_loop
<1>3. CASE detect_spot            BY <1>3 DEF detect_spot
<1>4. CASE spot_at_top            BY <1>4 DEF spot_at_top, detect_elevator_up
<1>5. CASE spot_down_read         BY <1>5 DEF spot_down_read, detect_elevator_down
<1>6. CASE close_door             BY <1>6 DEF close_door, detect_elevator_up
<1>7. CASE second_test            BY <1>7 DEF second_test, detect_elevator_down
<1>8. CASE spot_up_read           BY <1>8 DEF spot_up_read, detect_elevator_up
<1>9. CASE event_loop_yield              BY <1>9 DEF event_loop_yield
<1> QED
  BY <1>1, <1>2, <1>3, <1>4, <1>5, <1>6, <1>7, <1>8, <1>9

\* The motor does not run the other way where the clamp is commanded.
LEMMA MotorObeys ==
    ASSUME TowerInv
    PROVE  /\ tower_pc = "open" /\ Rises => position = Top
           /\ tower_pc = "close" /\ Sinks => position = 0
<1>1. tower_pc = "open" /\ Rises => spot_get_up
  BY Zenon DEF TowerInv, Flags, Stopping
<1>2. tower_pc = "close" /\ Sinks => spot_get_down
  BY Zenon DEF TowerInv, Flags
<1>3. spot_get_up => ~spot_get_down
  BY Zenon DEF TowerInv, TowerTypeOK, Flags
<1>4. /\ tower_pc = "open" => spot_get_down \/ position = Top
      /\ tower_pc = "close" => spot_get_up \/ position = 0
  BY DEF TowerInv, Opening, Closing
<1> QED
  BY <1>1, <1>2, <1>3, <1>4, Zenon

\* The steps that command the clamp or the motor.
LEMMA CommandsKeepInv ==
    ASSUME TowerInv,
           open_pince \/ spot_down \/ close_pince \/ spot_up
    PROVE  TowerInv'
<1> USE TopAssumption
       DEF TopAssumption, code, parts, hbridge, world, Goto, TowerInv,
           TowerTypeOK, Flags, Writing, Opening, Closing, Grip, Rises, Sinks,
           Stopping
<1>1. CASE open_pince
  <2>1. TowerTypeOK' /\ Flags' /\ Writing' /\ Opening' /\ Closing'
    BY <1>1 DEF open_pince
  <2>2. Grip'
    BY <1>1, MotorObeys DEF open_pince
  <2> QED
    BY <2>1, <2>2
<1>2. CASE spot_down
  <2>1. CASE tower_pc = "down"
    <3>1. CASE seen
      BY <1>2, <2>1, <3>1 DEF spot_down, tower_direction, spot_down_pwm
    <3>2. CASE ~seen
      BY <1>2, <2>1, <3>2 DEF spot_down, tower_direction, spot_down_pwm
    <3> QED
      BY <3>1, <3>2
  <2>2. CASE tower_pc = "down_duty"
    <3>1. /\ tower_duty' = (IF seen THEN 0 ELSE 200)
          /\ tower_pc' = "door?" /\ spot_get_down' = TRUE /\ spot_get_up' = FALSE
          /\ UNCHANGED <<tower_mode, seen, tower_pin, clamp, door, world>>
      BY <1>2, <2>2 DEF spot_down, tower_duty_cycle, spot_down_pwm
    <3>2. TowerTypeOK'
      BY <3>1
    <3>3. ~Rises' /\ (Sinks' => ~seen)
      BY <2>2, <3>1
    <3>4. Flags' /\ Writing' /\ Opening' /\ Closing'
      BY <3>1, <3>3
    <3>5. Grip'
      BY <2>2, <3>1, <3>3
    <3> QED
      BY <3>2, <3>4, <3>5
  <2> QED
    BY <1>2, <2>1, <2>2 DEF spot_down
<1>3. CASE close_pince
  <2>1. TowerTypeOK' /\ Flags' /\ Writing' /\ Opening' /\ Closing'
    BY <1>3 DEF close_pince
  <2>2. Grip'
    BY <1>3, MotorObeys DEF close_pince
  <2> QED
    BY <2>1, <2>2
<1>4. CASE spot_up
  <2>1. CASE tower_pc = "rise"
    BY <1>4, <2>1 DEF spot_up, tower_direction, spot_up_pwm
  <2>2. CASE tower_pc = "rise_duty"
    BY <1>4, <2>2 DEF spot_up, tower_duty_cycle, spot_up_pwm
  <2> QED
    BY <1>4, <2>1, <2>2 DEF spot_up
<1> QED
  BY <1>1, <1>2, <1>3, <1>4

\* The elevator moves by one, and stays where it has arrived.
LEMMA MotionSteps ==
    ASSUME TowerTypeOK, Motion
    PROVE  /\ position' \in 0..Top
           /\ position' > position => Rises /\ position < Top
           /\ position' < position => Sinks /\ position > 0
           /\ \/ Rises /\ position' = position + 1
              \/ Sinks /\ position' = position - 1
           /\ UNCHANGED <<code, parts, spot>>
BY TopAssumption DEF TopAssumption, Motion, TowerTypeOK, Rises, Sinks

LEMMA NextKeepsTowerInv ==
    ASSUME TowerInv, [TowerNext]_towerVars
    PROVE  TowerInv'
<1>1. CASE StartGame \/ Pass
  BY <1>1, ReadsKeepInv, CommandsKeepInv DEF Pass
<1>2. CASE Motion
  <2> USE DEF TowerInv, TowerTypeOK, Flags, Writing, Opening, Closing, Grip,
              Rises, Sinks, Stopping, code, parts, hbridge
  <2>1. TowerTypeOK' /\ Writing'
    <3>1. position' \in 0..Top /\ UNCHANGED <<code, parts, spot>>
      BY <1>2, MotionSteps
    <3>2. TowerTypeOK'
      BY <3>1
    <3>3. Writing'
      BY <3>1
    <3> QED
      BY <3>2, <3>3
  <2>5. Flags'
    <3>1. UNCHANGED <<spot_get_up, spot_get_down, Rises, Sinks, Stopping, tower_pc>>
      BY <1>2, MotionSteps
    <3> QED
      BY <3>1, Zenon
  <2>2. Opening'
    <3>1. tower_pc \in {"open", "down?", "down"} => spot_get_down \/ Sinks = FALSE
      BY Zenon
    <3>2. tower_pc \in {"open", "down?", "down"} => spot_get_down' \/ position' = Top
      BY <1>2, <3>1, MotionSteps, TopAssumption DEF TopAssumption
    <3> QED
      BY <1>2, <3>2, MotionSteps
  <2>3. Closing'
    <3>1. tower_pc \in {"close", "up?", "rise"} => spot_get_up \/ Rises = FALSE
      BY Zenon
    <3>2. tower_pc \in {"close", "up?", "rise"} => spot_get_up' \/ position' = 0
      BY <1>2, <3>1, MotionSteps, TopAssumption DEF TopAssumption
    <3> QED
      BY <1>2, <3>2, MotionSteps
  <2>4. Grip'
    <3>1. Rises' = Rises /\ Sinks' = Sinks /\ ~(Rises /\ Sinks)
      BY <1>2, MotionSteps
    <3> QED
      BY <1>2, <3>1, MotionSteps, TopAssumption DEF TopAssumption
  <2> QED
    BY <2>1, <2>2, <2>3, <2>4, <2>5
<1>3. CASE Spot
  BY <1>3
     DEF Spot, code, parts, hbridge, TowerInv, TowerTypeOK, Flags, Writing,
         Opening, Closing, Grip, Rises, Sinks, Stopping
<1>4. CASE UNCHANGED towerVars
  BY <1>4
     DEF towerVars, code, parts, hbridge, world, TowerInv, TowerTypeOK, Flags,
         Writing, Opening, Closing, Grip, Rises, Sinks, Stopping
<1> QED
  BY <1>1, <1>2, <1>3, <1>4 DEF TowerNext

LEMMA TowerInvariant == TowerSpec => []TowerInv
<1>1. TowerInit => TowerInv
  BY InitTowerInv
<1>2. TowerInv /\ [TowerNext]_towerVars => TowerInv'
  BY NextKeepsTowerInv
<1> QED
  BY <1>1, <1>2, PTL DEF TowerSpec

\* Type correctness of Tower.
THEOREM TowerTypeCorrect == TowerSpec => []TowerTypeOK
<1>1. TowerInv => TowerTypeOK
  BY DEF TowerInv
<1> QED
  BY <1>1, TowerInvariant, PTL

LEMMA ClampStep ==
    ASSUME TowerInv, [TowerNext]_towerVars
    PROVE  [/\ position' > position => clamp = "closed" \/ Stopping
            /\ position' < position => clamp = "open"]_towerVars
<1>1. CASE Motion
  BY <1>1, MotionSteps DEF TowerInv, Grip
<1>2. CASE position' = position
  BY <1>2 DEF TowerInv, TowerTypeOK
<1>3. TowerNext /\ ~Motion => position' = position
  BY DEF TowerNext, Pass, StartGame, Spot, world, task_active_event_loop,
         detect_spot, spot_at_top, open_pince, spot_down_read, spot_down,
         close_door, second_test, close_pince, spot_up_read, spot_up,
         event_loop_yield, tower_direction, tower_duty_cycle
<1> QED
  BY <1>1, <1>2, <1>3 DEF towerVars

\* The elevator goes down with its clamp open and rises with it closed, whatever
\* its height and however the sensors change within a pass (monter_tour), though
\* its motor is commanded in two writes, of which the first may turn it round
\* under power: only between the two that stop a descent may it rise with the
\* clamp open.
THEOREM ClampHolds == TowerSpec => MovesWithClamp
<1>1. TowerInv /\ [TowerNext]_towerVars =>
        [/\ position' > position => clamp = "closed" \/ Stopping
         /\ position' < position => clamp = "open"]_towerVars
  BY ClampStep
<1> QED
  BY <1>1, TowerInvariant, PTL DEF TowerSpec, MovesWithClamp

-----------------------------------------------------------------------------
(* The servos                                                              *)

(* The byte that the j-th write of a command puts into its register.       *)
DataByte(c, j) == CASE j = 0 -> 0
                    [] j = 1 -> c[2] % 256
                    [] j = 2 -> c[2] \div 256

(* The registers of the first n writes of a command hold its bytes.        *)
Delivered(c, n) ==
    \A j \in 0..2 : j < n => card_regs[3 * c[1] + j] = DataByte(c, j)

(* The command of a task that nothing has disturbed since its first        *)
(* address: no byte is held back, the card stands where the task does, and *)
(* the writes done so far have arrived.                                    *)
Undisturbed(t) ==
    /\ wire = None
    /\ twi_pc[t] \in {"addr", "reg", "val", "stop"}
    /\ twi_pc[t] = "addr" => twi_part[t] > 0
    /\ twi_pc[t] \in {"reg", "val"} => owned
    /\ twi_pc[t] = "reg" => pointer = -1
    /\ twi_pc[t] = "val" => pointer = Register(t)
    /\ Delivered(Command(t), IF twi_pc[t] = "stop" THEN twi_part[t] + 1 ELSE twi_part[t])

(* What a finished command has written is still there.                     *)
Kept == sent # None =>
    /\ wire = None /\ sent \in Servo \X Uint16
    /\ Delivered(sent, 3)

(* A task on the bus has a command to carry out.                           *)
Busy == \A t \in Caller : twi_pc[t] # "idle" => jobs[t] # {}

ServosInv ==
    /\ ServosTypeOK /\ Busy
    /\ \A t \in solo : Undisturbed(t)
    /\ Kept


LEMMA LeastServo ==
  ASSUME NEW S \in SUBSET Nat, S # {}
  PROVE  \E n \in S : \A m \in S : n <= m
<1>1. PICK x \in S : \A y \in S : ~ (<<y, x>> \in OpToRel(<, Nat))
  BY NatLessThanWellFounded, WFMin
<1>2. \A y \in S : ~(y < x)
  BY <1>1 DEF OpToRel
<1> QED
  BY <1>2

LEMMA FittedFacts ==
  /\ servos_nb \in Nat /\ servos_nb >= 1 /\ servos_nb <= 21
  /\ \A s \in Servo : s \in Nat /\ s <= servos_nb - 1 /\ Fitted[s + 1] \in 0..10
  /\ 0 \in Servo
<1>1. Fitted \in Seq(0..10) /\ Len(Fitted) \in 1..21
  BY FittedAssumption DEF FittedAssumption
<1>2. servos_nb \in Nat /\ servos_nb >= 1 /\ servos_nb <= 21
  <2>1. servos_nb \in 1..21
    BY <1>1, Zenon DEF servos_nb
  <2> QED
    BY <2>1
<1>3. ASSUME NEW s \in Servo
      PROVE  s \in Nat /\ s <= servos_nb - 1 /\ Fitted[s + 1] \in 0..10
  <2>1. s \in Nat /\ s <= servos_nb - 1
    BY <1>2 DEF Servo
  <2>2. s + 1 \in 1..servos_nb
    BY <1>2, <2>1
  <2>3. s + 1 \in 1..Len(Fitted)
    BY <2>2, Zenon DEF servos_nb
  <2>4. Fitted[s + 1] \in 0..10
    BY <1>1, <2>3
  <2> QED
    BY <2>1, <2>4
<1>4. 0 \in Servo
  BY <1>2 DEF Servo
<1> QED
  BY <1>2, <1>3, <1>4

\* A command's two bytes make it up.
LEMMA Halves ==
  ASSUME NEW v \in Int, 0 <= v, v <= 65535
  PROVE  v % 256 \in 0..255 /\ v \div 256 \in 0..255
         /\ (v % 256) + 256 * (v \div 256) = v
  OBVIOUS

LEMMA InUint16 ==
  ASSUME NEW n \in Int, 0 <= n, n <= 65535
  PROVE  n \in Uint16
<1>1. UINT16_MAX \in Int /\ n <= UINT16_MAX
  BY DEF UINT16_MAX
<1> QED
  BY <1>1 DEF Uint16

LEMMA IntegerUint16 == \A v \in Uint16 : v \in Int /\ 0 <= v /\ v <= 65535
<1>1. UINT16_MAX \in Int /\ UINT16_MAX = 65535
  BY SMTT(30) DEF UINT16_MAX
<1>2. \A v \in Uint16 : v \in Int /\ 0 <= v /\ v <= UINT16_MAX
  BY <1>1, SMTT(30) DEF Uint16
<1> QED
  BY <1>1, <1>2

LEMMA Bytewise ==
  ASSUME NEW v \in Uint16
  PROVE  v % 256 \in Uint8 /\ v \div 256 \in Uint8
         /\ (v % 256) + 256 * (v \div 256) = v
<1>1. v \in Int /\ 0 <= v /\ v <= 65535
  BY IntegerUint16
<1> QED
  BY <1>1, Halves DEF Uint8

\* A task with commands to carry out works on one of them.
LEMMA CommandFacts ==
  ASSUME ServosTypeOK, NEW t \in Caller, jobs[t] # {}
  PROVE  /\ Command(t) \in jobs[t]
         /\ Command(t) \in Servo \X Uint16
         /\ Command(t)[1] \in Servo /\ Command(t)[2] \in Uint16
<1> DEFINE S == { c[1] : c \in jobs[t] }
<1>1. jobs[t] \subseteq Servo \X Uint16
  BY DEF ServosTypeOK
<1>2. S \in SUBSET Nat /\ S # {}
  BY <1>1, FittedFacts
<1>3. PICK n \in S : \A m \in S : n <= m
  <2> HIDE DEF S
  <2> QED
    BY <1>2, LeastServo
<1>4. PICK c \in jobs[t] : c[1] = n
  BY <1>3
<1>5. \A d \in jobs[t] : c[1] <= d[1]
  BY <1>3, <1>4
<1>6. Command(t) \in jobs[t]
  BY <1>4, <1>5 DEF Command
<1> QED
  BY <1>1, <1>6

LEMMA OutFacts ==
  ASSUME ServosTypeOK, NEW t \in Caller, twi_pc[t] \in {"addr", "reg", "val"},
         jobs[t] # {}
  PROVE  /\ Out(t) \in Bytes \ {None}
         /\ twi_pc[t] = "addr" => Out(t) = <<"addr">>
         /\ twi_pc[t] = "reg" => Out(t) = <<"data", Register(t)>>
         /\ twi_pc[t] = "val" => Out(t) = <<"data", DataByte(Command(t), twi_part[t])>>
         /\ Register(t) \in 0..(3 * servos_nb - 1) /\ Register(t) \in Uint8
<1>1. /\ Command(t)[1] \in Servo /\ Command(t)[2] \in Uint16
      /\ twi_part[t] \in 0..2
  BY CommandFacts DEF ServosTypeOK
<1>2. Register(t) \in 0..(3 * servos_nb - 1) /\ Register(t) \in Uint8
  <2>1. Command(t)[1] \in Nat /\ Command(t)[1] <= servos_nb - 1
    BY <1>1, FittedFacts
  <2> DEFINE s == Command(t)[1]
  <2>2. \A i, n, j \in Int :
          0 <= i /\ i <= n - 1 /\ n <= 21 /\ 0 <= j /\ j <= 2
            => 3 * i + j \in 0..(3 * n - 1) /\ 3 * i + j \in 0..255
    OBVIOUS
  <2>3. servos_nb \in Int /\ servos_nb <= 21
    BY FittedFacts
  <2>4. twi_part[t] \in Int /\ 0 <= twi_part[t] /\ twi_part[t] <= 2
    BY <1>1
  <2>5. s \in Int /\ 0 <= s /\ s <= servos_nb - 1
    BY <2>1
  <2> QED
    BY <2>2, <2>3, <2>4, <2>5 DEF Register, Uint8
<1>4. Byte(t) = DataByte(Command(t), twi_part[t]) /\ Byte(t) \in Uint8
  <2>1. Command(t)[2] % 256 \in Uint8 /\ Command(t)[2] \div 256 \in Uint8
    BY <1>1, Bytewise
  <2>2. CASE twi_part[t] = 0
    BY <2>2 DEF Byte, DataByte, Uint8
  <2>3. CASE twi_part[t] = 1
    BY <2>1, <2>3 DEF Byte, DataByte
  <2>4. CASE twi_part[t] = 2
    BY <2>1, <2>4 DEF Byte, DataByte
  <2> QED
    BY <1>1, <2>2, <2>3, <2>4
<1>5. /\ twi_pc[t] = "addr" => Out(t) = <<"addr">>
      /\ twi_pc[t] = "reg" => Out(t) = <<"data", Register(t)>>
      /\ twi_pc[t] = "val" => Out(t) = <<"data", Byte(t)>>
  BY DEF Out
<1>6. Out(t) \in Bytes
  BY <1>2, <1>4, <1>5 DEF Bytes
<1>7. Out(t) # None
  BY <1>5 DEF None
<1> QED
  BY <1>2, <1>4, <1>5, <1>6, <1>7

LEMMA InitServosInv == ServosInit => ServosInv
<1> SUFFICES ASSUME ServosInit PROVE ServosInv
  OBVIOUS
<1>1. value \in [Servo -> [Setting -> Uint16]]
  <2>1. \A i \in 0..10 : sd21[i] \in [Setting -> Uint16]
    <3> SUFFICES ASSUME NEW i \in 0..10 PROVE sd21[i] \in [Setting -> Uint16]
      OBVIOUS
    <3>1. CASE i < 4
      <4>1. 0 \in Uint16
        BY InUint16
      <4>2. [init |-> 0, open |-> 0, close |-> 0] \in [Setting -> Uint16]
        BY <4>1 DEF Setting
      <4>3. sd21[i] = [init |-> 0, open |-> 0, close |-> 0]
        BY <3>1 DEF sd21
      <4> QED
        BY <4>2, <4>3
    <3>2. CASE i = 4
      <4>1. 1200 \in Uint16 /\ 2400 \in Uint16
        BY InUint16
      <4>2. [init |-> 2400, open |-> 1200, close |-> 2400] \in [Setting -> Uint16]
        BY <4>1 DEF Setting
      <4>3. sd21[i] = [init |-> 2400, open |-> 1200, close |-> 2400]
        BY <3>2 DEF sd21
      <4> QED
        BY <4>2, <4>3
    <3>3. CASE i = 5
      <4>1. 600 \in Uint16 /\ 1800 \in Uint16
        BY InUint16
      <4>2. [init |-> 600, open |-> 1800, close |-> 600] \in [Setting -> Uint16]
        BY <4>1 DEF Setting
      <4>3. sd21[i] = [init |-> 600, open |-> 1800, close |-> 600]
        BY <3>3 DEF sd21
      <4> QED
        BY <4>2, <4>3
    <3>4. CASE i = 6
      <4>1. 600 \in Uint16 /\ 2450 \in Uint16
        BY InUint16
      <4>2. [init |-> 600, open |-> 600, close |-> 2450] \in [Setting -> Uint16]
        BY <4>1 DEF Setting
      <4>3. sd21[i] = [init |-> 600, open |-> 600, close |-> 2450]
        BY <3>4 DEF sd21
      <4> QED
        BY <4>2, <4>3
    <3>5. CASE i = 7
      <4>1. 800 \in Uint16 /\ 2600 \in Uint16
        BY InUint16
      <4>2. [init |-> 2600, open |-> 2600, close |-> 800] \in [Setting -> Uint16]
        BY <4>1 DEF Setting
      <4>3. sd21[i] = [init |-> 2600, open |-> 2600, close |-> 800]
        BY <3>5 DEF sd21
      <4> QED
        BY <4>2, <4>3
    <3>6. CASE i = 8
      <4>1. 1700 \in Uint16 /\ 2120 \in Uint16
        BY InUint16
      <4>2. [init |-> 1700, open |-> 2120, close |-> 1700] \in [Setting -> Uint16]
        BY <4>1 DEF Setting
      <4>3. sd21[i] = [init |-> 1700, open |-> 2120, close |-> 1700]
        BY <3>6 DEF sd21
      <4> QED
        BY <4>2, <4>3
    <3>7. CASE i = 9
      <4>1. 700 \in Uint16 /\ 1350 \in Uint16
        BY InUint16
      <4>2. [init |-> 1350, open |-> 700, close |-> 1350] \in [Setting -> Uint16]
        BY <4>1 DEF Setting
      <4>3. sd21[i] = [init |-> 1350, open |-> 700, close |-> 1350]
        BY <3>7 DEF sd21
      <4> QED
        BY <4>2, <4>3
    <3>8. CASE i = 10
      <4>1. 875 \in Uint16 /\ 1500 \in Uint16
        BY InUint16
      <4>2. [init |-> 875, open |-> 1500, close |-> 875] \in [Setting -> Uint16]
        BY <4>1 DEF Setting
      <4>3. sd21[i] = [init |-> 875, open |-> 1500, close |-> 875]
        BY <3>8 DEF sd21
      <4> QED
        BY <4>2, <4>3
    <3> QED
      BY <3>1, <3>2, <3>3, <3>4, <3>5, <3>6, <3>7, <3>8
  <2> QED
    BY <2>1, FittedFacts DEF ServosInit
<1>2. ServosTypeOK
  <2>1. /\ servo_id \in Servo /\ servo_setting \in Setting
        /\ calls \in 0..MaxCalls /\ troubles \in 0..MaxTroubles
    BY FittedFacts, ServoBoundsAssumption
       DEF ServosInit, Setting, ServoBoundsAssumption
  <2>2. jobs \in [Caller -> SUBSET (Servo \X Uint16)]
    BY DEF ServosInit
  <2>3. twi_pc \in [Caller -> {"idle", "addr", "addr_wait", "reg", "reg_wait",
                               "val", "val_wait", "stop"}]
    BY DEF ServosInit
  <2>4. twi_part \in [Caller -> 0..2]
    BY DEF ServosInit
  <2>5. card_regs \in [0..(3 * servos_nb - 1) -> Uint8]
    <3>1. 0 \in Uint8
      BY DEF Uint8
    <3> QED
      BY <3>1 DEF ServosInit
  <2>6. pointer \in {-2, -1} \cup Uint8 /\ owned \in BOOLEAN
    BY DEF ServosInit
  <2>8. wire \in Bytes
    BY Zenon DEF ServosInit, Bytes
  <2>7. solo \subseteq Caller /\ sent \in {None} \cup (Servo \X Uint16)
    BY DEF ServosInit
  <2> QED
    BY <1>1, <2>1, <2>2, <2>3, <2>4, <2>5, <2>6, <2>7, <2>8, Zenon
       DEF ServosTypeOK
<1>3. Busy /\ (\A t \in solo : Undisturbed(t)) /\ Kept
  BY DEF ServosInit, Busy, Kept
<1> QED
  BY <1>2, <1>3 DEF ServosInv

Locations == {"idle", "addr", "addr_wait", "reg", "reg_wait", "val", "val_wait", "stop"}

\* What the type invariant says of the bus and of the tasks on it.
LEMMA BusTypes ==
  ASSUME ServosTypeOK
  PROVE  /\ jobs \in [Caller -> SUBSET (Servo \X Uint16)]
         /\ twi_pc \in [Caller -> Locations] /\ twi_part \in [Caller -> 0..2]
         /\ wire \in Bytes /\ pointer \in {-2, -1} \cup Uint8
         /\ card_regs \in [0..(3 * servos_nb - 1) -> Uint8]
         /\ calls \in Int /\ troubles \in Int
         /\ calls \in 0..MaxCalls /\ troubles \in 0..MaxTroubles
<1>1. /\ calls \in 0..MaxCalls /\ troubles \in 0..MaxTroubles
      /\ MaxCalls \in Nat /\ MaxTroubles \in Nat
  BY ServoBoundsAssumption DEF ServosTypeOK, ServoBoundsAssumption
<1>2. calls \in Int /\ troubles \in Int
  BY <1>1
<1> QED
  BY <1>1, <1>2 DEF ServosTypeOK, Locations

\* Callers: what Begin does to the types.
LEMMA BeginTypes ==
  ASSUME ServosTypeOK, NEW t \in Caller, NEW C \in SUBSET (Servo \X Uint16),
         Begin(t, C),
         value' \in [Servo -> [Setting -> Uint16]],
         servo_id' \in Servo, servo_setting' \in Setting
  PROVE  ServosTypeOK'
<1>1. jobs' \in [Caller -> SUBSET (Servo \X Uint16)]
  BY BusTypes DEF Begin
<1>2. twi_pc' \in [Caller -> Locations]
  BY BusTypes DEF Begin, Locations
<1>3. calls' \in 0..MaxCalls
  <2>1. calls' = calls + 1 /\ calls < MaxCalls /\ MaxCalls \in Nat
    BY ServoBoundsAssumption DEF Begin, ServoBoundsAssumption
  <2> QED
    BY <2>1, BusTypes
<1>4. troubles' \in 0..MaxTroubles
  <2>1. /\ troubles' \in {troubles + 1, troubles + 0} /\ troubles' <= MaxTroubles
        /\ MaxTroubles \in Nat
    BY ServoBoundsAssumption DEF Begin, ServoBoundsAssumption
  <2> QED
    BY <2>1, BusTypes
<1>5. UNCHANGED <<twi_part, owned, wire, pointer, card_regs, solo, sent>>
  BY DEF Begin, bus
<1> QED
  BY <1>1, <1>2, <1>3, <1>4, <1>5 DEF ServosTypeOK, Locations

LEMMA BeginKeeps ==
  ASSUME ServosInv, NEW t \in Caller, NEW C, Begin(t, C)
  PROVE  Busy' /\ (\A u \in solo' : Undisturbed(u)') /\ Kept'
<1>1. UNCHANGED <<twi_part, owned, wire, pointer, card_regs, solo, sent>>
  BY DEF Begin, bus
<1>2. ASSUME NEW u \in solo PROVE Undisturbed(u)'
  <2>1. Undisturbed(u) /\ u \in Caller
    BY DEF ServosInv, ServosTypeOK
  <2>2. u # t
    BY <2>1 DEF Undisturbed, Begin
  <2>3. jobs'[u] = jobs[u] /\ twi_pc'[u] = twi_pc[u]
    BY <2>1, <2>2, BusTypes DEF Begin, ServosInv
  <2>4. Command(u)' = Command(u)
    BY <2>3 DEF Command
  <2>5. Register(u)' = Register(u)
    BY <1>1, <2>4 DEF Register
  <2> QED
    BY <1>1, <2>1, <2>3, <2>4, <2>5 DEF Undisturbed, Delivered
<1>3. Kept'
  BY <1>1 DEF ServosInv, Kept, Delivered
<1>4. Busy'
  <2>1. /\ jobs' = [jobs EXCEPT ![t] = C]
        /\ twi_pc' = [twi_pc EXCEPT ![t] = IF C = {} THEN "idle" ELSE "addr"]
    BY DEF Begin
  <2> QED
    BY <2>1, BusTypes DEF Busy, ServosInv
<1> QED
  BY <1>1, <1>2, <1>3, <1>4

\* The settings that '+', '-' and 'r' give are 16-bit values.
LEMMA Settings ==
  /\ CAL_RST \in Uint16
  /\ \A v \in Uint16 : Raised(v) \in Uint16 /\ Lowered(v) \in Uint16
<1>1. CAL_RST \in Uint16 /\ CAL_MAX \in Uint16 /\ CAL_MIN \in Uint16
  BY InUint16 DEF CAL_RST, CAL_MAX, CAL_MIN
<1>2. \A n \in Int : n % 65536 \in Uint16
  <2> TAKE n \in Int
  <2>1. n % 65536 \in Int /\ 0 <= n % 65536 /\ n % 65536 <= 65535
    OBVIOUS
  <2> QED
    BY <2>1, InUint16
<1>3. ASSUME NEW v \in Uint16 PROVE Raised(v) \in Uint16 /\ Lowered(v) \in Uint16
  <2>1. v \in Int
    BY IntegerUint16
  <2>2. (v + 25) % 65536 \in Uint16 /\ (v + 65536 - 25) % 65536 \in Uint16
    BY <1>2, <2>1
  <2> QED
    BY <1>1, <2>2 DEF Raised, Lowered
<1> QED
  BY <1>1, <1>3

LEMMA CallersKeepInv ==
  ASSUME ServosInv, sd21_control_servo \/ servo_select \/ key_tune \/ key_all
  PROVE  ServosInv'
<1> USE DEF settings
<1>0. /\ ServosTypeOK /\ "EVNT" \in Caller /\ "CALIB" \in Caller
      /\ value \in [Servo -> [Setting -> Uint16]] /\ servo_id \in Servo
      /\ servo_setting \in Setting /\ {"open", "close"} \subseteq Setting
  BY DEF ServosInv, ServosTypeOK, Caller, Setting
<1>1. CASE sd21_control_servo
  <2>1. PICK s \in Servo, k \in {"open", "close"} :
           Begin("EVNT", {<<s, value[s][k]>>}) /\ UNCHANGED settings
    BY <1>1 DEF sd21_control_servo
  <2>2. {<<s, value[s][k]>>} \in SUBSET (Servo \X Uint16)
    BY <1>0
  <2>3. ServosTypeOK'
    BY <1>0, <2>1, <2>2, BeginTypes
  <2> QED
    BY <1>0, <2>1, <2>3, BeginKeeps DEF ServosInv
<1>2. CASE servo_select
  <2>1. servo_id' \in Servo /\ servo_setting' \in Setting /\ value' = value
    <3>1. servos_nb \in Nat /\ servos_nb >= 1 /\ servo_id \in 0..(servos_nb - 1)
      BY <1>0, FittedFacts DEF Servo
    <3>2. (servo_id + 1) % servos_nb \in 0..(servos_nb - 1)
      BY <3>1
    <3>3. (IF servo_id > 0 THEN servo_id - 1 ELSE servos_nb - 1) \in 0..(servos_nb - 1)
      BY <3>1
    <3> QED
      BY <1>0, <1>2, <3>2, <3>3 DEF servo_select, Servo, Setting
  <2>2. Begin("CALIB", {}) /\ {} \in SUBSET (Servo \X Uint16)
    BY <1>2 DEF servo_select
  <2>3. ServosTypeOK'
    BY <1>0, <2>1, <2>2, BeginTypes
  <2> QED
    BY <1>0, <2>2, <2>3, BeginKeeps DEF ServosInv
<1>3. CASE key_tune
  <2>1. PICK v \in { CAL_RST, Raised(value[servo_id][servo_setting]),
                    Lowered(value[servo_id][servo_setting]) } :
           /\ value' = [value EXCEPT ![servo_id][servo_setting] = v]
           /\ Begin("CALIB", {<<servo_id, v>>})
           /\ UNCHANGED <<servo_id, servo_setting>>
    BY <1>3 DEF key_tune
  <2>2. v \in Uint16
    <3>1. value[servo_id][servo_setting] \in Uint16
      BY <1>0
    <3> QED
      BY <2>1, <3>1, Settings
  <2>3. value' \in [Servo -> [Setting -> Uint16]]
    BY <1>0, <2>1, <2>2
  <2>4. {<<servo_id, v>>} \in SUBSET (Servo \X Uint16)
    BY <1>0, <2>2
  <2>5. ServosTypeOK'
    BY <1>0, <2>1, <2>3, <2>4, BeginTypes
  <2> QED
    BY <1>0, <2>1, <2>5, BeginKeeps DEF ServosInv
<1>4. CASE key_all
  <2>1. PICK k \in {"open", "close"} :
           /\ Begin("CALIB", { <<s, value[s][k]>> : s \in { s \in Servo : value[s][k] # 0 } })
           /\ UNCHANGED settings
    BY <1>4 DEF key_all
  <2>2. { <<s, value[s][k]>> : s \in { s \in Servo : value[s][k] # 0 } }
          \in SUBSET (Servo \X Uint16)
    BY <1>0
  <2>3. ServosTypeOK'
    BY <1>0, <2>1, <2>2, BeginTypes
  <2> QED
    BY <1>0, <2>1, <2>3, BeginKeeps DEF ServosInv
<1> QED
  BY <1>1, <1>2, <1>3, <1>4

-----------------------------------------------------------------------------
\* What the card's reception of a byte does to the types.
LEMMA TakeTypes ==
  ASSUME ServosTypeOK, NEW b \in Bytes \ {None}, Take(b)
  PROVE  /\ owned' \in BOOLEAN
         /\ pointer' \in {-2, -1} \cup Uint8
         /\ card_regs' \in [0..(3 * servos_nb - 1) -> Uint8]
<1>1. owned' \in BOOLEAN
  BY DEF Take
<1>2. CASE b = <<"addr">>
  BY <1>1, <1>2, BusTypes DEF Take
<1>3. CASE b # <<"addr">>
  <2>1. PICK n \in Uint8 : b = <<"data", n>>
    BY <1>3 DEF Bytes
  <2>2. b[2] = n
    BY <2>1
  <2>3. /\ pointer' = CASE pointer = -2 -> -2
                        [] pointer = -1 -> n
                        [] OTHER -> (pointer + 1) % 256
        /\ card_regs' = IF pointer \in DOMAIN card_regs
                        THEN [card_regs EXCEPT ![pointer] = n] ELSE card_regs
    BY <1>3, <2>2 DEF Take
  <2>4. \A p \in Uint8 : (p + 1) % 256 \in Uint8
    BY DEF Uint8
  <2>5. pointer' \in {-2, -1} \cup Uint8
    BY <2>3, <2>4, BusTypes
  <2>6. card_regs' \in [0..(3 * servos_nb - 1) -> Uint8]
    BY <2>3, BusTypes
  <2> QED
    BY <1>1, <2>5, <2>6
<1> QED
  BY <1>2, <1>3

\* The tasks' own state, which is all that a step of one changes of it.
TaskTypes ==
    /\ jobs \in [Caller -> SUBSET (Servo \X Uint16)]
    /\ twi_pc \in [Caller -> Locations] /\ twi_part \in [Caller -> 0..2]

LEMMA ProceedTypes ==
  ASSUME ServosTypeOK, Busy, NEW t \in Caller, NEW l \in Locations \ {"idle"},
         twi_pc[t] # "idle", Proceed(t, l)
  PROVE  TaskTypes' /\ Busy' /\ twi_pc'[t] = l
<1>1. /\ twi_pc' = [twi_pc EXCEPT ![t] = l]
      /\ UNCHANGED <<jobs, twi_part>>
  BY DEF Proceed
<1> QED
  BY <1>1, BusTypes DEF TaskTypes, Busy

LEMMA NextWriteTypes ==
  ASSUME ServosTypeOK, Busy, NEW t \in Caller, twi_pc[t] # "idle", Next_write(t)
  PROVE  TaskTypes' /\ Busy'
<1>1. CASE twi_part[t] < 2
  <2>1. /\ twi_part' = [twi_part EXCEPT ![t] = @ + 1]
        /\ twi_pc' = [twi_pc EXCEPT ![t] = "addr"]
        /\ UNCHANGED jobs
    BY <1>1 DEF Next_write
  <2>2. twi_part[t] + 1 \in 0..2
    BY <1>1, BusTypes
  <2> QED
    BY <2>1, <2>2, BusTypes DEF TaskTypes, Busy, Locations
<1>2. CASE ~(twi_part[t] < 2)
  <2>1. /\ twi_part' = [twi_part EXCEPT ![t] = 0]
        /\ jobs' = [jobs EXCEPT ![t] = @ \ {Command(t)}]
        /\ twi_pc' = [twi_pc EXCEPT ![t] = IF jobs'[t] # {} THEN "addr" ELSE "idle"]
    BY <1>2 DEF Next_write
  <2>2. jobs[t] \ {Command(t)} \in SUBSET (Servo \X Uint16)
    BY BusTypes
  <2>3. jobs' \in [Caller -> SUBSET (Servo \X Uint16)]
    BY <2>1, <2>2, BusTypes
  <2>4. twi_pc' \in [Caller -> Locations]
    BY <2>1, BusTypes DEF Locations
  <2>5. twi_part' \in [Caller -> 0..2]
    BY <2>1, BusTypes
  <2>6. Busy'
    BY <2>1, BusTypes DEF Busy
  <2> QED
    BY <2>3, <2>4, <2>5, <2>6 DEF TaskTypes
<1> QED
  BY <1>1, <1>2

\* Under a fault, or with a byte on its way, nothing is claimed undisturbed.
LEMMA FaultKeeps ==
  ASSUME ServosTypeOK, Fault
  PROVE  /\ troubles' \in 0..MaxTroubles /\ solo' = {} /\ sent' = None
         /\ (\A u \in solo' : Undisturbed(u)') /\ Kept'
<1>1. troubles < MaxTroubles /\ troubles' = troubles + 1 /\ solo' = {} /\ sent' = None
  BY DEF Fault
<1>2. troubles' \in 0..MaxTroubles
  BY <1>1, BusTypes, ServoBoundsAssumption DEF ServoBoundsAssumption
<1> QED
  BY <1>1, <1>2 DEF Kept

\* The parts of the type invariant put together behind a step on the bus.
LEMMA BusStepTypes ==
  ASSUME ServosTypeOK, UNCHANGED settings, UNCHANGED calls, TaskTypes',
         troubles' \in 0..MaxTroubles, owned' \in BOOLEAN, wire' \in Bytes,
         pointer' \in {-2, -1} \cup Uint8,
         card_regs' \in [0..(3 * servos_nb - 1) -> Uint8],
         solo' \subseteq Caller, sent' \in {None} \cup (Servo \X Uint16)
  PROVE  ServosTypeOK'
<1>1. UNCHANGED <<value, servo_id, servo_setting>>
  BY DEF settings
<1> QED
  BY <1>1 DEF ServosTypeOK, TaskTypes, Locations

\* One byte of an undisturbed command, or of one that begins on a bus where
\* no byte is held back.
LEMMA ByteArrives ==
  ASSUME ServosInv, NEW t \in Caller, twi_pc[t] \in {"addr", "reg", "val"},
         write_byte(t, Out(t)), t \in solo'
  PROVE  Undisturbed(t)'
<1>1. /\ ServosTypeOK /\ jobs[t] # {}
  BY DEF ServosInv, Busy
<1>2. /\ twi_pc' = [twi_pc EXCEPT ![t] = Behind(twi_pc[t])]
      /\ jobs' = jobs /\ twi_part' = twi_part
  BY DEF write_byte, Proceed
<1>3. Command(t)' = Command(t) /\ Register(t)' = Register(t)
  BY <1>2 DEF Register, Command
<1>4. \/ twi_pc[t] = "addr" /\ twi_part[t] = 0 /\ wire = None
      \/ Undisturbed(t)
  BY DEF write_byte, Touch, ServosInv
<1>5. /\ wire = None
      /\ twi_pc[t] \in {"reg", "val"} => owned /\ Undisturbed(t)
      /\ Delivered(Command(t), twi_part[t])
  BY <1>4 DEF Undisturbed, Delivered
<1>6. /\ Take(Out(t)) /\ wire' = None /\ owned'
  <2>1. Out(t) = <<"addr">> \/ (owned /\ wire = None)
    BY <1>1, <1>5, OutFacts
  <2> QED
    BY <2>1 DEF write_byte, Take
<1>7. CASE twi_pc[t] = "addr"
  <2>1. twi_pc'[t] = "reg"
    BY <1>1, <1>2, <1>7, BusTypes DEF Behind
  <2>2. pointer' = -1 /\ card_regs' = card_regs
    BY <1>1, <1>6, <1>7, OutFacts DEF Take
  <2>3. Delivered(Command(t), twi_part[t])'
    BY <1>2, <1>3, <1>5, <2>2 DEF Delivered
  <2> QED
    BY <1>6, <2>1, <2>2, <2>3 DEF Undisturbed
<1>8. CASE twi_pc[t] = "reg"
  <2>1. twi_pc'[t] = "val"
    BY <1>1, <1>2, <1>8, BusTypes DEF Behind
  <2>2. pointer = -1
    BY <1>5, <1>8 DEF Undisturbed
  <2>3. Out(t) = <<"data", Register(t)>>
    BY <1>1, <1>8, OutFacts
  <2>4. pointer \notin DOMAIN card_regs
    BY <1>1, <2>2, BusTypes
  <2>5. pointer' = Register(t) /\ card_regs' = card_regs
    BY <1>6, <2>2, <2>3, <2>4 DEF Take
  <2>6. Delivered(Command(t), twi_part[t])'
    BY <1>2, <1>3, <1>5, <2>5 DEF Delivered
  <2> QED
    BY <1>3, <1>6, <2>1, <2>5, <2>6 DEF Undisturbed
<1>9. CASE twi_pc[t] = "val"
  <2>1. twi_pc'[t] = "stop"
    BY <1>1, <1>2, <1>9, BusTypes DEF Behind
  <2>2. pointer = Register(t)
    BY <1>5, <1>9 DEF Undisturbed
  <2> DEFINE c == Command(t)
             n == twi_part[t]
  <2>3. Out(t) = <<"data", DataByte(c, n)>> /\ Register(t) \in DOMAIN card_regs
    BY <1>1, <1>9, OutFacts, BusTypes
  <2>4. card_regs' = [card_regs EXCEPT ![Register(t)] = DataByte(c, n)]
    BY <1>6, <2>2, <2>3 DEF Take
  <2>5. n \in 0..2 /\ c[1] \in Int /\ Register(t) = 3 * c[1] + n
    BY <1>1, BusTypes, CommandFacts, FittedFacts DEF Register
  <2>6. ASSUME NEW j \in 0..2, j < n + 1
        PROVE  card_regs'[3 * c[1] + j] = DataByte(c, j)
    <3>1. CASE j = n
      BY <2>3, <2>4, <2>5, <3>1
    <3>2. CASE j # n
      <4>1. j < n /\ 3 * c[1] + j # Register(t)
        BY <2>5, <2>6, <3>2
      <4>2. card_regs[3 * c[1] + j] = DataByte(c, j)
        BY <1>5, <4>1 DEF Delivered
      <4>3. card_regs'[3 * c[1] + j] = card_regs[3 * c[1] + j]
        BY <2>4, <4>1, <1>1, BusTypes
      <4> QED
        BY <4>2, <4>3
    <3> QED
      BY <3>1, <3>2
  <2>7. Delivered(c, n + 1)'
    BY <1>2, <1>3, <2>6 DEF Delivered
  <2> QED
    BY <1>6, <2>1, <2>7 DEF Undisturbed
<1> QED
  BY <1>7, <1>8, <1>9

LEMMA WriteKeepsInv ==
  ASSUME ServosInv, NEW t \in Caller, twi_write(t)
  PROVE  ServosInv'
<1>1. /\ twi_pc[t] \in {"addr", "reg", "val"} /\ twi_pc[t] # "idle"
      /\ ServosTypeOK /\ Busy /\ jobs[t] # {}
  BY DEF ServosInv, twi_write, Busy
<1>2. Out(t) \in Bytes \ {None}
  BY <1>1, OutFacts
<1>3. None \in Bytes
  BY Zenon DEF Bytes
<1>4. CASE write_byte(t, Out(t))
  <2>1. /\ Proceed(t, Behind(twi_pc[t])) /\ Touch(t)
        /\ UNCHANGED settings /\ UNCHANGED calls /\ UNCHANGED troubles
    BY <1>4 DEF write_byte
  <2>2. Behind(twi_pc[t]) \in Locations \ {"idle"}
    BY <1>1 DEF Behind, Locations
  <2>3. TaskTypes' /\ Busy'
    BY <1>1, <2>1, <2>2, ProceedTypes
  <2>4. solo' \subseteq {t} /\ sent' = None
    BY <2>1 DEF Touch
  <2>5. /\ owned' \in BOOLEAN /\ wire' \in Bytes
        /\ pointer' \in {-2, -1} \cup Uint8
        /\ card_regs' \in [0..(3 * servos_nb - 1) -> Uint8]
    <3>1. CASE Take(Out(t)) /\ wire' = None
      BY <1>1, <1>2, <1>3, <3>1, TakeTypes
    <3>2. CASE UNCHANGED bus
      BY <1>1, <3>2 DEF bus, ServosTypeOK
    <3> QED
      BY <1>4, <3>1, <3>2 DEF write_byte
  <2>6. troubles' \in 0..MaxTroubles
    BY <1>1, <2>1, BusTypes
  <2>7. ServosTypeOK'
    BY <1>1, <2>1, <2>3, <2>4, <2>5, <2>6, BusStepTypes
  <2>8. \A u \in solo' : Undisturbed(u)'
    BY <1>1, <1>4, <2>4, ByteArrives
  <2>9. Kept'
    BY <2>4 DEF Kept
  <2> QED
    BY <2>3, <2>7, <2>8, <2>9 DEF ServosInv
<1>5. CASE write_byte_held(t, Out(t))
  <2> DEFINE l == CASE twi_pc[t] = "addr" -> "addr_wait"
                    [] twi_pc[t] = "reg"  -> "reg_wait"
                    [] twi_pc[t] = "val"  -> "val_wait"
  <2>1. /\ Fault /\ wire' = Out(t) /\ Proceed(t, l)
        /\ UNCHANGED settings /\ UNCHANGED <<owned, pointer, card_regs, calls>>
    BY <1>5 DEF write_byte_held
  <2>2. l \in Locations \ {"idle"}
    BY <1>1 DEF Locations
  <2>3. TaskTypes' /\ Busy'
    <3> HIDE DEF l
    <3> QED
      BY <1>1, <2>1, <2>2, ProceedTypes
  <2>4. /\ troubles' \in 0..MaxTroubles /\ solo' = {} /\ sent' = None
        /\ (\A u \in solo' : Undisturbed(u)') /\ Kept'
    BY <1>1, <2>1, FaultKeeps
  <2>5. /\ owned' \in BOOLEAN /\ wire' \in Bytes
        /\ pointer' \in {-2, -1} \cup Uint8
        /\ card_regs' \in [0..(3 * servos_nb - 1) -> Uint8]
    BY <1>1, <1>2, <2>1 DEF ServosTypeOK
  <2>6. ServosTypeOK'
    BY <1>1, <2>1, <2>3, <2>4, <2>5, BusStepTypes
  <2> QED
    BY <2>3, <2>4, <2>6 DEF ServosInv
<1>6. CASE write_addr_nack(t)
  <2>1. /\ Fault /\ owned' = TRUE /\ wire' = None /\ pointer' = -2
        /\ Proceed(t, "reg")
        /\ UNCHANGED settings /\ UNCHANGED <<card_regs, calls>>
    BY <1>6 DEF write_addr_nack
  <2>2. TaskTypes' /\ Busy'
    BY <1>1, <2>1, ProceedTypes DEF Locations
  <2>3. /\ troubles' \in 0..MaxTroubles /\ solo' = {} /\ sent' = None
        /\ (\A u \in solo' : Undisturbed(u)') /\ Kept'
    BY <1>1, <2>1, FaultKeeps
  <2>4. card_regs' \in [0..(3 * servos_nb - 1) -> Uint8]
    BY <1>1, <2>1, BusTypes
  <2>5. ServosTypeOK'
    BY <1>1, <1>3, <2>1, <2>2, <2>3, <2>4, BusStepTypes
  <2> QED
    BY <2>2, <2>3, <2>5 DEF ServosInv
<1>7. CASE write_byte_last_poll(t, Out(t))
  <2>1. /\ Fault /\ Take(Out(t)) /\ wire' = None /\ Next_write(t)
        /\ UNCHANGED settings /\ UNCHANGED calls
    BY <1>7 DEF write_byte_last_poll
  <2>2. TaskTypes' /\ Busy'
    BY <1>1, <2>1, NextWriteTypes
  <2>3. /\ troubles' \in 0..MaxTroubles /\ solo' = {} /\ sent' = None
        /\ (\A u \in solo' : Undisturbed(u)') /\ Kept'
    BY <1>1, <2>1, FaultKeeps
  <2>4. /\ owned' \in BOOLEAN
        /\ pointer' \in {-2, -1} \cup Uint8
        /\ card_regs' \in [0..(3 * servos_nb - 1) -> Uint8]
    BY <1>1, <1>2, <2>1, TakeTypes
  <2>5. ServosTypeOK'
    BY <1>1, <1>3, <2>1, <2>2, <2>3, <2>4, BusStepTypes
  <2> QED
    BY <2>2, <2>3, <2>5 DEF ServosInv
<1> QED
  BY <1>4, <1>5, <1>6, <1>7 DEF twi_write

LEMMA WaitKeepsInv ==
  ASSUME ServosInv, NEW t \in Caller, twi_wait_wif(t)
  PROVE  ServosInv'
<1> DEFINE l == CASE twi_pc[t] = "addr_wait" -> "reg"
                  [] twi_pc[t] = "reg_wait"  -> "val"
                  [] twi_pc[t] = "val_wait"  -> "stop"
<1>1. /\ twi_pc[t] \in {"addr_wait", "reg_wait", "val_wait"}
      /\ Proceed(t, l) /\ Touch(t)
      /\ UNCHANGED settings /\ UNCHANGED bus /\ UNCHANGED <<calls, troubles>>
  BY DEF twi_wait_wif
<1>2. ServosTypeOK /\ Busy /\ l \in Locations \ {"idle"} /\ twi_pc[t] # "idle"
  BY <1>1 DEF ServosInv, Locations
<1>3. TaskTypes' /\ Busy'
  <2> HIDE DEF l
  <2> QED
    BY <1>1, <1>2, ProceedTypes
<1>4. solo' = {} /\ sent' = None
  <2>1. t \notin solo
    BY <1>1 DEF ServosInv, Undisturbed
  <2>2. solo' = solo \cap {t} /\ sent' = None
    BY <1>1 DEF Touch
  <2> QED
    BY <2>1, <2>2
<1>5. /\ owned' \in BOOLEAN /\ wire' \in Bytes
      /\ pointer' \in {-2, -1} \cup Uint8
      /\ card_regs' \in [0..(3 * servos_nb - 1) -> Uint8]
  BY <1>1, <1>2 DEF bus, ServosTypeOK
<1>6. troubles' \in 0..MaxTroubles
  BY <1>1, <1>2, BusTypes
<1>7. ServosTypeOK'
  BY <1>1, <1>2, <1>3, <1>4, <1>5, <1>6, BusStepTypes
<1> QED
  BY <1>3, <1>4, <1>7 DEF ServosInv, Kept

LEMMA LateKeepsInv ==
  ASSUME ServosInv, Late
  PROVE  ServosInv'
<1>1. /\ wire # None /\ Take(wire) /\ wire' = None
      /\ UNCHANGED settings
      /\ UNCHANGED <<jobs, twi_pc, twi_part, calls, troubles, solo, sent>>
  BY DEF Late
<1>2. ServosTypeOK /\ Busy /\ None \in Bytes
  BY Zenon DEF ServosInv, Bytes
<1>3. solo' = {} /\ sent' = None
  BY <1>1 DEF ServosInv, Undisturbed, Kept
<1>4. TaskTypes' /\ Busy'
  BY <1>1, <1>2, BusTypes DEF TaskTypes, Busy
<1>5. /\ owned' \in BOOLEAN
      /\ pointer' \in {-2, -1} \cup Uint8
      /\ card_regs' \in [0..(3 * servos_nb - 1) -> Uint8]
  BY <1>1, <1>2, BusTypes, TakeTypes
<1>6. troubles' \in 0..MaxTroubles
  BY <1>1, <1>2, BusTypes
<1>7. ServosTypeOK'
  BY <1>1, <1>2, <1>3, <1>4, <1>5, <1>6, BusStepTypes
<1> QED
  BY <1>3, <1>4, <1>7 DEF ServosInv, Kept

LEMMA StopKeepsInv ==
  ASSUME ServosInv, NEW t \in Caller, write_stop(t)
  PROVE  ServosInv'
<1>1. /\ twi_pc[t] = "stop" /\ Next_write(t)
      /\ owned' = FALSE /\ wire' = None /\ pointer' = -2
      /\ UNCHANGED settings /\ UNCHANGED <<card_regs, calls, troubles>>
  BY DEF write_stop
<1>2. /\ ServosTypeOK /\ Busy /\ twi_pc[t] # "idle" /\ jobs[t] # {}
      /\ None \in Bytes
  BY <1>1, Zenon DEF ServosInv, Busy, Bytes
<1>3. TaskTypes' /\ Busy'
  BY <1>1, <1>2, NextWriteTypes
<1>4. Command(t) \in Servo \X Uint16 /\ twi_part[t] \in 0..2
  BY <1>2, CommandFacts, BusTypes
<1>5. /\ solo' = IF twi_part[t] = 2 THEN {} ELSE solo \cap {t}
      /\ sent' = IF twi_part[t] = 2 /\ t \in solo THEN Command(t) ELSE None
  BY DEF write_stop
<1>6. t \in solo => Delivered(Command(t), twi_part[t] + 1)
  BY <1>1 DEF ServosInv, Undisturbed
<1>7. ServosTypeOK'
  <2>1. solo' \subseteq Caller /\ sent' \in {None} \cup (Servo \X Uint16)
    BY <1>4, <1>5
  <2>2. /\ troubles' \in 0..MaxTroubles
        /\ card_regs' \in [0..(3 * servos_nb - 1) -> Uint8]
    BY <1>1, <1>2, BusTypes
  <2> QED
    BY <1>1, <1>2, <1>3, <2>1, <2>2, BusStepTypes
<1>8. ASSUME NEW u \in solo' PROVE Undisturbed(u)'
  <2>1. u = t /\ t \in solo /\ twi_part[t] < 2
    BY <1>4, <1>5
  <2>2. /\ twi_part' = [twi_part EXCEPT ![t] = @ + 1]
        /\ twi_pc' = [twi_pc EXCEPT ![t] = "addr"]
        /\ jobs' = jobs
    BY <1>1, <2>1 DEF Next_write
  <2>3. /\ twi_pc'[t] = "addr" /\ twi_part'[t] = twi_part[t] + 1
        /\ Command(t)' = Command(t)
    BY <1>2, <2>2, BusTypes DEF Command
  <2>4. Delivered(Command(t), twi_part[t])'
    BY <1>1, <1>6, <2>1, <2>3 DEF Delivered
  <2> QED
    BY <1>1, <1>4, <2>1, <2>3, <2>4 DEF Undisturbed
<1>9. Kept'
  <2>1. CASE twi_part[t] = 2 /\ t \in solo
    <3>1. sent' = Command(t) /\ Delivered(Command(t), 3)
      BY <1>5, <1>6, <2>1
    <3>2. Delivered(sent, 3)'
      BY <1>1, <3>1 DEF Delivered
    <3> QED
      BY <1>1, <1>4, <3>1, <3>2 DEF Kept
  <2>2. CASE ~(twi_part[t] = 2 /\ t \in solo)
    BY <1>5, <2>2 DEF Kept
  <2> QED
    BY <2>1, <2>2
<1> QED
  BY <1>3, <1>7, <1>8, <1>9 DEF ServosInv

LEMMA NextKeepsServosInv ==
  ASSUME ServosInv, [ServosNext]_servoVars
  PROVE  ServosInv'
<1>1. CASE sd21_control_servo \/ servo_select \/ key_tune \/ key_all
  BY <1>1, CallersKeepInv
<1>2. ASSUME NEW t \in Caller, Step(t) PROVE ServosInv'
  BY <1>2, WriteKeepsInv, WaitKeepsInv, StopKeepsInv DEF Step
<1>3. CASE Late
  BY <1>3, LateKeepsInv
<1>4. CASE UNCHANGED servoVars
  <2>1. /\ UNCHANGED <<value, servo_id, servo_setting, jobs, twi_pc, twi_part>>
        /\ UNCHANGED <<owned, wire, pointer, card_regs, calls, troubles, solo, sent>>
    BY <1>4 DEF servoVars, settings, bus
  <2>2. ServosTypeOK'
    BY <2>1 DEF ServosInv, ServosTypeOK
  <2>3. \A t : Command(t)' = Command(t) /\ Register(t)' = Register(t)
    BY <2>1 DEF Command, Register
  <2>4. \A t \in solo : Undisturbed(t)'
    BY <2>1, <2>3 DEF ServosInv, Undisturbed, Delivered
  <2>5. Busy' /\ Kept'
    BY <2>1 DEF ServosInv, Busy, Kept, Delivered
  <2> QED
    BY <2>1, <2>2, <2>4, <2>5 DEF ServosInv
<1> QED
  BY <1>1, <1>2, <1>3, <1>4 DEF ServosNext

LEMMA ServosInvariant == ServosSpec => []ServosInv
<1>1. ServosInv /\ [ServosNext]_servoVars => ServosInv'
  BY NextKeepsServosInv
<1> QED
  BY InitServosInv, <1>1, PTL DEF ServosSpec

\* Whatever the two tasks, the card and the faults of the bus do, the menu's
\* servo is one of the machine, its settings fit their 16 bits and the state
\* of twi_write and of the card has its type.
THEOREM ServosTypeCorrect == ServosSpec => []ServosTypeOK
<1>1. ServosInv => ServosTypeOK
  BY DEF ServosInv
<1> QED
  BY <1>1, ServosInvariant, PTL

LEMMA WholeCommand == ServosInv => CommandIsWhole
<1> SUFFICES ASSUME ServosInv, sent # None PROVE
      /\ card_regs[3 * sent[1]] = 0
      /\ card_regs[3 * sent[1] + 1] + 256 * card_regs[3 * sent[1] + 2] = sent[2]
  BY DEF CommandIsWhole
<1>1. sent \in Servo \X Uint16 /\ Delivered(sent, 3)
  BY DEF ServosInv, Kept
<1>2. sent[1] \in Int /\ sent[2] \in Uint16
  BY <1>1, FittedFacts
<1>3. /\ card_regs[3 * sent[1] + 0] = DataByte(sent, 0)
      /\ card_regs[3 * sent[1] + 1] = DataByte(sent, 1)
      /\ card_regs[3 * sent[1] + 2] = DataByte(sent, 2)
  BY <1>1 DEF Delivered
<1>4. /\ card_regs[3 * sent[1]] = 0
      /\ card_regs[3 * sent[1] + 1] = sent[2] % 256
      /\ card_regs[3 * sent[1] + 2] = sent[2] \div 256
  BY <1>2, <1>3 DEF DataByte
<1> QED
  BY <1>2, <1>4, Bytewise

\* A command of sd21_send_twi_cmd that no other task and no fault has disturbed
\* has left 0 and the two bytes of the position in the card's registers of its
\* servo: for any servos fitted and any number of commands and faults before.
THEOREM CommandsArriveWhole == ServosSpec => []CommandIsWhole
<1>1. ServosInv => CommandIsWhole
  BY WholeCommand
<1> QED
  BY <1>1, ServosInvariant, PTL
=============================================================================
