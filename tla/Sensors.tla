------------------------------ MODULE Sensors ------------------------------
(***************************************************************************)
(* The infra-red sensors of the cortex machine: the chain of conversions   *)
(* on one ADC channel (drivers/sensors/analog_sensor.c, arch/xmega/adc.c), *)
(* started by the controller after each of its turns and carried on by the *)
(* conversion interrupt, the averages it keeps and the verdict the planner *)
(* asks for.                                                               *)
(*                                                                         *)
(* A refresh may find the chain of the last one still running.  What the   *)
(* sensors see changes and such overlaps happen MaxEvents times.           *)
(***************************************************************************)
EXTENDS Integers, Sequences

CONSTANTS Used,        \* the entries of the machine's table that are fitted
          Sights,      \* raw values a sensor may deliver
          MaxEvents

RawValue == 0..255

\* The machine's table has eight entries; a sample is a byte.
ASSUME SensorsAssumption ==
    /\ Used \in Seq(0..7) /\ Used # <<>>
    /\ Sights \subseteq RawValue
    /\ MaxEvents \in Nat

\* The machine's table.  The distance of a raw value r, in cm, is kd + 1/d
\* with d = r * (3.3 / 255) * cv - kv; cv and kv are in thousandths.
ana_sensors ==
    [k \in 0..7 |->
       CASE k = 0      -> [cv |-> 22, kv |-> 10, kd |-> -5, zone |-> {"rear", "right"}]
         [] k = 1      -> [cv |-> 30, kv |->  9, kd |->  1, zone |-> {"front", "left"}]
         [] k = 2      -> [cv |-> 45, kv |-> 27, kd |->  5, zone |-> {"front", "right"}]
         [] k = 3      -> [cv |-> 52, kv |->  7, kd |->  0, zone |-> {"rear", "left"}]
         [] k = 4      -> [cv |-> 52, kv |->  7, kd |->  0, zone |-> {"rear", "right"}]
         [] k = 5      -> [cv |-> 52, kv |->  7, kd |->  0, zone |-> {"front", "left"}]
         [] k = 6      -> [cv |-> 52, kv |->  7, kd |->  0, zone |-> {"front", "right"}]
         [] k = 7      -> [cv |-> 30, kv |->  9, kd |->  1, zone |-> {"rear", "left"}]]

sensors_nb == Len(Used)
Index == 0..(sensors_nb - 1)
sensor(i) == ana_sensors[Used[i + 1]]
AS_DIST_LIMIT == 30

VARIABLES
    sensor_index,  \* the sensor the next result is for
    raw_values,    \* raw_values[i]: the last three averages, newest last
    mux,           \* the pin the channel is connected to
    converting,    \* pins of the conversions in flight, oldest first
    result,        \* the result register, <<pin, value>>
    flag,          \* the conversion complete flag
    refresh,       \* the controller stands inside analog_sensor_refresh_all
    sight,         \* sight[i]: the raw value of what pin i sees
    events,        \* changes and overlaps so far
    clean,         \* no refresh has overlapped the latest chain
    origin         \* origin[i]: the pin of the newest sample of sensor i

sensorVars == <<sensor_index, raw_values, mux, converting, result, flag, refresh,
                sight, events, clean, origin>>

SensorsTypeOK ==
    /\ sensor_index \in Index
    /\ raw_values \in [Index -> [1..3 -> RawValue]]
    /\ mux \in Index
    /\ converting \in Seq(Index) /\ Len(converting) <= 2
    /\ result \in Index \X RawValue
    /\ flag \in BOOLEAN /\ refresh \in BOOLEAN
    /\ sight \in [Index -> Sights]
    /\ events \in 0..MaxEvents /\ clean \in BOOLEAN
    /\ origin \in [Index -> Index]

\* No conversion is on its way and no result waits.
Quiet == converting = <<>> /\ ~flag

\* analog_sensor_setup and adc_setup: flags cleared, the channel on pin 0, and
\* a first chain started.
SensorsInit ==
    /\ sensor_index = 0
    /\ raw_values = [i \in Index |-> [j \in 1..3 |-> 0]]
    /\ mux = 0 /\ converting = <<0>>
    /\ result = <<0, 0>> /\ flag = FALSE /\ refresh = FALSE
    /\ sight \in { [i \in Index |-> v] : v \in Sights }
    /\ events = 0 /\ clean = TRUE
    /\ origin = [i \in Index |-> i]

\* A start while two conversions wait in the channel's pipeline is lost.
Started(pin) == IF Len(converting) < 2 THEN Append(converting, pin)
                ELSE converting

\* analog_sensor_refresh_all by way of adc_async_read_start: the multiplexer
\* is cleared, which is pin 0...
refresh_mux ==
    /\ ~refresh
    /\ ~Quiet => events < MaxEvents
    /\ events' = IF Quiet THEN events ELSE events + 1
    /\ clean' = Quiet
    /\ refresh' = TRUE
    /\ mux' = 0
    /\ UNCHANGED <<sensor_index, raw_values, converting, result, flag, sight,
                   origin>>

\* ... then a conversion is started on whatever it is connected to by now.
refresh_start ==
    /\ refresh
    /\ refresh' = FALSE
    /\ converting' = Started(mux)
    /\ UNCHANGED <<sensor_index, raw_values, mux, result, flag, sight, events,
                   clean, origin>>

\* A result that finds the last one not served overwrites it.
Convert ==
    /\ converting # <<>>
    /\ result' = <<Head(converting), sight[Head(converting)]>>
    /\ flag' = TRUE
    /\ converting' = Tail(converting)
    /\ UNCHANGED <<sensor_index, raw_values, mux, refresh, sight, events,
                   clean, origin>>

\* Mutant of Average: the sum is divided by one too many.
Average_Diluted(s, value) == (value + s[1] + s[2]) \div 4

\* The new average: of the value and of the two oldest ones kept.
Average(s, value) == (value + s[1] + s[2]) \div 3

NextIndex(i) == (i + 1) % sensors_nb

\* Mutant of irq_adc_handler: the index stays when the chain ends.
irq_adc_handler_NoWrap ==
    /\ flag
    /\ flag' = FALSE
    /\ raw_values' = [raw_values EXCEPT ![sensor_index] =
                        <<@[2], @[3], Average(@, result[2])>>]
    /\ origin' = [origin EXCEPT ![sensor_index] = result[1]]
    /\ IF NextIndex(sensor_index) # 0
       THEN /\ sensor_index' = NextIndex(sensor_index)
            /\ mux' = NextIndex(sensor_index)
            /\ converting' = Started(NextIndex(sensor_index))
       ELSE UNCHANGED <<sensor_index, mux, converting>>
    /\ UNCHANGED <<result, refresh, sight, events, clean>>

\* Mutant of irq_adc_handler: the next conversion is started before the index
\* has moved on.
irq_adc_handler_SamePin ==
    /\ flag
    /\ flag' = FALSE
    /\ raw_values' = [raw_values EXCEPT ![sensor_index] =
                        <<@[2], @[3], Average(@, result[2])>>]
    /\ origin' = [origin EXCEPT ![sensor_index] = result[1]]
    /\ sensor_index' = NextIndex(sensor_index)
    /\ IF sensor_index' # 0
       THEN mux' = sensor_index /\ converting' = Started(sensor_index)
       ELSE UNCHANGED <<mux, converting>>
    /\ UNCHANGED <<result, refresh, sight, events, clean>>

\* The conversion interrupt stores the result for the sensor of the index and
\* goes on with the next sensor, until the index is back to 0.
irq_adc_handler ==
    /\ flag
    /\ flag' = FALSE
    /\ raw_values' = [raw_values EXCEPT ![sensor_index] =
                        <<@[2], @[3], Average(@, result[2])>>]
    /\ origin' = [origin EXCEPT ![sensor_index] = result[1]]
    /\ sensor_index' = NextIndex(sensor_index)
    /\ IF sensor_index' # 0
       THEN mux' = sensor_index' /\ converting' = Started(sensor_index')
       ELSE UNCHANGED <<mux, converting>>
    /\ UNCHANGED <<result, refresh, sight, events, clean>>

\* Something comes or goes in front of a sensor.
Move ==
    /\ events < MaxEvents
    /\ events' = events + 1
    /\ \E i \in Index, v \in Sights : v # sight[i] /\ sight' = [sight EXCEPT ![i] = v]
    /\ UNCHANGED <<sensor_index, raw_values, mux, converting, result, flag,
                   refresh, clean, origin>>

SensorsNext == refresh_mux \/ refresh_start \/ Convert \/ irq_adc_handler \/ Move

\* The controller takes its turns, conversions end and are served.
SensorsFairness ==
    /\ WF_sensorVars(refresh_mux \/ refresh_start)
    /\ WF_sensorVars(Convert) /\ WF_sensorVars(irq_adc_handler)

SensorsSpec == SensorsInit /\ [][SensorsNext]_sensorVars /\ SensorsFairness

-----------------------------------------------------------------------------
(* The verdict                                                             *)

\* d of a raw value, in units of 1/850000.
Slope(i, raw) == 11 * raw * sensor(i).cv - 850 * sensor(i).kv

\* analog_sensor_adc2cm < AS_DIST_LIMIT, as the set of its possible outcomes:
\* for a negative d the distance is converted to an uint8_t from a negative
\* float, which is undefined.
Near(i, raw) ==
    IF Slope(i, raw) < 0 THEN BOOLEAN
    ELSE { 850000 < (AS_DIST_LIMIT - sensor(i).kd) * Slope(i, raw) }

\* analog_sensor_detect_obstacle, as the set of its possible outcomes.
analog_sensor_detect_obstacle(zone) ==
    LET S == { i \in Index : sensor(i).zone \cap zone # {} }
    IN  { b \in BOOLEAN :
            IF b THEN \E i \in S : TRUE \in Near(i, raw_values[i][3])
                 ELSE \A i \in S : FALSE \in Near(i, raw_values[i][3]) }

-----------------------------------------------------------------------------
\* However a refresh and the conversion interrupts interleave, and whichever
\* result is lost, a chain that has come to rest has wrapped: otherwise every
\* later chain would store each pin's value as another sensor's.
ChainWraps == Quiet => sensor_index = 0

\* A chain that no refresh has overlapped leaves in every sensor a sample of
\* its own pin, also when the chain before it was disturbed.
SamplesAreOwn ==
    Quiet /\ clean /\ ~refresh => \A i \in Index : origin[i] = i

\* What stays in front of a sensor is reported in the end, and nothing else,
\* for every zone: the rounding of the averages hides at most the last two
\* steps before the limit.
Clear(i, v) == Near(i, v) = {FALSE}
Close(i, v) == v >= 2 /\ Near(i, v - 2) = {TRUE}
VerdictSettles ==
    <>[](\A zone \in {{"front"}, {"rear"}, {"left", "right"}} :
           LET S == { i \in Index : sensor(i).zone \cap zone # {} }
           IN  /\ (\E i \in S : Close(i, sight[i]))
                    => analog_sensor_detect_obstacle(zone) = {TRUE}
               /\ (\A i \in S : Clear(i, sight[i]))
                    => analog_sensor_detect_obstacle(zone) = {FALSE})
=============================================================================
