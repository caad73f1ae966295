---------------------------- MODULE BenchProofs -----------------------------
(***************************************************************************)
(* Theorems about the bench: each part runs on it as it does alone, so     *)
(* that what is proved of the parts, in UnixKosProofs, DriversProofs,      *)
(* WheelsProofs and AvoidanceProofs, holds of the specification that the   *)
(* run of Bench checks, for every value of the constants; and about the    *)
(* simulated wheels.                                                       *)
(***************************************************************************)
EXTENDS Bench, UnixKosProofs, DriversProofs, WheelsProofs

(* The inductive invariants of the parts, of which those whose type alone  *)
(* is inductive have only their type.                                      *)
BenchInv ==
    /\ part \in Parts
    /\ UInv /\ SensorsInv /\ OwnChain /\ ServosInv /\ TowerInv
    /\ EncodersInv /\ EnginesInv /\ W!TypeOK

-----------------------------------------------------------------------------
(* The simulated wheels                                                    *)

LEMMA Constants ==
    /\ W!PERIOD = 200 /\ W!Centre = 250
    /\ W!Buffer = [1..3 -> 0..450]
BY DEF W!PERIOD, W!Centre, W!RESOLUTION, W!Buffer

\* What the filter is fed with is the command, within the PWM's period.
LEMMA CommandedRange == ASSUME pwm \in Int PROVE W!Commanded \in -200..200
BY Constants DEF W!Commanded

LEMMA TargetIsCommand ==
    ASSUME engine \in {"left", "right"}, pwm \in Int
    PROVE  /\ W!gpio_set_output => W!Target(TRUE) = 250 + W!Commanded
           /\ ~W!gpio_set_output => W!Target(FALSE) = 250 + W!Commanded
BY Constants DEF W!Target, W!gpio_set_output, W!pwm_limitation, W!Commanded

\* A value of the filter is between the least and the greatest of its four.
LEMMA FilterBetween ==
    ASSUME NEW lo \in Int, NEW hi \in Int, NEW d \in lo..hi,
           simu_encoder[1] \in lo..hi, simu_encoder[2] \in lo..hi,
           simu_encoder[3] \in lo..hi
    PROVE  W!Filter(simu_encoder, d) \in lo..hi
<1> DEFINE a == simu_encoder[1]
           b == simu_encoder[2]
           c == simu_encoder[3]
<1>1. W!Filter(simu_encoder, d) = (a + b + c + d) \div 4
  BY DEF W!Filter
<1>2. a \in lo..hi /\ b \in lo..hi /\ c \in lo..hi
  OBVIOUS
<1> HIDE DEF a, b, c
<1>3. (a + b + c + d) \div 4 \in lo..hi
  BY <1>2
<1> QED
  BY <1>1, <1>3

(* The type invariant with its constants worked out.                       *)
WheelTypes ==
    /\ engine \in {"left", "right"}
    /\ pwm \in {-200, 0, 40} /\ changes \in 0..1
    /\ simu_dir \in BOOLEAN /\ tc \in 0..450
    /\ simu_encoder \in [1..3 -> 0..450]

LEMMA TypesOfWheel == W!TypeOK <=> WheelTypes
BY DEF WheelTypes, W!TypeOK, W!Buffer, W!PERIOD, W!Centre, W!RESOLUTION

LEMMA InitWheel == ASSUME W!Init PROVE W!TypeOK
<1>1. <<0, 0, 0>> \in [1..3 -> 0..450]
  OBVIOUS
<1>2. simu_dir \in BOOLEAN
  BY DEF W!Init
<1>3. /\ engine \in {"left", "right"}
      /\ pwm \in {-200, 0, 40} /\ changes = 0
      /\ tc = 250 /\ simu_encoder = <<0, 0, 0>>
  BY Constants DEF W!Init
<1>4. WheelTypes
  BY <1>1, <1>2, <1>3 DEF WheelTypes
<1> QED
  BY <1>4, TypesOfWheel

\* A write to the duty cycle moves the buffer on by the filtered command.
LEMMA FilterStep ==
    ASSUME WheelTypes, W!timer_pwm_duty_cycle
    PROVE  /\ UNCHANGED <<engine, pwm, changes>>
           /\ simu_dir' \in BOOLEAN /\ tc' = 250 + W!Commanded
           /\ simu_encoder' = <<simu_encoder[2], simu_encoder[3],
                                W!Filter(simu_encoder, tc')>>
<1>1. engine \in {"left", "right"} /\ pwm \in Int
  BY DEF WheelTypes
<1>2. CASE W!gpio_set_output
  <2>1. simu_dir' = TRUE
    BY <1>2 DEF W!timer_pwm_duty_cycle
  <2>2. tc' = W!Target(TRUE)
    BY <2>1 DEF W!timer_pwm_duty_cycle
  <2> QED
    BY <1>1, <1>2, <2>1, <2>2, TargetIsCommand DEF W!timer_pwm_duty_cycle
<1>3. CASE ~W!gpio_set_output
  <2>1. simu_dir' = FALSE
    BY <1>3 DEF W!timer_pwm_duty_cycle
  <2>2. tc' = W!Target(FALSE)
    BY <2>1 DEF W!timer_pwm_duty_cycle
  <2> QED
    BY <1>1, <1>3, <2>1, <2>2, TargetIsCommand DEF W!timer_pwm_duty_cycle
<1> QED
  BY <1>2, <1>3

LEMMA NextKeepsWheel ==
    ASSUME W!TypeOK, [W!Next]_simwheelVars
    PROVE  W!TypeOK'
<1>1. WheelTypes
  BY TypesOfWheel
<1>2. CASE W!timer_pwm_duty_cycle
  <2>1. /\ UNCHANGED <<engine, pwm, changes>>
        /\ simu_dir' \in BOOLEAN /\ tc' = 250 + W!Commanded
        /\ simu_encoder' = <<simu_encoder[2], simu_encoder[3],
                             W!Filter(simu_encoder, tc')>>
    BY <1>1, <1>2, FilterStep
  <2>2. W!Commanded \in -200..200
    BY <1>1, CommandedRange DEF WheelTypes
  <2>3. tc' \in 0..450
    BY <2>1, <2>2
  <2>4. /\ simu_encoder[1] \in 0..450 /\ simu_encoder[2] \in 0..450
        /\ simu_encoder[3] \in 0..450
    BY <1>1 DEF WheelTypes
  <2>5. W!Filter(simu_encoder, tc') \in 0..450
    <3> DEFINE d  == tc'
               hi == 450
    <3>1. d \in 0..hi /\ hi \in Int /\ 0 \in Int
      BY <2>3
    <3>2. /\ simu_encoder[1] \in 0..hi /\ simu_encoder[2] \in 0..hi
          /\ simu_encoder[3] \in 0..hi
      BY <2>4
    <3> HIDE DEF d, hi
    <3>3. W!Filter(simu_encoder, d) \in 0..hi
      BY <3>1, <3>2, FilterBetween
    <3> QED
      BY <3>3 DEF d, hi
  <2>6. simu_encoder' \in [1..3 -> 0..450]
    BY <2>1, <2>4, <2>5
  <2>7. WheelTypes'
    BY <1>1, <2>1, <2>3, <2>6 DEF WheelTypes
  <2> QED
    BY <2>7, TypesOfWheel, PTL
<1>3. CASE W!timer_set_cnt
  BY <1>3 DEF W!timer_set_cnt, W!TypeOK, W!Buffer, W!PERIOD, W!Centre, W!RESOLUTION
<1>4. CASE W!NewCommand
  BY <1>4 DEF W!NewCommand, W!TypeOK, W!Buffer
<1>5. CASE UNCHANGED simwheelVars
  BY <1>5 DEF simwheelVars, W!TypeOK, W!Buffer
<1> QED
  BY <1>2, <1>3, <1>4, <1>5 DEF W!Next

(* The last three values are the command, less at most three pulses.       *)
Settled == \A n \in 1..3 : simu_encoder[n] - 250 - W!Commanded \in -3..0

\* Once they are, they stay so as long as the command does.
LEMMA SettledStays ==
    ASSUME W!TypeOK, Settled, [W!Next]_simwheelVars, UNCHANGED pwm
    PROVE  Settled'
<1>1. WheelTypes
  BY TypesOfWheel
<1>2. W!Commanded' = W!Commanded
  BY DEF W!Commanded
<1>3. CASE W!timer_pwm_duty_cycle
  <2> DEFINE hi == 250 + W!Commanded
             lo == hi - 3
             d  == tc'
  <2>1. /\ d = hi
        /\ simu_encoder' = <<simu_encoder[2], simu_encoder[3],
                             W!Filter(simu_encoder, d)>>
    BY <1>1, <1>3, FilterStep
  <2>2. W!Commanded \in -200..200
    BY <1>1, CommandedRange DEF WheelTypes
  <2>3. simu_encoder[1] \in Int /\ simu_encoder[2] \in Int /\ simu_encoder[3] \in Int
    BY <1>1 DEF WheelTypes
  <2>4. /\ simu_encoder[1] \in lo..hi /\ simu_encoder[2] \in lo..hi
        /\ simu_encoder[3] \in lo..hi
    BY <2>2, <2>3 DEF Settled
  <2>5. lo \in Int /\ hi \in Int /\ d \in lo..hi
    BY <2>1, <2>2
  <2>6. W!Filter(simu_encoder, d) \in lo..hi
    <3> HIDE DEF lo, hi, d
    <3> QED
      BY <2>4, <2>5, FilterBetween
  <2>7. \A n \in 1..3 : simu_encoder'[n] \in lo..hi
    <3> HIDE DEF lo, hi, d
    <3> QED
      BY <2>1, <2>4, <2>6
  <2>8. \A x \in lo..hi : x - 250 - W!Commanded \in -3..0
    BY <2>2
  <2> HIDE DEF lo, hi, d
  <2> QED
    BY <1>2, <2>7, <2>8 DEF Settled
<1>4. CASE UNCHANGED simu_encoder
  BY <1>2, <1>4 DEF Settled
<1> QED
  BY <1>3, <1>4 DEF W!Next, W!timer_set_cnt, W!NewCommand, simwheelVars

-----------------------------------------------------------------------------
(* The bench                                                               *)

\* A step of the bench is one of each part or leaves the part alone.
LEMMA PartSteps ==
    ASSUME [Next]_allVars
    PROVE  /\ [UnixNext]_unixVars /\ [SensorsNext]_sensorVars
           /\ [ServosNext]_servoVars /\ [TowerNext]_towerVars
           /\ [EncodersNext]_encoderVars /\ [EnginesNext]_engineVars
           /\ [W!Next]_simwheelVars /\ [A!Next]_avoidanceVars
           /\ part' = part
<1>1. CASE UNCHANGED allVars
  BY <1>1 DEF allVars
<1>2. CASE unix \/ sensors \/ servos \/ tower
  BY <1>2 DEF unix, sensors, servos, tower
<1>3. CASE encoders \/ engines \/ simwheels \/ avoidance
  BY <1>3 DEF encoders, engines, simwheels, avoidance
<1> QED
  BY <1>1, <1>2, <1>3 DEF Next

LEMMA InitBenchInv == Init => BenchInv
<1> SUFFICES ASSUME Init PROVE BenchInv
  OBVIOUS
<1>1. /\ UnixInit /\ SensorsInit /\ ServosInit /\ TowerInit
      /\ EncodersInit /\ EnginesInit /\ W!Init /\ part \in Parts
  BY DEF Init
<1> QED
  BY <1>1, InitUInv, InitSensorsInv, InitOwnChain, InitServosInv, InitTowerInv,
     InitEncodersInv, InitEnginesInv, InitWheel DEF BenchInv

LEMMA NextKeepsBenchInv ==
    ASSUME BenchInv, [Next]_allVars
    PROVE  BenchInv'
BY PartSteps, NextKeepsUInv, NextKeepsSensorsInv, NextKeepsOwnChain,
   NextKeepsServosInv, NextKeepsTowerInv, NextKeepsEncodersInv,
   NextKeepsEnginesInv, NextKeepsWheel DEF BenchInv

LEMMA BenchInvariant == Spec => []BenchInv
<1>1. BenchInv /\ [Next]_allVars => BenchInv'
  BY NextKeepsBenchInv
<1> QED
  BY <1>1, InitBenchInv, PTL DEF Spec

\* Type correctness of all the parts, for every value of their constants: of
\* the bench's run the only invariant that is about all of them.
THEOREM BenchTypeCorrect == Spec => []TypeOK
<1>1. BenchInv => TypeOK
  BY DEF BenchInv, TypeOK, UInv, SensorsInv, ServosInv, TowerInv, EncodersInv,
         EnginesInv
<1> QED
  BY <1>1, BenchInvariant, PTL

\* The invariants that the bench's run checks hold on it for every value of the
\* constants of the parts.
THEOREM BenchInvariants ==
    Spec => [](/\ LivingStacksMapped /\ ChainWraps /\ SamplesAreOwn
               /\ CommandIsWhole /\ SumsTellTravel)
<1>1. BenchInv => /\ LivingStacksMapped /\ ChainWraps /\ SamplesAreOwn
                  /\ CommandIsWhole /\ SumsTellTravel
  BY WrappedAtRest, SamplesOfOwnChain, WholeCommand, SummedTravel DEF BenchInv, UInv
<1> QED
  BY <1>1, BenchInvariant, PTL

\* So do the action properties that it checks, and the safety part of the
\* refinement of Multitasking.
THEOREM BenchActions ==
    Spec => PromiseSafety /\ MovesWithClamp /\ ReadingIsTravel /\ DrivenAsCommanded
<1>1. BenchInv /\ [Next]_allVars => [Promise!Next]_(Promise!avars)
  BY PartSteps, PromiseKept DEF BenchInv
<1>2. BenchInv /\ [Next]_allVars =>
        [/\ position' > position => clamp = "closed" \/ Stopping
         /\ position' < position => clamp = "open"]_towerVars
  BY PartSteps, ClampStep DEF BenchInv
<1>3. BenchInv =>
        [\A w \in Wheel :
           timer_get_cnt /\ wheel = w /\ Readable(w)
              => decode(w, count') = travel[w]]_encoderVars
  BY ReadingStep DEF BenchInv
<1>4. BenchInv =>
        [\A t \in Task, e \in Engine :
            timer_pwm_duty_cycle(t) /\ alone[t] /\ Head(todo[t])[1] = e
               => Drive(e)' = Limited(Head(todo[t])[2])]_engineVars
  BY DrivenStep DEF BenchInv
<1>5. Init => Promise!Init
  BY DEF Init, UnixInit, Promise!Init
<1> QED
  BY <1>1, <1>2, <1>3, <1>4, <1>5, BenchInvariant, PTL
     DEF Spec, PromiseSafety, MovesWithClamp, ReadingIsTravel, DrivenAsCommanded

\* A simulated wheel that follows its command, with no more than the three
\* pulses less that the integer division holds back, follows it until the
\* command changes (timer_pwm_duty_cycle), whatever is read and recentred in
\* between: the safety half of FollowsCommand.
THEOREM FollowedStays ==
    Spec => [][Settled /\ UNCHANGED pwm => Settled']_simwheelVars
<1>1. BenchInv /\ [Next]_allVars => [Settled /\ UNCHANGED pwm => Settled']_simwheelVars
  BY PartSteps, SettledStays DEF BenchInv
<1> QED
  BY <1>1, BenchInvariant, PTL DEF Spec

-----------------------------------------------------------------------------
(* The bench's table                                                       *)

(* The module of the proofs about the avoidance, on this table.  It brings *)
(* definitions of its own along, which are found to be those of A.         *)
AP == INSTANCE AvoidanceProofs
        WITH polygons <- <<Obstacle>>, Unit <- 200, Points <- Around, Paths <- Pairs

LEMMA SameBlocked == ASSUME NEW p PROVE A!Blocked(p) <=> AP!Blocked(p)
BY DEF A!Blocked, A!is_point_in_polygon, A!Side, A!Following,
       AP!Blocked, AP!is_point_in_polygon, AP!Side, AP!Following

LEMMA SamePoints ==
    ASSUME NEW s, NEW f
    PROVE  A!valid_points(s, f) = AP!valid_points(s, f)
BY DEF A!valid_points, A!vertices, A!FlattenSeq, A!Blocked,
       A!is_point_in_polygon, A!Side, A!Following,
       AP!valid_points, AP!vertices, AP!FlattenSeq, AP!Blocked,
       AP!is_point_in_polygon, AP!Side, AP!Following

LEMMA SameGraph == ASSUME NEW vp PROVE A!graph(vp) = AP!graph(vp)
<1>1. ASSUME NEW a, NEW b PROVE A!collide(a, b) = AP!collide(a, b)
  BY DEF A!collide, A!is_segment_crossing_segment, A!is_segment_crossing_line,
         A!get_point_index_in_polygon, A!Diagonal, A!is_point_on_segment,
         A!SameQuotient, A!Side, A!Following,
         AP!collide, AP!is_segment_crossing_segment, AP!is_segment_crossing_line,
         AP!get_point_index_in_polygon, AP!Diagonal, AP!is_point_on_segment,
         AP!SameQuotient, AP!Side, AP!Following
<1> QED
  BY <1>1 DEF A!graph, AP!graph

LEMMA SameRoute == ASSUME NEW vp PROVE A!Route(vp) = AP!Route(vp)
<1>1. A!graph(vp) = AP!graph(vp)
  BY SameGraph
<1>2. A!Search(vp) = AP!Search(vp)
  BY <1>1 DEF A!Search, A!Unsearched, A!Stops, A!Round, A!weight,
              A!DIJKSTRA_MAX_DISTANCE,
              AP!Search, AP!Unsearched, AP!Stops, AP!Round, AP!weight,
              AP!DIJKSTRA_MAX_DISTANCE
<1>3. ASSUME NEW p PROVE A!Backwards(vp, p) = AP!Backwards(vp, p)
  BY DEF A!Backwards, AP!Backwards
<1> QED
  BY <1>2, <1>3 DEF A!Route, AP!Route

LEMMA SameRoutes ==
    ASSUME NEW s, NEW f
    PROVE  A!RoutePoints(s, f) = AP!RoutePoints(s, f)
BY SamePoints, SameRoute DEF A!RoutePoints, AP!RoutePoints

LEMMA SameClear == A!Clear = AP!Clear
BY SameBlocked DEF A!Clear, AP!Clear

LEMMA SameDrive ==
    /\ A!Init => AP!Init
    /\ [A!Next]_avoidanceVars => [AP!Next]_(AP!vars)
<1>1. A!Init => AP!Init
  BY SameClear DEF A!Init, AP!Init
<1>2. A!FirstCall => AP!FirstCall
  BY SameRoutes DEF A!FirstCall, A!update_graph, AP!FirstCall, AP!update_graph
<1>3. A!LegReached => AP!LegReached
  BY DEF A!LegReached, A!pose_to_reach, A!avoidance,
         AP!LegReached, AP!pose_to_reach, AP!avoidance
<1>4. A!RouteReached => AP!RouteReached
  BY SameRoutes
     DEF A!RouteReached, A!pose_to_reach, A!avoidance, A!update_graph,
         AP!RouteReached, AP!pose_to_reach, AP!avoidance, AP!update_graph
<1> QED
  BY <1>1, <1>2, <1>3, <1>4 DEF A!Next, AP!Next, AP!vars, avoidanceVars

LEMMA TableHolds == AP!Table /\ AP!Connected
<1>1. AP!Table
  <2>1. ASSUME NEW poly PROVE A!Rectangle(poly) <=> AP!Rectangle(poly)
    BY DEF A!Rectangle, AP!Rectangle
  <2>2. ASSUME NEW z, NEW poly PROVE A!OffSides(z, poly) <=> AP!OffSides(z, poly)
    BY DEF A!OffSides, A!is_point_in_polygon, A!Side, A!Following,
           AP!OffSides, AP!is_point_in_polygon, AP!Side, AP!Following
  <2>3. A!Table
    BY TableAssumption
  <2> QED
    BY <2>1, <2>2, <2>3, Zenon DEF A!Table, AP!Table
<1>2. AP!Connected
  BY SameRoutes, SameClear, TableAssumption DEF A!Connected, AP!Connected
<1> QED
  BY <1>1, <1>2

LEMMA DriveOnBench == Spec => []AP!DriveInv
<1>1. Init => AP!DriveInv
  BY TableHolds, SameDrive, AP!InitDrive DEF Init
<1>2. AP!DriveInv /\ [Next]_allVars => AP!DriveInv'
  BY TableHolds, PartSteps, SameDrive, AP!NextKeepsDrive
<1> QED
  BY <1>1, <1>2, PTL DEF Spec

\* On the bench, too, each leg of the drive leads on to the pose that is due, and
\* none that starts where its route says leads through the obstacle.
THEOREM BenchRoutesAreFree == Spec => []RouteIsFree
<1>1. ASSUME AP!DriveInv PROVE RouteIsFree
  <2>1. AP!LegIsFree /\ AP!RouteLeads
    BY <1>1, TableHolds, AP!LegCutsNone, AP!DriveLeads
  <2>2. ASSUME NEW a, NEW b, NEW q PROVE A!Cuts(a, b, q) <=> AP!Cuts(a, b, q)
    BY DEF A!Cuts, A!Side, A!Following, AP!Cuts, AP!Side, AP!Following
  <2>3. A!pose_to_reach = AP!pose_to_reach
    BY DEF A!pose_to_reach, A!avoidance, AP!pose_to_reach, AP!avoidance
  <2>4. A!LegIsFree
    BY <2>1, <2>2, <2>3 DEF A!LegIsFree, AP!LegIsFree
  <2>5. A!RouteLeads
    BY <2>1 DEF A!RouteLeads, AP!RouteLeads
  <2> QED
    BY <2>4, <2>5 DEF RouteIsFree
<1> QED
  BY <1>1, DriveOnBench, PTL
=============================================================================
