---------------------------- MODULE CalibProofs ----------------------------
(***************************************************************************)
(* Proofs about CalibModes and DataLog, for counters of every width.       *)
(*                                                                         *)
(* None of the properties is inductive: which table is open, and which     *)
(* line comes next, follow from the tests' counter (Lines), although the   *)
(* tests are broken off, taken over by each other in the middle and run on *)
(* past their ends; the counter rests while the controller is stopped      *)
(* (Stopped), and the wheels hold the sweep's last value (Ramp).           *)
(***************************************************************************)
EXTENDS DataLog, TLAPS

(* The controller stops behind the end of a test only, which resets the    *)
(* counter.                                                                *)
Stopped == mode = "STOP" \/ last = "STOP" => tempo = 0 /\ ctrl = "loop"

(* What the wheels were told in the turn before.                           *)
Ramp == last = "MODE1" /\ ctrl = "loop" /\ tempo # 0
            => motor = Pwm(SweepPwm(tempo - 1))

(* The line that comes next, in the first table of a test (tempo below     *)
(* 400, and 400 at the end of a short one) and in the second, which begins *)
(* at 400 whoever goes on from there.  A counter that has wrapped leaves   *)
(* the second table open.                                                  *)
Lines ==
    /\ ctrl = "end" => tempo \in {400, 800} /\ csv # "none" /\ line_cur = 400
    /\ ctrl = "loop" /\ tempo \in 1..399 => csv # "none" /\ line_cur = tempo
    /\ ctrl = "loop" /\ tempo >= 400 =>
         /\ line_cur = tempo - 400
         /\ csv = "none" <=> tempo = 400
    /\ ctrl = "loop" /\ tempo = 0 /\ csv # "none" => line_cur = Width - 400

(* The columns on display are cells that the test of the open table sets;  *)
(* behind the first table of MODE1, which any test may go on with, they    *)
(* are the wheels'.                                                        *)
Displayed ==
    /\ csv # "none" => visible \subseteq Written(csv)
    /\ csv = "none" /\ tempo # 0 => visible \subseteq Wheels

CInv == LogTypeOK /\ Stopped /\ Ramp /\ Lines /\ Displayed

-----------------------------------------------------------------------------
(* The sweep                                                               *)

\* The PWM of a sweep is within its limits, and from one value of the counter
\* to the next it moves by 2 at most: also from branch to branch.
LEMMA SweepSteps ==
  /\ \A t \in Nat : SweepPwm(t) \in -200..200
  /\ \A t \in Nat \ {0} : /\ SweepPwm(t) - SweepPwm(t - 1) <= 2
                          /\ SweepPwm(t - 1) - SweepPwm(t) <= 2
<1>1. ASSUME NEW t \in Nat PROVE SweepPwm(t) \in -200..200
  <2>0. \A i \in 0..299 : (i * 4) \div 3 \in 0..400
    OBVIOUS
  <2>1. CASE t < 50 \/ t \in 350..449 \/ t >= 750
    <3>1. CASE t < 50
      BY <3>1 DEF SweepPwm
    <3>2. CASE t \in 350..449
      BY <3>2 DEF SweepPwm
    <3>3. CASE t >= 750
      BY <3>3 DEF SweepPwm
    <3> QED
      BY <2>1, <3>1, <3>2, <3>3
  <2>2. CASE t \in 50..349
    <3>1. ((t - 50) * 4) \div 3 \in 0..400
      BY <2>0, <2>2
    <3> QED
      BY <2>2, <3>1 DEF SweepPwm
  <2>3. CASE t \in 450..749
    <3>1. ((t - 450) * 4) \div 3 \in 0..400
      BY <2>0, <2>3
    <3> QED
      BY <2>3, <3>1 DEF SweepPwm
  <2> QED
    BY <2>1, <2>2, <2>3
<1>2. ASSUME NEW t \in Nat \ {0}
      PROVE  /\ SweepPwm(t) - SweepPwm(t - 1) <= 2
             /\ SweepPwm(t - 1) - SweepPwm(t) <= 2
  <2>1. CASE t <= 50 \/ t \in 351..449 \/ t >= 751
    BY <2>1 DEF SweepPwm
  <2>2. CASE t \in 51..350
    BY <2>2 DEF SweepPwm
  <2>3. CASE t \in 450..750
    BY <2>3 DEF SweepPwm
  <2> QED
    BY <2>1, <2>2, <2>3
<1> QED
  BY <1>1, <1>2

-----------------------------------------------------------------------------
(* The invariant                                                           *)

LEMMA InitCInv == LogInit => CInv
<1> SUFFICES ASSUME LogInit PROVE CInv
  OBVIOUS
<1>1. LogTypeOK
  BY WidthAssumption DEF LogInit, Init, WidthAssumption, LogTypeOK, TypeOK, Modes
<1>2. Stopped /\ Ramp /\ Lines /\ Displayed
  BY DEF LogInit, Init, Stopped, Ramp, Lines, Displayed
<1> QED
  BY <1>1, <1>2 DEF CInv

\* What the counter does in a turn of a test.
LEMMA TickFacts ==
  ASSUME tempo \in 0..(Width - 1)
  PROVE  /\ Width \in Nat /\ Width > 800
         /\ Tick = IF tempo = Width - 1 THEN 0 ELSE tempo + 1
         /\ Tick \in 0..(Width - 1)
<1>1. Width \in Nat /\ Width > 800
  BY WidthAssumption DEF WidthAssumption
<1>2. (tempo + 1) % Width = IF tempo = Width - 1 THEN 0 ELSE tempo + 1
  BY <1>1
<1> QED
  BY <1>1, <1>2 DEF Tick

LEMMA NextLogTypeOK ==
  ASSUME LogTypeOK, [LogNext]_logVars
  PROVE  LogTypeOK'
<1>0. /\ Width \in Nat /\ Width > 800 /\ tempo \in 0..(Width - 1)
      /\ (line_cur + 1) % Width \in 0..(Width - 1)
      /\ tempo \in Nat
  <2>1. Width \in Nat /\ Width > 800
    BY WidthAssumption DEF WidthAssumption
  <2> QED
    BY <2>1 DEF LogTypeOK, TypeOK
<1>1. CASE log_other
  <2>1. UNCHANGED log /\ (ctrl_other \/ Console)
    BY <1>1 DEF log_other
  <2>2. TypeOK'
    <3>1. CASE ctrl_other
      <4>1. /\ UNCHANGED <<mode, tempo, ctrl, calib>> /\ last' = mode
        BY <3>1 DEF ctrl_other
      <4>2. /\ spin' \in {spin, 0, 75}
            /\ \/ motor' = Pwm(0) \/ motor' = motor
               \/ \E a \in {0, 75} : motor' = Speed(2 * a, a)
        <5>1. mode \in {"STOP", "IDLE", "INGAME"}
          BY <3>1 DEF ctrl_other, LogTypeOK, TypeOK, Modes
        <5>2. CASE mode = "STOP"
          BY <3>1, <5>2 DEF ctrl_other
        <5>3. CASE mode = "IDLE"
          BY <3>1, <5>3 DEF ctrl_other
        <5>4. CASE mode = "INGAME"
          <6>1. spin' \in {0, 75} /\ motor' = Speed(2 * spin', spin')
            BY <3>1, <5>4 DEF ctrl_other
          <6> QED
            BY <6>1
        <5> QED
          BY <5>1, <5>2, <5>3, <5>4
      <4>3. /\ Pwm(0) \in { Pwm(d) : d \in -200..200 }
            /\ \A a \in {0, 75} : Speed(2 * a, a) \in
                 { Speed(d, b) : d \in {0, 15, 150}, b \in {0, 75, 15, -15, 30, -30} }
        OBVIOUS
      <4> QED
        BY <4>1, <4>2, <4>3 DEF LogTypeOK, TypeOK
    <3>2. CASE Console
      BY <3>2 DEF Console, calib_encoder, calib_start, calib_select, LogTypeOK,
                  TypeOK, Modes, Tests
    <3> QED
      BY <2>1, <3>1, <3>2
  <2> QED
    BY <2>1, <2>2 DEF LogTypeOK, log
<1>2. CASE log_end
  BY <1>0, <1>2 DEF log_end, ctrl_end, LogTypeOK, TypeOK, Modes, Pwm
<1>3. ASSUME NEW m \in Tests, log_test(m) PROVE LogTypeOK'
  <2>1. spin' \in {0, 75, 15, -15, 30, -30}
    <3>1. CASE m = "MODE1"
      BY <1>3, <3>1 DEF log_test, ctrl_test, LogTypeOK, TypeOK
    <3>2. CASE m = "MODE2"
      BY <1>3, <3>2 DEF log_test, ctrl_test
    <3>3. CASE m = "MODE3"
      <4>1. spin' = SpinSpeed(tempo)
        BY <1>3, <3>3 DEF log_test, ctrl_test
      <4> QED
        BY <4>1 DEF SpinSpeed, LogTypeOK, TypeOK
    <3> QED
      BY <3>1, <3>2, <3>3 DEF Tests
  <2>2. motor' \in { Pwm(d) : d \in -200..200 }
                     \cup { Speed(d, a) : d \in {0, 15, 150}, a \in {0, 75, 15, -15, 30, -30} }
    <3>1. CASE m = "MODE1"
      <4>1. motor' = Pwm(SweepPwm(tempo)) /\ SweepPwm(tempo) \in -200..200
        BY <1>0, <1>3, <3>1, SweepSteps DEF log_test, ctrl_test
      <4> QED
        BY <4>1
    <3>2. CASE m = "MODE2"
      <4>1. motor' = Speed(StepSpeed(tempo), 0) /\ StepSpeed(tempo) \in {0, 15, 150}
        BY <1>3, <3>2 DEF log_test, ctrl_test, StepSpeed
      <4> QED
        BY <4>1
    <3>3. CASE m = "MODE3"
      <4>1. motor' = Speed(0, spin')
        BY <1>3, <3>3 DEF log_test, ctrl_test
      <4> QED
        BY <2>1, <4>1
    <3> QED
      BY <3>1, <3>2, <3>3 DEF Tests
  <2>3. tempo' \in 0..(Width - 1)
    BY <1>0, <1>3, TickFacts DEF log_test, ctrl_test
  <2>4. /\ mode' \in Modes /\ last' \in Modes /\ ctrl' \in {"loop", "end"}
        /\ calib' \in {"menu", "start", "exited"}
    BY <1>3 DEF log_test, ctrl_test, LogTypeOK, TypeOK, Modes
  <2>5. line_cur' \in 0..(Width - 1)
    BY <1>0, <1>3 DEF log_test, NextLine
  <2>6. visible' \subseteq Columns
    BY <1>3 DEF log_test, Table, Columns, Wheels, Robot, LogTypeOK
  <2>7. csv' \in Tests \cup {"none"}
    BY <1>3 DEF log_test, LogTypeOK
  <2> QED
    BY <2>1, <2>2, <2>3, <2>4, <2>5, <2>6, <2>7 DEF LogTypeOK, TypeOK
<1>4. CASE UNCHANGED logVars
  BY <1>4 DEF logVars, vars, log, LogTypeOK, TypeOK
<1> QED
  BY <1>1, <1>2, <1>3, <1>4 DEF LogNext

LEMMA NextStopped ==
  ASSUME Stopped, [LogNext]_logVars
  PROVE  Stopped'
<1>1. CASE ctrl_other
  BY <1>1 DEF ctrl_other, Stopped
<1>2. CASE ctrl_end
  BY <1>2 DEF ctrl_end, Stopped
<1>3. ASSUME NEW m \in Tests, ctrl_test(m) PROVE Stopped'
  BY <1>3 DEF ctrl_test, Stopped, Tests
<1>4. CASE Console
  BY <1>4 DEF Console, calib_encoder, calib_start, calib_select, Stopped, Tests
<1>5. CASE UNCHANGED logVars
  BY <1>5 DEF logVars, vars, Stopped
<1> QED
  BY <1>1, <1>2, <1>3, <1>4, <1>5 DEF LogNext, log_other, log_end, log_test

LEMMA NextRamp ==
  ASSUME LogTypeOK, Ramp, [LogNext]_logVars
  PROVE  Ramp'
<1>1. CASE ctrl_other
  BY <1>1 DEF ctrl_other, Ramp, Tests
<1>2. CASE ctrl_end
  BY <1>2 DEF ctrl_end, Ramp
<1>3. ASSUME NEW m \in Tests, ctrl_test(m) PROVE Ramp'
  <2>1. last' = m /\ tempo' = Tick /\ (m = "MODE1" => motor' = Pwm(SweepPwm(tempo)))
    BY <1>3 DEF ctrl_test
  <2>2. tempo' # 0 => tempo = tempo' - 1
    BY <2>1, TickFacts DEF LogTypeOK, TypeOK
  <2> QED
    BY <2>1, <2>2 DEF Ramp
<1>4. CASE Console
  BY <1>4 DEF Console, calib_encoder, calib_start, calib_select, Ramp
<1>5. CASE UNCHANGED logVars
  BY <1>5 DEF logVars, vars, Ramp
<1> QED
  BY <1>1, <1>2, <1>3, <1>4, <1>5 DEF LogNext, log_other, log_end, log_test

\* The lines are counted with the tests' counter: from 1 in the first table,
\* and 400 behind it in the second.
LEMMA NextLines ==
  ASSUME LogTypeOK, Lines, [LogNext]_logVars
  PROVE  Lines'
<1>1. CASE UNCHANGED <<ctrl, tempo, log>>
  BY <1>1 DEF Lines, log
<1>2. CASE log_other \/ UNCHANGED logVars
  <2>1. UNCHANGED <<ctrl, tempo, log>>
    BY <1>2 DEF log_other, ctrl_other, Console, calib_encoder, calib_start,
                calib_select, logVars, vars
  <2> QED
    BY <1>1, <2>1
<1>3. CASE log_end
  BY <1>3 DEF log_end, ctrl_end, Lines
<1>4. ASSUME NEW m \in Tests, log_test(m) PROVE Lines'
  <2>1. /\ ctrl = "loop" /\ tempo' = Tick
        /\ ctrl' = IF tempo' = Length(m) THEN "end" ELSE "loop"
    BY <1>4 DEF log_test, ctrl_test
  <2>2. /\ Width \in Nat /\ Width > 800 /\ tempo \in 0..(Width - 1)
        /\ tempo' = IF tempo = Width - 1 THEN 0 ELSE tempo + 1
        /\ line_cur \in 0..(Width - 1)
    BY <2>1, TickFacts DEF LogTypeOK, TypeOK
  <2>3. \A l \in 0..(Width - 2) : (l + 1) % Width = l + 1
    BY <2>2
  <2>4. m # "none" /\ Length(m) \in {400, 800} /\ (Length(m) = 800 <=> m = "MODE1")
    BY DEF Tests, Length
  <2>5. CASE m = "MODE1" /\ tempo' = 400
    <3>1. line_cur' = 0 /\ csv' = "none" /\ ctrl' = "loop"
      BY <1>4, <2>1, <2>4, <2>5 DEF log_test
    <3> QED
      BY <2>5, <3>1 DEF Lines
  <2>6. CASE ~(m = "MODE1" /\ tempo' = 400)
    <3>1. /\ line_cur' = IF tempo = 0 THEN 1 ELSE (line_cur + 1) % Width
          /\ csv' = IF tempo = 0 \/ line_cur = 0 THEN m ELSE csv
      BY <1>4, <2>6 DEF log_test, NextLine, Restarts
    <3>2. tempo' = 400 => ctrl' = "end"
      BY <2>1, <2>4, <2>6
    <3>3. CASE tempo = 0
      <4>1. tempo' = 1 /\ ctrl' = "loop" /\ line_cur' = 1 /\ csv' # "none"
        BY <2>1, <2>2, <2>4, <3>1, <3>3
      <4> QED
        BY <4>1 DEF Lines
    <3>4. CASE tempo \in 1..399
      <4>1. tempo' = tempo + 1 /\ line_cur' = tempo' /\ csv' # "none"
        BY <2>1, <2>2, <2>3, <2>4, <3>1, <3>4 DEF Lines
      <4>2. ctrl' = "end" <=> tempo' = 400
        BY <2>1, <2>4, <3>2, <3>4, <4>1
      <4>3. ctrl' \in {"loop", "end"}
        BY <2>1
      <4> QED
        BY <3>4, <4>1, <4>2, <4>3 DEF Lines
    <3>5. CASE tempo >= 400
      <4>1. line_cur = tempo - 400 /\ (csv = "none" <=> tempo = 400)
        BY <2>1, <3>5 DEF Lines
      <4>2. line_cur' = tempo - 399 /\ csv' # "none"
        BY <2>2, <2>3, <2>4, <3>1, <3>5, <4>1
      <4>3. ctrl' = "end" => tempo' = 800
        BY <2>1, <2>2, <2>4, <3>5
      <4> QED
        BY <2>1, <2>2, <3>5, <4>2, <4>3 DEF Lines
    <3> QED
      BY <2>2, <3>3, <3>4, <3>5
  <2> QED
    BY <2>5, <2>6
<1> QED
  BY <1>2, <1>3, <1>4 DEF LogNext

LEMMA NextDisplayed ==
  ASSUME LogTypeOK, Lines, Displayed, [LogNext]_logVars
  PROVE  Displayed'
<1>1. CASE log_other \/ UNCHANGED logVars
  <2>1. UNCHANGED <<tempo, log>>
    BY <1>1 DEF log_other, ctrl_other, Console, calib_encoder, calib_start,
                calib_select, logVars, vars
  <2> QED
    BY <2>1 DEF Displayed, log
<1>2. CASE log_end
  BY <1>2 DEF log_end, ctrl_end, Displayed
<1>3. ASSUME NEW m \in Tests, log_test(m) PROVE Displayed'
  <2>1. Table("MODE1") = Wheels /\ Wheels \subseteq Written(m) /\ Table(m) \subseteq Written(m)
    BY DEF Table, Written, Wheels, Robot, Columns
  <2>2. CASE m = "MODE1" /\ tempo' = 400
    BY <1>3, <2>1, <2>2 DEF log_test, Displayed
  <2>3. CASE ~(m = "MODE1" /\ tempo' = 400)
    <3>1. /\ csv' = IF tempo = 0 \/ line_cur = 0 THEN m ELSE csv
          /\ visible' = IF tempo = 0 THEN Table(m) ELSE visible
          /\ ctrl = "loop"
      BY <1>3, <2>3 DEF log_test, ctrl_test, Restarts
    <3>2. CASE tempo = 0
      BY <2>1, <3>1, <3>2 DEF Displayed, Tests
    <3>3. CASE tempo # 0 /\ line_cur = 0
      <4>1. csv = "none"
        BY <3>1, <3>3 DEF Lines, LogTypeOK, TypeOK
      <4> QED
        BY <2>1, <3>1, <3>3, <4>1 DEF Displayed, Tests
    <3>4. CASE tempo # 0 /\ line_cur # 0
      <4>1. csv # "none"
        BY <3>1, <3>4, WidthAssumption DEF Lines, LogTypeOK, TypeOK, WidthAssumption
      <4> QED
        BY <3>1, <3>4, <4>1 DEF Displayed
    <3> QED
      BY <3>2, <3>3, <3>4
  <2> QED
    BY <2>2, <2>3
<1> QED
  BY <1>1, <1>2, <1>3 DEF LogNext

LEMMA CalibInvariant == LogSpec => []CInv
<1>1. CInv /\ [LogNext]_logVars => CInv'
  BY NextLogTypeOK, NextStopped, NextRamp, NextLines, NextDisplayed DEF CInv
<1> QED
  BY <1>1, InitCInv, PTL DEF LogSpec

-----------------------------------------------------------------------------
(* The properties                                                          *)

\* The tests' and the log's variables keep their types: the line number never
\* runs out of its width, nor the PWM out of the engines' period.
THEOREM LogTypeCorrect == LogSpec => []LogTypeOK
<1>1. CInv => LogTypeOK
  BY DEF CInv
<1> QED
  BY <1>1, CalibInvariant, PTL

\* For counters of any width: an open table gets no second header.  A counter
\* that wraps has begun the table's lines at 400, so they wrap 400 later, and
\* the turn at 0 begins a new table before.
THEOREM TablesKeepTheirHeader == LogSpec => []HeaderOnce
<1>1. CInv => HeaderOnce
  <2> SUFFICES ASSUME CInv, csv # "none" PROVE line_cur # 0
    BY DEF HeaderOnce
  <2>1. /\ Width \in Nat /\ Width > 800 /\ tempo \in Nat /\ ctrl \in {"loop", "end"}
    BY WidthAssumption DEF WidthAssumption, CInv, LogTypeOK, TypeOK
  <2> QED
    BY <2>1 DEF CInv, Lines
<1> QED
  BY <1>1, CalibInvariant, PTL

\* For counters of any width: a test that has begun the table it prints in
\* shows cells of the same turn only.
THEOREM FreshRows == LogSpec => RowsAreFresh
<1>1. ASSUME CInv, [LogNext]_logVars
      PROVE  [\A m \in Tests : ctrl_test(m) /\ csv' = m => visible' \subseteq Written(m)]_logVars
  <2>1. Displayed'
    BY <1>1, NextDisplayed DEF CInv
  <2> QED
    BY <2>1 DEF Displayed, Tests
<1> QED
  BY <1>1, CalibInvariant, PTL DEF LogSpec, RowsAreFresh

\* For counters of any width: within a sweep the PWM moves by 2 at most in a
\* turn, on both ramps, between them and past the end of the test.
THEOREM SmoothSweep == LogSpec => SweepIsSmooth
<1>1. ASSUME CInv, [LogNext]_logVars,
             last = "MODE1", mode = "MODE1", ctrl = "loop", tempo # 0, tempo' # tempo
      PROVE  /\ motor'.distance - motor.distance <= 2
             /\ motor.distance - motor'.distance <= 2
  <2>1. ctrl_test("MODE1")
    BY <1>1 DEF LogNext, log_other, log_end, log_test, ctrl_other, ctrl_end,
                ctrl_test, Console, calib_encoder, calib_start, calib_select,
                Tests, logVars, vars
  <2>2. motor' = Pwm(SweepPwm(tempo)) /\ motor = Pwm(SweepPwm(tempo - 1))
    BY <1>1, <2>1 DEF ctrl_test, CInv, Ramp
  <2>3. tempo \in Nat \ {0}
    BY <1>1, WidthAssumption DEF WidthAssumption, CInv, LogTypeOK, TypeOK
  <2>4. motor'.distance = SweepPwm(tempo) /\ motor.distance = SweepPwm(tempo - 1)
    BY <2>2 DEF Pwm
  <2> QED
    BY <2>3, <2>4, SweepSteps
<1>2. CInv /\ [LogNext]_logVars =>
        [last = "MODE1" /\ mode = "MODE1" /\ ctrl = "loop" /\ tempo # 0
           /\ tempo' # tempo
           => /\ motor'.distance - motor.distance <= 2
              /\ motor.distance - motor'.distance <= 2]_vars
  BY <1>1
<1> QED
  BY <1>2, CalibInvariant, PTL DEF LogSpec, SweepIsSmooth

\* For counters of any width: a test selected once the controller has stopped
\* starts at the counter's 0, whatever tests were broken off before.
THEOREM TestsStartFresh == LogSpec => FreshFromStop
<1>1. CInv /\ [LogNext]_logVars =>
        [\A m \in Tests : Enters(m) /\ last = "STOP" => tempo = 0]_vars
  BY DEF CInv, Stopped, Enters
<1> QED
  BY <1>1, CalibInvariant, PTL DEF LogSpec, FreshFromStop
=============================================================================
