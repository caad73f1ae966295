------------------------------ MODULE DataLog ------------------------------
(***************************************************************************)
(* The CSV tables that the calibration tests print (drivers/system/log.c), *)
(* on top of CalibModes: a turn of a test may begin a table, writes some   *)
(* of its cells and prints a line; the last turn prints one more line and  *)
(* the footer.  Which table the lines belong to and what their cells hold  *)
(* depends on the counter the tests share and on the turns of other modes  *)
(* in between.  Only the controller's task uses the log.                   *)
(***************************************************************************)
EXTENDS CalibModes

VARIABLES
    line_cur,    \* the next line's number, an uint16_t
    visible,     \* the columns displayed
    csv          \* the test whose table is open on the console, or "none"

log     == <<line_cur, visible, csv>>
logVars == <<vars, log>>

Wheels  == {"left_speed", "right_speed", "left_command", "right_command"}
Robot   == {"robot_speed.distance", "speed_order.distance"}
Columns == Wheels \cup Robot

LogTypeOK ==
    /\ TypeOK
    /\ line_cur \in 0..(Width - 1)
    /\ visible \subseteq Columns
    /\ csv \in Tests \cup {"none"}

\* log_vect_init: no column is displayed.
LogInit ==
    /\ Init
    /\ line_cur = 0 /\ visible = {} /\ csv = "none"

\* Mutant of Table: the robot's columns are left on in the sweeps.
Table_All(m) == Columns

\* The columns log_vect_reset is given by test m.
Table(m) == IF m = "MODE1" THEN Wheels
            ELSE {"left_command", "right_command"} \cup Robot

\* The cells that a turn of test m sets before it prints its line: the speeds
\* in encoder_read, the commands in motor_drive, the others itself.
Written(m) == IF m = "MODE1" THEN Wheels ELSE Columns

\* The first turn of a test restarts the log: the first by the counter.
Restarts == tempo = 0

\* Mutant of NextLine: the line that is printed with the header is not counted.
NextLine_Headless == IF Restarts \/ line_cur = 0 THEN 0 ELSE (line_cur + 1) % Width

NextLine == IF Restarts THEN 1 ELSE (line_cur + 1) % Width

\* One turn of a test: reset, cells, line; in MODE1 between the two sweeps one
\* more line, the footer and a new table.
log_test(m) ==
    /\ ctrl_test(m)
    /\ IF m = "MODE1" /\ tempo' = 400
       THEN line_cur' = 0 /\ visible' = Table(m) /\ csv' = "none"
       ELSE /\ line_cur' = NextLine
            /\ visible' = IF Restarts THEN Table(m) ELSE visible
            /\ csv' = IF Restarts \/ line_cur = 0 THEN m ELSE csv

\* The last turn's second line and the footer.
log_end ==
    /\ ctrl_end
    /\ line_cur' = (line_cur + 1) % Width
    /\ csv' = "none"
    /\ UNCHANGED visible

log_other == (ctrl_other \/ Console) /\ UNCHANGED log

LogNext == log_other \/ log_end \/ \E m \in Tests : log_test(m)

LogSpec == LogInit /\ [][LogNext]_logVars /\ WF_vars(task_controller_update)

-----------------------------------------------------------------------------
\* A test that has begun the table it prints in shows only cells it has set in
\* the same turn, whatever tests ran or were broken off before.  (A test that
\* goes on in another one's table does not: MODE1 under the columns of MODE2
\* repeats the speeds of the robot as they once were.)
RowsAreFresh ==
    [][\A m \in Tests : ctrl_test(m) /\ csv' = m => visible' \subseteq Written(m)]_logVars

\* Under an open table the line counter never comes back to zero, which would
\* print a header among its lines: however long a test runs on past its end,
\* its own counter wraps first and restarts the log.
HeaderOnce == csv # "none" => line_cur # 0
=============================================================================
