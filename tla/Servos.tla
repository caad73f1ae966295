------------------------------- MODULE Servos -------------------------------
(***************************************************************************)
(* The servos of the geonobot machine: commands of the SD21 card           *)
(* (drivers/actuators/sd21.c), three writes each, over the two-wire bus    *)
(* (arch/xmega/twi.c).  The event task and the calibration menu command    *)
(* servos, a tick may take the CPU from either between two accesses to the *)
(* bus's registers, and nothing keeps the other one off the bus.           *)
(*                                                                         *)
(* The card may hold the clock for longer than twi_wait_wif waits, or not  *)
(* acknowledge its address; the driver may also see the flag at its very   *)
(* last poll.  MaxTroubles bounds these faults and the commands begun      *)
(* while the other task is on the bus, MaxCalls the commands and the keys. *)
(***************************************************************************)
EXTENDS Integers, Sequences

CONSTANTS Fitted, MaxCalls, MaxTroubles

Caller  == {"EVNT", "CALIB"}
Uint8   == 0..255
UINT16_MAX == 65535
Uint16  == 0..UINT16_MAX
CAL_RST == 1600
CAL_MIN == 600
CAL_MAX == 2600

\* The machine's table of pulses, in us: 0 to 3 are not used.
sd21 == [i \in 0..10 |->
    CASE i < 4  -> [init |->    0, open |->    0, close |->    0]
      [] i = 4  -> [init |-> 2400, open |-> 1200, close |-> 2400]
      [] i = 5  -> [init |->  600, open |-> 1800, close |->  600]
      [] i = 6  -> [init |->  600, open |->  600, close |-> 2450]
      [] i = 7  -> [init |-> 2600, open |-> 2600, close |->  800]
      [] i = 8  -> [init |-> 1700, open |-> 2120, close |-> 1700]
      [] i = 9  -> [init |-> 1350, open |->  700, close |-> 1350]
      [] i = 10 -> [init |->  875, open |-> 1500, close |->  875]]

servos_nb == Len(Fitted)
Servo     == 0..(servos_nb - 1)
Setting   == {"init", "open", "close"}
None      == <<>>

\* The card has 21 outputs; its registers behind theirs are for other things.
ASSUME FittedAssumption == Fitted \in Seq(0..10) /\ Len(Fitted) \in 1..21
ASSUME ServoBoundsAssumption == MaxCalls \in Nat /\ MaxTroubles \in Nat

VARIABLES
    value,       \* value[s]: the settings of servo s, a record
    servo_id, servo_setting,   \* what the menu works on
    jobs,        \* jobs[t]: the commands t has to carry out, <<servo, value>>
    twi_pc,      \* twi_pc[t]: where t is in twi_write
    twi_part,    \* twi_part[t]: which of the three writes
    owned,       \* the master has addressed the card and not sent a stop
    wire,        \* the byte on its way to the card
    pointer,     \* the card: -2 not addressed, -1 waits for a register number
    card_regs,   \* card_regs[r]: the card's registers
    calls, troubles,
    solo,        \* the tasks whose command nothing has disturbed so far
    sent         \* the last command if it ended undisturbed

settings  == <<value, servo_id, servo_setting>>
bus       == <<owned, wire, pointer, card_regs>>
servoVars == <<settings, jobs, twi_pc, twi_part, bus, calls, troubles, solo,
               sent>>

Bytes == { None, <<"addr">> } \cup { <<"data", b>> : b \in Uint8 }

ServosTypeOK ==
    /\ value \in [Servo -> [Setting -> Uint16]]
    /\ servo_id \in Servo /\ servo_setting \in Setting
    /\ jobs \in [Caller -> SUBSET (Servo \X Uint16)]
    /\ twi_pc \in [Caller -> {"idle", "addr", "addr_wait", "reg", "reg_wait",
                            "val", "val_wait", "stop"}]
    /\ twi_part \in [Caller -> 0..2]
    /\ owned \in BOOLEAN /\ wire \in Bytes
    /\ pointer \in {-2, -1} \cup Uint8
    /\ card_regs \in [0..(3 * servos_nb - 1) -> Uint8]
    /\ calls \in 0..MaxCalls /\ troubles \in 0..MaxTroubles
    /\ solo \subseteq Caller
    /\ sent \in {None} \cup (Servo \X Uint16)

\* twi_master_setup and sd21_setup, which sends nothing on this machine: the
\* registers of the card are what they are.
ServosInit ==
    /\ value = [s \in Servo |-> sd21[Fitted[s + 1]]]
    /\ servo_id = 0 /\ servo_setting = "init"
    /\ jobs = [t \in Caller |-> {}] /\ twi_pc = [t \in Caller |-> "idle"]
    /\ twi_part = [t \in Caller |-> 0]
    /\ owned = FALSE /\ wire = None /\ pointer = -2
    /\ card_regs = [r \in 0..(3 * servos_nb - 1) |-> 0]
    /\ calls = 0 /\ troubles = 0 /\ solo = {} /\ sent = None

-----------------------------------------------------------------------------
(* The callers                                                             *)

\* t begins to carry out the commands.
Begin(t, commands) ==
    /\ twi_pc[t] = "idle" /\ calls < MaxCalls
    /\ calls' = calls + 1
    /\ troubles' = troubles + IF \E u \in Caller : twi_pc[u] # "idle" THEN 1 ELSE 0
    /\ troubles' <= MaxTroubles
    /\ jobs' = [jobs EXCEPT ![t] = commands]
    /\ twi_pc' = [twi_pc EXCEPT ![t] = IF commands = {} THEN "idle" ELSE "addr"]
    /\ UNCHANGED <<twi_part, bus, solo, sent>>

\* A servo of the machine is opened or closed by the event task.
sd21_control_servo ==
    /\ \E s \in Servo, k \in {"open", "close"} :
          value[s][k] # 0 /\ Begin("EVNT", {<<s, value[s][k]>>})
    /\ UNCHANGED settings

\* The menu's 'n', 'b' and 's'.
servo_select ==
    /\ Begin("CALIB", {})
    /\ \/ servo_id' = (servo_id + 1) % servos_nb /\ UNCHANGED servo_setting
       \/ /\ servo_id' = IF servo_id > 0 THEN servo_id - 1 ELSE servos_nb - 1
          /\ UNCHANGED servo_setting
       \/ /\ servo_setting' = CASE servo_setting = "init"  -> "open"
                                [] servo_setting = "open"  -> "close"
                                [] servo_setting = "close" -> "init"
          /\ UNCHANGED servo_id
    /\ UNCHANGED value

\* '+' and '-' on unsigned 16-bit values: 0, less 25, is above the minimum.
Raised(v)  == LET w == (v + 25) % 65536 IN IF w > CAL_MAX THEN CAL_MAX ELSE w
Lowered(v) == LET w == (v + 65536 - 25) % 65536 IN IF w < CAL_MIN THEN CAL_MIN ELSE w

\* The menu's 'r', '+' and '-' change the current setting and send it.
key_tune ==
    \E v \in { CAL_RST, Raised(value[servo_id][servo_setting]),
               Lowered(value[servo_id][servo_setting]) } :
        /\ value' = [value EXCEPT ![servo_id][servo_setting] = v]
        /\ Begin("CALIB", {<<servo_id, v>>})
        /\ UNCHANGED <<servo_id, servo_setting>>

\* The menu's 'O' and 'C': every servo in turn, but the ones not used.
key_all ==
    /\ \E k \in {"open", "close"} :
          LET used == { s \in Servo : value[s][k] # 0 }
          IN  Begin("CALIB", { <<s, value[s][k]>> : s \in used })
    /\ UNCHANGED settings

-----------------------------------------------------------------------------
(* twi_write, called three times by sd21_send_twi_cmd                      *)

\* The servos of a task are commanded in the order of their numbers.
Command(t) == CHOOSE c \in jobs[t] : \A d \in jobs[t] : c[1] <= d[1]

\* Mutant of Register: the three writes go to the first register.
Register_First(t) == 3 * Command(t)[1]

Register(t) == 3 * Command(t)[1] + twi_part[t]

Byte(t)     == CASE twi_part[t] = 0 -> 0
                 [] twi_part[t] = 1 -> Command(t)[2] % 256
                 [] twi_part[t] = 2 -> Command(t)[2] \div 256

\* t's access to the bus: nobody else's command is undisturbed any more.
Touch(t) == /\ solo' = IF twi_pc[t] = "addr" /\ twi_part[t] = 0 /\ wire = None
                       THEN {t} ELSE solo \cap {t}
            /\ sent' = None

\* A fault disturbs every command.
Fault == /\ troubles < MaxTroubles /\ troubles' = troubles + 1
         /\ solo' = {} /\ sent' = None

\* The end of a call of twi_write, and of the command behind the third one.
Next_write(t) ==
    IF twi_part[t] < 2
    THEN /\ twi_part' = [twi_part EXCEPT ![t] = @ + 1]
         /\ twi_pc' = [twi_pc EXCEPT ![t] = "addr"]
         /\ UNCHANGED jobs
    ELSE /\ twi_part' = [twi_part EXCEPT ![t] = 0]
         /\ jobs' = [jobs EXCEPT ![t] = @ \ {Command(t)}]
         /\ twi_pc' = [twi_pc EXCEPT ![t] = IF jobs'[t] # {} THEN "addr" ELSE "idle"]

\* The register twi_write writes next.
Behind(l) == CASE l = "addr" -> "reg" [] l = "reg" -> "val" [] l = "val" -> "stop"

Proceed(t, l) == twi_pc' = [twi_pc EXCEPT ![t] = l] /\ UNCHANGED <<jobs, twi_part>>

\* The card takes a byte: its address, the number of a register, or data for
\* the register, whose number moves on.
Take(b) ==
    /\ owned' = TRUE
    /\ IF b = <<"addr">> THEN pointer' = -1 /\ UNCHANGED card_regs
       ELSE /\ pointer' = CASE pointer = -2 -> -2
                            [] pointer = -1 -> b[2]
                            [] OTHER -> (pointer + 1) % 256
            /\ card_regs' = IF pointer \in DOMAIN card_regs
                       THEN [card_regs EXCEPT ![pointer] = b[2]] ELSE card_regs

\* t writes ADDR or DATA and waits for the flag.  Data is lost when a byte is
\* held back or the bus is not owned; the wait then runs out, which reads as a
\* success since the counter has wrapped.  A start makes a byte held back lost.
write_byte(t, b) ==
    /\ Proceed(t, Behind(twi_pc[t]))
    /\ Touch(t)
    /\ IF b = <<"addr">> \/ (owned /\ wire = None)
       THEN Take(b) /\ wire' = None
       ELSE UNCHANGED bus
    /\ UNCHANGED <<settings, calls, troubles>>

\* The same with a card that holds the clock, ...
write_byte_held(t, b) ==
    /\ Fault
    /\ b = <<"addr">> \/ (owned /\ wire = None)
    /\ wire' = b
    /\ Proceed(t, CASE twi_pc[t] = "addr" -> "addr_wait"
                    [] twi_pc[t] = "reg"  -> "reg_wait"
                    [] twi_pc[t] = "val"  -> "val_wait")
    /\ UNCHANGED <<settings, owned, pointer, card_regs, calls>>

\* ... with one that does not acknowledge its address, at which nothing looks:
\* it takes no byte of the transfer, ...
write_addr_nack(t) ==
    /\ twi_pc[t] = "addr" /\ Fault
    /\ owned' = TRUE /\ wire' = None /\ pointer' = -2
    /\ Proceed(t, "reg")
    /\ UNCHANGED <<settings, card_regs, calls>>

\* ... and with a flag seen at the very last poll, which leaves the counter at
\* 0 and reads as a time-out: twi_write returns without a stop.
write_byte_last_poll(t, b) ==
    /\ Fault
    /\ b = <<"addr">> \/ (owned /\ wire = None)
    /\ Take(b) /\ wire' = None
    /\ Next_write(t)
    /\ UNCHANGED <<settings, calls>>

\* What t writes: the address, the number of the register, the data.
Out(t) == CASE twi_pc[t] = "addr" -> <<"addr">>
            [] twi_pc[t] = "reg"  -> <<"data", Register(t)>>
            [] twi_pc[t] = "val"  -> <<"data", Byte(t)>>

twi_write(t) ==
    /\ twi_pc[t] \in {"addr", "reg", "val"}
    /\ \/ write_byte(t, Out(t)) \/ write_byte_held(t, Out(t))
       \/ write_addr_nack(t) \/ write_byte_last_poll(t, Out(t))

\* Mutant of Expired: the wait has no end but the flag.
Expired_Never == wire = None

\* The counter of twi_wait_wif runs out, whatever the card does.
Expired == TRUE

\* twi_wait_wif for a byte held back.
twi_wait_wif(t) ==
    /\ twi_pc[t] \in {"addr_wait", "reg_wait", "val_wait"}
    /\ wire = None \/ Expired
    /\ Proceed(t, CASE twi_pc[t] = "addr_wait" -> "reg"
                    [] twi_pc[t] = "reg_wait"  -> "val"
                    [] twi_pc[t] = "val_wait"  -> "stop")
    /\ Touch(t)
    /\ UNCHANGED <<settings, bus, calls, troubles>>

\* A byte held back reaches the card in the end.
Late ==
    /\ wire # None
    /\ Take(wire) /\ wire' = None
    /\ UNCHANGED <<settings, jobs, twi_pc, twi_part, calls, troubles, solo, sent>>

\* The stop; a byte held back is lost.
write_stop(t) ==
    /\ twi_pc[t] = "stop"
    /\ Next_write(t)
    /\ owned' = FALSE /\ wire' = None /\ pointer' = -2
    /\ solo' = IF twi_part[t] = 2 THEN {} ELSE solo \cap {t}
    /\ sent' = IF twi_part[t] = 2 /\ t \in solo THEN Command(t) ELSE None
    /\ UNCHANGED <<settings, card_regs, calls, troubles>>

Step(t) == twi_write(t) \/ twi_wait_wif(t) \/ write_stop(t)

ServosNext ==
    \/ sd21_control_servo \/ servo_select \/ key_tune \/ key_all
    \/ \E t \in Caller : Step(t)
    \/ Late

\* The tasks go on; the card owes nothing.
ServosFairness == \A t \in Caller : WF_servoVars(Step(t))

ServosSpec == ServosInit /\ [][ServosNext]_servoVars /\ ServosFairness

-----------------------------------------------------------------------------
\* A command that no other task and no fault has disturbed has reached the
\* card whole, whatever the state the transfer before it has left the bus in.
CommandIsWhole ==
    sent # None =>
        /\ card_regs[3 * sent[1]] = 0
        /\ card_regs[3 * sent[1] + 1] + 256 * card_regs[3 * sent[1] + 2] = sent[2]

\* Every command ends, however slow the card is and whoever else is on the
\* bus: the task gets past twi_wait_wif.
CommandsEnd == \A t \in Caller : twi_pc[t] # "idle" ~> twi_pc[t] = "idle"
=============================================================================
