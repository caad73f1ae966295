# Verification of the COGIP AVR firmware

TLA+ models of the firmware that runs the robots "cortex", "minus" and
"geonobot": the KOS kernel on the AVR and in the simulator, the game's tasks, the
wheels controller with its calibration tests and their log, the drivers of
sensors, servos, encoders and engines, geonobot's tower and the obstacle
avoidance.  TLC checks them on small instances.  For every value of their
constants TLAPS proves: of the kernels, their safety and, on the AVR, their
timing; of the game, the safety properties that hold; and the safety properties
of the calibration tests and their log, the sensors, the servos, the encoders,
the engines and the tower.

All definitions are translated from the C sources.  `PROJECT.json` lists, for
each definition, the lines it stands for.

## 1. The system

One microcontroller (ATxmega), one CPU, three or four tasks and IDLE.

| Component | State | Operations | Talks to |
|---|---|---|---|
| KOS scheduler (`arch/xmega/kos.c`) | `tasks[]`, the circular list, `status` and `nb_tick_to_wait` of each task, `kos_current_task` | registration, `kos_yield`, `kos_delay_ms`, `kos_set_next_schedule_delay_ms`, `kos_task_exit`, the tick | every task; the tick timer's interrupt |
| Tick timer (`core/msched.c`, `arch/xmega/hwtimer.c`) | the period, one overflow flag | `msched_init`, the interrupt | the scheduler |
| Planner (`core/planner.c`) | `game_time`, `game_started`, `in_calibration`, the path and its index | `task_planner`, `planner_start_game`, `planner_enter_calibration` | the controller through its setters |
| Wheels controller (`core/controller.c`) | the global `controller` (mode, orders, `pose_reached`, `regul`), the static `tempo` | `task_controller_update`, setters and getters, calibration tests | the H-bridge, encoders; planner and console |
| Calibration entry (`machines/*/platform_task.c`) | the autoboot countdown | menus on the console, the start of the game | controller, planner |
| Encoders (`arch/xmega/qdec.c`, `core/encoder.c`) | the quadrature counters, the sums of a calibration session | read and recentred once per turn of the controller; the session of the menu | controller, console |
| Odometry, PID (`core/odometry.c`, `core/pid.c`) | pose, sums of errors, in floating point | one update per turn | controller |
| Analog sensors (`drivers/sensors/analog_sensor.c`, `arch/xmega/adc.c`) | the index of the sensor converted, three averages per sensor | a chain of conversions started after each turn of the controller, carried on by the conversion interrupt; the verdict "obstacle" | controller, planner |
| Servos (`drivers/actuators/sd21.c`, `arch/xmega/twi.c`) | the settings, the bus's registers | a command of three writes, each polled to its end | the event task, console |
| H-bridge (`drivers/actuators/hbridge.c`) | direction pin and duty cycle of each engine | one update per engine and turn; the PWM menu | controller, console |
| Data log (`drivers/system/log.c`) | the columns displayed, the line counter | a table per calibration test | controller |
| Obstacle avoidance (`core/avoidance.c`) | the obstacles, the visibility graph, the search's tables | the graph, the shortest path, its points one by one | a draft in the planner that is not built |
| Geonobot's event task (`machines/geonobot/action.c`) | the elevator's two flags | `gestion_tour`, `attraper_cup`, end of game | servos, end switches, motor |
| Unix port (`arch/unix`) | contexts and stacks of the tasks, the simulated wheels | the same kernel on `ucontext` and a POSIX timer; engines whose command comes back through the encoders | the same tasks |

What makes it hard: the tick may switch tasks between any two instructions that
do not mask interrupts, also inside the scheduler; tasks share globals, a few of
them behind `irq_disable`/`irq_enable`, the others not; the order of the last
steps of one task and the first steps of another (the end of a calibration, the
start and the end of a game) was never written down; delays and counters are 8
or 16 bits wide.

What makes each component correct:

* scheduler: one cycle through all tasks; every awake task gets the CPU within
  a few ticks; nobody wakes early; an exited task never runs its own code again
  and leaves the CPU for good;
* planner and controller: no game moves the robot before its starter is released; the
  orders follow the path; a pose declared reached is the one ordered; the mode
  follows the game; the game ends and the wheels stop; an obstacle holds the
  robot;
* calibration tests: each ends, starts from its beginning, and moves smoothly;
* sensors: a sample is stored for its own sensor; what stays in front is
  reported and nothing else;
* servos: a command nobody disturbs arrives whole, whatever the transfer before
  it came to; every command ends;
* encoders: a movement is read once, with its sign; a session's sums tell it;
* engines: a command that is alone drives the wheel it is for, with its sign and
  limited to the PWM's period; STOP stops;
* log: one header per table, and no cell of another test in it;
* avoidance: the legs of a route lead around the obstacles and on to its pose;
* tower: the elevator rises with its clamp closed and goes down with it open; a
  descent comes up again;
* simulator: the kernel keeps the AVR kernel's promise, releases the stacks of
  exited tasks and no others; a wheel follows its command.

## 2. Modules

| Module | Models | Role |
|---|---|---|
| `Kos` | `arch/xmega/kos.c`, `core/msched.c` | the kernel, at the grain of its critical sections |
| `Multitasking` | `documentation/multitasking.md`'s promise | abstract specification that `Kos` implements |
| `KosTiming` | `Kos` with history variables | the timing properties |
| `KosProofs` | | theorems about `Kos` and `KosTiming`, for any number of tasks |
| `Game` | `core/planner.c`, `core/controller.c`, `machines/cortex/platform_task.c` | the game's three tasks over the shared globals |
| `Match` | what a game shows from outside | abstract specification that `Game` implements without a visit to 'g' |
| `GameProofs` | | theorems about `Game`, for any path, length of a game and number of visits |
| `CalibModes` | `core/controller.c`, modes CALIB_MODE1 to 3 | the calibration tests and the console |
| `DataLog` | `drivers/system/log.c` and its calls in `core/controller.c`, `core/encoder.c` | extends `CalibModes` by the tables the tests print |
| `UnixKos` | `arch/unix/kos.c`, the timer of `arch/unix/hwtimer.c` | the simulator's kernel, against `Multitasking` |
| `Sensors` | `drivers/sensors/analog_sensor.c`, `arch/xmega/adc.c`, the cortex table | the chain of conversions and the verdict |
| `Servos` | `drivers/actuators/sd21.c`, `arch/xmega/twi.c`, the geonobot table | two tasks that command servos over one bus |
| `Encoders` | `arch/xmega/qdec.c`, `core/encoder.c`, the QDEC mode of `arch/xmega/hwtimer.c` | counters, readings and the calibration session |
| `Engines` | `drivers/actuators/hbridge.c`, `motor_drive`, the PWM of `arch/xmega/hwtimer.c` | the controller and the PWM menu on the same engines |
| `Tower` | `machines/geonobot/action.c` (`monter_tour`), `sensor.c`, the event loop | elevator, clamp and door |
| `SimWheels` | `arch/unix/hwtimer.c`, `qdec.c`, `gpio.c` | a simulated wheel and its encoder |
| `Avoidance` | `core/avoidance.c`, the draft in `core/planner.c`, `machines/cortex/obstacle.c` | the graph, the search and the way along the route |
| `Bench` | | puts the modules from `UnixKos` to `Avoidance` side by side for TLC, one part in each behaviour |
| `CalibProofs` | | theorems about `CalibModes` and `DataLog`, for counters of any width |
| `UnixKosProofs` | | theorems about `UnixKos`, for any number of tasks |
| `DriversProofs` | | theorems about `Sensors`, `Servos` and `Tower`, for any table of sensors, any servos and any elevator |
| `WheelsProofs` | | theorems about `Engines` and `Encoders`, for any commands and any counter |
| `AvoidanceProofs` | | theorems about `Avoidance`, for any number of rectangular obstacles |
| `BenchProofs` | | theorems about `SimWheels`, and those of the parts carried over to `Bench` |

### 2.1 Kos

A task is its index in `tasks[]`.  `pc[t]` says where a task is or will resume:
in its own code (`user`), in the walk of `kos_get_next_task` (`scan`), with a
task chosen but not switched to (`dispatch`), behind `kos_dispatch`
(`switched`), in the endless loop of `kos_task_exit` (`loop`).  `ptr[t]` is the
local variable of that walk.  Saving a context is leaving `pc[t]` where it is;
restoring one is making `t` current.

`kos_schedule` called by a task walks the list with interrupts enabled, one
element per step; only `kos_dispatch` is atomic.  The tick interrupts any step
of a task that has interrupts enabled, and runs to its own switch in one step
(`TickIsr`): it decrements the delays, walks the list and dispatches.  The
timer's flag is one bit, so a tick that comes while interrupts are off for more
than a period is lost.

What a task does between its calls is not modelled: it may make any call at any
time (`Call`), or none.  A task does not exit with interrupts masked, which no
task of the repository does; IDLE makes no call.

Left out: stacks and registers, the stack check (it only prints), semaphores,
queues and `kos_isr_enter` (not compiled or not called).

### 2.2 Game

The planner, the controller and the calibration entry with a program counter
each (`plan`, `ctrl`, `calib`).  A step is an access to shared state, or several
that no other task can tell from one.  The setters and getters that mask
interrupts are atomic; `controller_set_mode` and the planner's flags are plain
accesses, and so is the path's index, which the planner moves in three steps
(`plan_compare`, `plan_load`, `plan_store`) and the calibration's 'n' and 'p' in
three others: it is compared with the path's end, loaded and stored.  The second
step takes the value compared, which the firmware (`-Os`) still holds in a
register, or a new one, which the simulator (`-O0`) loads.  Between the
comparison of one task and its store the other one may move the index: moves are
lost, or both count and the index passes the path's end by one or two.  `Slots`
are the poses and the two places behind them, which are then ordered like poses;
`Beyond` says which of them the robot may get to.

Menu 'o' puts the controller in IDLE; 'p' too, and drives the wheels with keys;
'r' selects a test of the wheels (mode CALIB, what it drives is in `CalibModes`).
The last turn of a test stops the wheels and then writes STOP (`ctrl_end`),
whatever mode the console has set in the meantime: a test that ends while the
game starts leaves its STOP behind, and the robot stands for the whole game.
`ModeFollowsGame` names that write as the only one that takes the mode away.

`Kos` decides which task runs; `Game` lets any of them take the next
step, which covers what any schedule of the kernel does.

Data is abstracted to what decides: a pose is its index; the speed order is
zero or full; the wheels are told `off`, `hold` (regulated to no speed), `turn`
or `go`; the robot is at a pose of the path or `AWAY`, and changes place only
when told to `go`.  Where the arithmetic of `controller_update` decides (is the
robot aligned?) the model tries both outcomes.

`Game` starts when the planner and the controller have reached their loops: the
planner is registered last, hence dispatched first, and its first lines print
35 characters and mirror four poses, which fits in one tick of 10 ms.

What is ahead of the robot matters only when the planner looks: `obscured` is what
the last look said, and each look may say either.  `overrun` (history) counts the turns of the
controller that have driven the wheels since the planner first saw an obstacle,
until it sees none.  The tests of the wheels and the PWM menu look at no obstacle
and are not counted.

`Match` is the game as somebody sees it who watches the wheels, the starter and
the pose ordered: set-up, running, over; one pose after another; wheels that are
driven only by turns of the controller that begin before the end, and end behind
the start and the release.  `Played` in `Game` is the mapping: the phase is read
from `game_started` and the planner's exit, a turn is a `ctrl` away from its loop.
Most steps of the three tasks are stutters.

Left out: `allow_reverse` and `act`, which the machine's path leaves at zero,
`play_in_loop` ("for unit tests"), the tuning of a pose's coordinates.

### 2.3 CalibModes

`tempo`, the local `speed_order.angle` (`spin`) and the wheels' command, with
the thresholds and the arithmetic of the code.  Only `controller.mode` is shared
with the console, so a turn of the controller is one step, plus one when a test
ends (`ctrl_end`), before which the console may change the mode.

### 2.4 DataLog

`CalibModes` with the log: each turn of a test resets the table when its counter
is 1, writes its cells and prints a line (`line_cur` decides whether a header
goes first), the last turn prints one more line and the footer.  `visible` are
the columns displayed, `csv` is the test whose table is open on the console.
What a line looks like is left out; which columns it has and whether they were
set in this turn is not.

### 2.5 UnixKos

The simulator's kernel differs from the AVR's where it matters: nothing masks
the tick outside its handler, `kos_dispatch` is two steps (the assignment of
`kos_current_task`, then `swapcontext`), and the walk of `kos_get_next_task`
unmaps the stacks of exited tasks, in two steps again (`munmap`, then the size
and the bounds).  `uctx[t]` is whose context `tasks[t].uctx` holds, `running` is
whose code the CPU executes; after a tick between two of these steps they may
differ.  How such a simulation goes wrong is `outcome`: a context is lost, a
stack in use is unmapped (`segv`), `munmap` refuses a stack released twice
(`exit`).  The properties hold up to there, and `ContextsKept` is finding 6.

### 2.6 Sensors

The pipeline of the ADC channel holds two conversions; a start that finds it
full is lost, and a result that finds the last one not served overwrites it.
`refresh_mux` and `refresh_start` are the two accesses of
`analog_sensor_refresh_all`, between which the conversion interrupt may move the
multiplexer on.  `origin[i]` (history) is the pin that the newest sample of
sensor i is from.  The distance law is in integers: the machine's coefficients
are decimal fractions, and the comparison with 30 cm is multiplied out.  A
negative denominator makes the conversion to `uint8_t` undefined in C: there
both verdicts are possible.

### 2.7 Servos

`jobs[t]` is the set of commands a task has begun to carry out, in the order of
the servos' numbers, as the code's loops do; `Command(t)` is the one it is at.
A command is three transfers of three bytes; each access to the bus master that
another task can tell apart is a step (`twi_pc[t]`, `twi_part[t]`).
`twi_wait_wif` returns the flag, or gives up; its counter wraps when it does, so
giving up reads as a success and a flag seen at the last poll as a time-out,
which leaves the bus without a stop.  `owned`, `wire`, `pointer` and `card_regs`
are the bus and the card's registers.  `solo` (history) are the tasks in whose
command neither a fault nor the other task has come between.  The card has 21
outputs, so at most 21 servos are fitted, each with a row of the table of pulses
(`FittedAssumption`).

### 2.8 Encoders and Engines

`Encoders`: the counter runs at any moment (`Pulses`), also between
`timer_get_cnt` and `timer_set_cnt` of a reading; the sums of the session are
loaded and stored in two steps, the menu's key 'S' zeroes them.  The counter's
period has 16 bits and a reading is an `int16_t`, hence `LineCount` is at most
8192.  `travel[w]` and `due[w]` (history) are the pulses a reading and a sum should
tell; `total[w]` (history) are the readings of the session added up without
bound, of which the sum keeps what an `int16_t` does (`int16_t(n)`, with `Width`
values: 65536 in the code).  The centre of the
counter is `line_count / 2`, which is an eighth of its range, not a half: a
reading is right up to 250 pulses one way and 1749 the other.  A movement
past the short end costs the totals whole ranges of the counter; past 32767
pulses the sums wrap, which costs them whole widths.  `SumsTellTravel` says both.
Sessions whose start falls in the middle of an addition
(`raced`) are left out of `SumsTellTravel`.

`Engines`: an update is a write to the direction pin and one to the duty cycle.
The controller's turn updates both engines, with what its mode says; the PWM
menu updates one at each key, and puts the controller in IDLE.

### 2.9 Tower

One pass of `gestion_tour` with a step per sensor read: `detect_spot`,
`detect_elevator_up` and `detect_elevator_down` are read up to five times in a
pass, and the elevator moves and spots come and go in between.  The motor is
commanded by the two writes of `hbridge_engine_update`, first `tower_pin`, then
`tower_duty`.  What stops a descent (`pwm` 0) first sets the direction of an
ascent, with the descent's power still on: a tick in between jolts the elevator
up, its clamp open, and perhaps off the lower switch, which the same pass reads
next.  `Stopping` is that moment.  `MovesWithClamp` allows the jolt and no other
rise with the clamp open; `CarriesUp` asks for the bottom unless the descent is
jolted off it again and again (`Jolts`).

The geonobot has
no path, so its planner ends at once, and the route that would set
`flag_tower_down` is never driven: the flag stays 0 and `gestion_tour` is
`monter_tour`.

### 2.10 SimWheels and Avoidance

`SimWheels`: the direction of the engine (`gpio_set_output`), the limitation, and
the filter over three values that a write to the duty cycle computes and
`timer_get_cnt` returns, in the integers of the code.  It settles up to three
pulses below the command, and its first reading is -250, before any command:
`qdec_setup` recentres the timer but not the buffer.

`Avoidance`: the visibility graph (`build_avoidance_graph`, with its special case
for two vertices of one polygon), the search (`dijkstra`, as a recursive function
over its tables) and the walk back through `child[]`, as pure operators; then
the draft's drive along a path, with the statics of
`mach_trajectory_get_route_update` as variables.  `FirstCall` seeks the first
route, `LegReached` goes on to the next leg, `RouteReached` to the path's next
pose.  The last one seeks its route before it updates `pose_reached`
(`planner.c:92` and `:100`): every route but the first starts at the pose before
the robot's, which does not keep it from leading on to its pose (`RouteLeads`), but
the leg from the robot to the route's first point is on no graph.  Such a leg
may cut the obstacle: with the machines' obstacle, a robot that starts at
<<7, 5>> and has reached <<7, 3>> of the path <<7, 3>>, <<2, 4>> is ordered to
<<5, 5>>, across the diagonal.  `LegIsFree` is about all other legs.

The quotients of slopes are compared as quotients: a zero divisor makes them
infinite or unequal to everything.  Left out: a start or a finish inside an
obstacle, for which the code has a TODO and reads `child[]` where nothing was
written, and points on the border of an obstacle that are not vertices of it,
from which a straight leg through the inside crosses a single edge.

### 2.11 Bench

The parts from `UnixKos` to `Avoidance` share no state, only the tasks that call
them, whose interleavings each part models.  `Bench` therefore chooses one part
at the start of a behaviour and runs that one alone: its states are the union of
the parts' states, not their product.  Each of its properties is a part's
property; the module of the part says why it matters.  It extends the modules
of the parts that have names to themselves, so that their assumptions are
evaluated and the properties that the theorems state are those it checks, and
instantiates `SimWheels` and `Avoidance`.

## 3. Runs

| Run | Question | Bounds | Result |
|---|---|---|---|
| `kos_timing` | waiting time, early wake-ups, switches to exited tasks, the list | 3 tasks and IDLE, one delay of 2 ticks | holds: at most 6 ticks of waiting (5 are reached), at most 2 switches to an exited task (reached) |
| `kos_live` | does `Kos` implement `Multitasking`; does an exited task leave the CPU | 2 tasks and IDLE | holds |
| `kos_zombie` | "A task in ZOMBIE state [...] will not be scheduled anymore" | 2 tasks | violated: a stale choice is dispatched |
| `kos_idle` | IDLE runs "if all tasks relaxs the CPU" | 2 tasks | violated: the tick does not consider the task it interrupts |
| `game_auto` | games without a visit to the planner's calibration ('g'): started by the countdown, or from the menu after 'o' | 3 poses, 4 periods, 2 looks at the console | holds |
| `game_calib` | games after visits to the menus: the index, the mode, an obstacle | 2 poses, 3 periods, 2 visits to 'g', tests of the wheels, the PWM menu | holds, but for a test that ends behind the start |
| `game_starter` | "while starter switch is not release we wait" | 2 poses, 1 visit | violated after a visit to 'g' |
| `game_reach` | a pose declared reached is the one ordered, and the robot is there | 2 poses, 1 visit | violated: the controller's copy is stale |
| `calib_modes` | the calibration tests and the tables they print (`DataLog`) | thresholds of the code, `Width` = 1000 | holds |
| `calib_entry` | "first entry, we reset the datalog" | same | violated when a test is selected during another |
| `bench` | the simulator, the drivers, the tower, the avoidance, one at a time | below | holds |
| `unix_switch` | the framework "can store & restore context of all the different tasks" | 2 tasks and IDLE | violated in the simulator: a tick between the two halves of `kos_dispatch` |

Why the bounds are enough.  Three tasks are the number the cortex and minus
machines register; with them each of the three situations of a walk (a task
behind, ahead and under the walk's pointer) occurs with a third task to exploit
it.  The ideal wait of a round robin over three tasks would be 2 ticks; with the
run's delay 5 are reached, because a task preempted between its choice and its
switch may later pass the CPU to the task it chose then, twice.  Delays of 2
and 4 ticks together reach 6, which is `N * (N + 1) / 2`, the bound that
`KosProofs` proves for any number of tasks and any delays.  Two poses are enough
to take one for the other, three to skip one.  A game of 3 or 4 periods has a first, a middle and
a last one.  Two visits to 'g' let a second one find what the first left; the
index passes the path by at most two with any number (`TypeCorrect`).  `Beyond` is
empty in the runs: the robot gets to no place behind the path's end, though it
may be sent there; the theorems allow any.  `MaxSessions < GameTicks` is needed by `ModeFollowsGame`: a visit to 'g'
may cost one period of game time (the planner looks at `in_calibration` again in
the middle of a period), and 900 such visits, the real `GAME_DURATION_TICKS`,
would end a game that has not begun.  `Width` stands for 65536: the tests compare
`tempo` with 800 at most, and what matters is that it wraps somewhere above.

The bounds of `bench`, part by part:

* `UnixKos`: 2 tasks and IDLE, delays of one tick and of two.  One task exits
  while the other walks the list, and each may be the one preempted.
* `Sensors`: the first three sensors of the table, whose distance laws differ;
  the raw values 112, near for each of the three, and 138, far for each of them;
  one change of a sight or one refresh that overlaps a chain.  The overlap is
  what disturbs the chain; a second one finds the chain in a state the first
  may already have left it in, which `DriversProofs` covers for `ChainWraps`.
* `Servos`: one servo whose two pulses differ in both bytes, 2 commands or keys,
  one trouble (a slow card, no acknowledgement, a flag at the last poll, or the
  other task on the bus).
* `Tower`: an elevator of 4 positions: the two ends and two between them.
* `Encoders`: geonobot's two polarities on a counter of 16 values with centre 2;
  two moves of -3 or 13 pulses, each past the short end for one wheel and within
  the range for the other.  Sums of 20 values wrap in the second reading, by a
  width that is no multiple of the range, as 65536 is none of 2000.
* `Engines`: a drive that is within the PWM's period for one wheel and beyond it
  for the other, the menu's steps up to +-25.
* `SimWheels`: commands -200, 0 and 40, one change: from each to each other one.
* `Avoidance`: the machines' obstacle on the table of 3 m by 2 m in steps of
  200 mm; 10 points, six around it and its four vertices; paths of two poses, one
  of 2 points and one of the 10, from each of the 10: 200 drives, whose second
  and third routes start from a pose the robot has left.

Deadlock is checked in every run but `bench`, where the servos' callers stop at
their bound.

### Fairness

`Kos`: the boot and the kernel's own code run on, the timer runs, a critical
section ends (weak fairness).  The tick's interrupt needs strong fairness:
tasks may mask and unmask again and again, and a pending interrupt is served at
the first unmasked instruction, which the model allows to be interrupted or not.
No task is assumed to yield.

`Game`, `CalibModes`: weak fairness of each task that does not wait for the
user.  This is what `Multitasking`, checked of `Kos`, provides: each task that
has not exited gets the CPU again and again.  Users, starter and obstacles owe
nothing.

`Bench` assumes what each part does, for the part that runs.  `UnixKos`: boot and
kernel code run on, the timer expires and its signal is delivered; no task is
assumed to call anything.  `Sensors`: the controller takes its turns, a
conversion ends and its interrupt is served.  `Servos`: each task that is in a
command goes on; the card owes nothing.  `Tower`: the pass goes on and a motor
under power moves the elevator; a spot owes nothing.  `Engines`: the controller
takes its turns and the menu finishes an update it has begun; keys owe nothing.
`SimWheels`: a command is given again each turn, as `motor_drive` does.
`Encoders` and `Avoidance` need none.

## 4. Proofs

`KosProofs` proves, for every number of tasks `N >= 1`, every tick period of
`msched_init` and every set of 16-bit delays:

* `TypeCorrect`: type correctness, with the shape of the list and the phases of
  the boot.  `TypeOK` is not inductive alone: that `ptr[t]` stays a task needs
  `next[t]` never NULL once tasks run, which needs the list in closed form
  (`RingShape`) and that tasks run only when all are registered (`Phases`).  The
  inductive invariant is `TypeOK /\ RingShape /\ Phases`.
* `ExitIsFinal`: an exited task never executes its own code again.
* `ExitedTasksNotChosen`: no walk and no tick chooses an exited task.  A switch
  to one was decided before it exited and uses that decision up.  It needs
  `Lives` (IDLE never exits) beside the invariant above.
* `ImplementsPromise`: each step of `Kos` is a step of `Multitasking` or leaves
  its variables unchanged.  Its liveness is checked by TLC in `kos_live`.

The same module proves of `KosTiming`, for the same constants:

* `ListIsACycle` (`[]RingOK`): once the tasks are registered, a walk from any of
  them visits each other task once before it comes back.  The walk is a
  recursive function; it equals the closed form `Hop`, because a least place
  where the two differ has no predecessor to differ from (`SameWalk`).  This
  replaces the induction, which the prover cannot instantiate.
* `DelaysAreHonoured` (`TickHonoursDelay`): a tick gives the CPU to IDLE or to a
  task whose delay has elapsed.  What is owed is at most what the kernel counts
  (`Owing`).  It speaks of the delays that fit their 8-bit counter.
* `RevivalsAreBounded` (`[]BoundedRevival`): an exited task is switched to at most
  `N - 1` times.  A choice of it was made while it lived and is used up by the
  switch, and a task holds one choice at a time (`Revivals`); IDLE holds none
  (`Choosers`).
* `WaitsAreBounded` (`[]BoundedWait`): an awake task waits at most
  `N * (N + 1) / 2` ticks for the CPU, whatever the delays.  The invariant
  `Patience` is about what a waiting task may still have to wait: the tasks
  between the current one and it, plus a detour for each tick that another task
  will cost it by a choice made when the walk had passed it asleep.  A detour is a
  pair of a task and a number, and all of them together are a triangle, half of
  a rectangle, which is where the product comes from without a sum.  A tick uses
  up one place of the walk or, on a stale switch, the detours of the task that
  made it, and a task that waits cannot be passed anew.

`GameProofs` proves, for every path, every length of a game and every set of
commands, with fewer visits to 'g' than the game has periods:

* `TypeCorrect`: type correctness; the index passes the path's end by two at
  most, however the planner and the console move it.
* `ControllerFollowsGame` (`ModeFollowsGame`): INGAME from the start of the
  game to its end, STOP from then on; only the end of a test of the wheels (the
  menu 'r') begun before may take INGAME away, and leaves STOP.
* `ObstacleStopsWheels` (`[]ObstacleHolds`): behind the planner's look at an
  obstacle one turn of the controller at most still drives the wheels, with any
  commands and visits.
* `PlannerExitsFromGame`: the planner leaves its loop from a game only.
* `StoppedStays`: once the planner has exited and the controller has stopped the
  wheels at the top of its loop, no step of any task drives them again.  With
  what TLC checks of `EndStopsWheels`, that this comes about, the robot is
  stopped for good.
* for games without a visit to 'g' (`"g" \notin Commands`): `PathIsFollowed`
  (`OrdersFollowPath`) and `StarterIsAwaited` (`StarterHolds`).  A visit moves the
  robot on purpose and leaves its orders behind (finding 3), so neither holds
  with one.
* for games without the menus that drive the wheels either
  (`Commands \subseteq {"o", "e"}`): `WheelsWait` (`WheelsWaitForGame`) and
  `GameIsPlayed` (`PlaysMatch`): the three tasks implement `Match`.

`ModeFollowsGame` is not inductive.  The invariant adds `Stages` (what the
calibration entry has done, hence that none of its steps that set the mode is
left when `game_started` is raised), `ModeOfPhase` (the mode that
`planner_start_game` has set is there by then, or lost to a test), `TestsSelected`
(a test under way was selected in the menu), `ExitsFromGame`, and for the latter `EarlyPeriods`: before the game, `game_time`
plus the period the planner may be about to count is at most the number of
visits.  This is where `MaxSessions < GameTicks` is used (`NoEarlyExit`).

Nor is `TypeOK`: how far the index passes the path depends on what each of the
two tasks has compared and loaded.  `IndexInv` bounds it: between the planner's
comparison and its store the index is on the path, a console that has compared
while the planner was at it adds to a value before the path's end, and one that
stores behind the planner adds one to an index that is past it already.

`ObstacleHolds` rests on `Held`: behind a look at an obstacle the order is zero, the
controller's copy is of before the look in the turn under way only, and a turn
that has driven the wheels since then was that one.

`OrdersFollowPath` rests on `PathInv`: the order is the planner's current pose,
except between `plan_store` and `plan_send`, where it is one behind and still
declared reached (`OrderInStep`), and what the planner has compared and loaded is
the index, which nobody else moves; and no pose is declared reached before one was
ordered, since nothing brings the robot to the order never given
(`OrderedFirst`).  `WheelsWaitForGame` rests on `MotionInv`: each hand an order
passes through (`speed_order`, the controller's copy, its command, the wheels)
got it in a game that has begun.  `GameIsPlayed` takes all of them: an aim is a
`plan_send` of another pose, the step `ctrl_stop` cannot come while the match
runs nor `ctrl_ingame` behind it (`ModeFollowsGame`), and the match begins once
(`Stages`, `ExitsFromGame`).

`UnixKosProofs` proves, for every number of tasks `N >= 1` and every set of
delays:

* `UnixTypeCorrect`: type correctness.
* `LivingKeepStacks` (`[]LivingStacksMapped`): no walk, in the handler or out of it,
  releases the stack of a living task, nor, while the simulation runs, the stack
  the CPU runs on.
* `UnixImplementsPromise` (`PromiseSafety`): each step is a step of `Multitasking`
  or leaves its variables unchanged.

The invariant adds to the list's shape and the phases of the boot that a walk
releases only tasks that have exited and never the walking one
(`Walks`), and that while the simulation runs each task has its own context and
the current task is the one that runs, except between the two halves of
`kos_dispatch` (`Contexts`).  Finding 6 is why the last part ends where the
simulation does: past it, a context may be lost.

`CalibProofs` proves, for a counter of any width that the thresholds fit
(`Width > 800`):

* `LogTypeCorrect`: type correctness; the line number stays within its width.
* `TablesKeepTheirHeader` (`[]HeaderOnce`): an open table gets no second header.
  The invariant `Lines` ties the line that comes next to `tempo` through both
  tables of a test, its end, and a counter that wraps: the second table's lines
  began 400 later than the counter, so line 0 comes when its table is shut.
* `FreshRows` (`RowsAreFresh`): the columns displayed are those the turn's test has
  written, given that its table is open (`Displayed`).
* `SmoothSweep` (`SweepIsSmooth`): the PWM moves by 2 at most in a turn, on the ramps,
  between them and past the end (`Ramp`, and `SweepSteps` of `SweepPwm`).
* `TestsStartFresh` (`FreshFromStop`): a test selected once the controller has
  stopped starts at 0.  The controller stops behind the end of a test only,
  which resets the counter (`Stopped`).

`DriversProofs` proves, for every non-empty table of sensors, every set of raw
bytes and every number of changes and overlapping refreshes:

* `SensorsTypeCorrect`: the index stays in the table, averages stay bytes and the
  pipeline holds two conversions at most (`AverageIsByte`, `StartedFits`).
* `ChainsWrap` (`[]ChainWraps`): a chain at rest is back at the first sensor.  The
  invariant adds `OnItsWay`: away from index 0 a result waits or is on its way,
  because a start is lost only when two others are in the pipeline.
* `OwnSamples` (`[]SamplesAreOwn`): at the end of a chain that no refresh has
  overlapped, each sensor's newest sample is one of its own pin, whatever
  happened to the chains before.  The invariant adds, for such a chain, that one
  conversion at most is under way, that it is of the pin the index is at, and
  that the sensors before the index have samples of their own already.

`WheelsProofs` proves, for all limits of the menu and all commands of the
controller:

* `EnginesTypeCorrect`: type correctness, the strength within the PWM's period.
* `UpdatesDrive` (`DrivenAsCommanded`): an update in which no other task has
  written to the engine leaves it driven as commanded.  An update is two writes,
  so the invariant adds that a task that has written the pin still has the duty
  cycle to write (`HalfDone`) and that the pin keeps the level of its command
  until then unless another task has written to the engine (`PinKept`).

and, for every line count whose readings fit 16 bits, sums of any width, both
polarities and moves of any length:

* `EncodersTypeCorrect`: type correctness; the counters stay within their range.
* `ReadingsAreTravel` (`ReadingIsTravel`): a reading is the travel since the last
  one, with its sign, where that is within the range around the centre: a pulse
  between the two accesses is in one reading.  It rests on `Counted`: the counter
  tells the travel modulo its range.
* `SumsAreTravel` (`[]SumsTellTravel`): between two turns, the sums of a session
  that began between two turns are what their width keeps of totals that, with
  what the counters hold, are the travel modulo the range, also when it is past
  the counter's ends or the sums'.  `Summed` follows the readings that a turn has
  not added yet (`Unadded`), `SumsKept` the sums through each addition that wraps
  (`Int16Facts`), `Beginning` the two statements that zero the sums.

`DriversProofs` proves too, for an elevator of every height:

* `TowerTypeCorrect`: type correctness.
* `ClampHolds` (`MovesWithClamp`): the elevator rises with the clamp closed and goes
  down with it open, but for the jolt between the two writes that stop a
  descent.  It is not inductive: the motor may still run up
  when the clamp is told to open.  The invariant adds that the flags are those
  of one direction and the motor obeys them, but for the writes that turn it
  round (`Flags`), that a pass writes to the motor what it has read (`Writing`),
  that the clamp opens in a
  descent only or with the elevator at the top (`Opening`), closes in an ascent
  only or at the bottom (`Closing`), and holds wherever the motor can move the
  elevator (`Grip`).

and, for any servos fitted to the card's outputs and any number of commands and
faults:

* `ServosTypeCorrect`: type correctness.
* `CommandsArriveWhole` (`[]CommandIsWhole`): a command that nobody has disturbed
  leaves 0 and the two bytes of its position in the servo's registers, whatever
  state an earlier fault left the bus in.  The invariant follows the command byte
  by byte: the address, which the card takes in any state, the register it
  points at, the byte on the wire and the registers written so far
  (`Undisturbed`); what was delivered stays until another command begins to
  write (`Kept`), and a task in a transfer has a command (`Busy`).

`AvoidanceProofs` proves, for any number of rectangles along the axes (the one
obstacle in each machine's `obstacle.c` is a square), whole coordinates of any size and
any free starts and finishes:

* `EdgeCutsNone`: what the code's tests take for an edge of the graph does not
  meet the inside of an obstacle.  The tests look at the crossing of two edges,
  at two vertices of one obstacle and at a vertex in the middle of the segment,
  none of which alone keeps a segment out.  The proof takes
  an end left of the rectangle: a segment from there that meets the inside comes
  in through a side, which is a crossing, or through a corner, which lies
  between its ends (`FromLeft`).  The other three sides follow by quarter turns
  (`Rotated`).  Two corners with the inside between them are opposite
  (`OppositeCorners`), which is a diagonal.
* `SearchEnds`: `dijkstra` stops after fewer rounds than there are points, so that
  the bound of the model's loop is no restriction.  Each round that goes on
  checks a new point; the invariant of the rounds (`SearchInv`) says besides that
  the parent of a point has been checked and is joined to it by an edge
  (`Parents`), and that what is checked is no farther than what is not
  (`Nearest`).
* `RouteJoins`: the way that `parent[]` leads back ends, at the start if the
  search reached the finish, and each leg of it is an edge.  It ends because a
  parent was checked in an earlier round than its children (`Ranked`).
* `DriveInvariant`: the draft's statics keep their types, the route is the one
  sought from `start` to the path's pose, the index stays short of its end, and
  `pose_reached` is the point of the route that the index tells except on the
  first leg of a route that starts elsewhere.
* `RoutesLead` (`[]RouteLeads`): the route leads to its pose, and no call runs past
  its end.
* `RoutesAreFree` (`[]LegIsFree`): no leg leads through an obstacle, except perhaps the
  first one of a route that does not start at the robot.

The loops of `build_avoidance_graph` and `dijkstra` are recursive functions over
the round.  That such a function exists is proved once, for any step
(`TurnsExist`), and that it keeps what each step keeps (`KeptByTurns`), both from
the least round that contradicts them instead of an induction.

The hypothesis `Table` of these theorems says that the obstacles are rectangles
and that no start, finish or vertex lies on a side of an obstacle without being
one of its ends.  The code needs it: such a point is taken for a free one, and a
straight leg from it through the inside crosses one edge only, which is not seen
as a crossing.  `Connected`, of the three theorems about the drive, says that there
is a route at all between any two points: where there is none the code reads `child[]` where nothing was written.
TLC evaluates both on the machines' obstacle and the points of the run (`Bench`,
`TableAssumption`).

`BenchProofs` proves that each part runs on the bench as it does alone, and hence
of the very specification that `bench` checks, for all constants of its parts:

* `BenchTypeCorrect` (`[]TypeOK`), `BenchInvariants` (`LivingStacksMapped`,
  `ChainWraps`, `SamplesAreOwn`, `CommandIsWhole`, `SumsTellTravel`) and
  `BenchActions` (`PromiseSafety`, `MovesWithClamp`, `ReadingIsTravel`,
  `DrivenAsCommanded`).  The invariant is the conjunction of the parts'
  invariants: a step of one part leaves the variables of the others alone.
* `FollowedStays`: once the filter of a simulated wheel has settled on its
  command, or up to three pulses below, it stays there until the command
  changes.  A filtered value lies between the least and the greatest of the four
  that make it (`FilterBetween`).
* `BenchRoutesAreFree` (`[]RouteIsFree`): around the machines' obstacle, the routes lead
  on and their legs are free, as `RoutesLead` and `RoutesAreFree` say.

All theorems rest on the assumptions that the modules declare about their
constants, which TLC evaluates in each run, and on nothing else, with three
exceptions that the theorems state: the bounds `MaxWait` and `MaxRevival` are
parameters of `KosTiming` and proved from `N * (N + 1) / 2` and `N - 1` on; the
theorems of games without 'g' or other menus say so; and those of `Avoidance` assume the table
described above.

Only model-checked is liveness under fairness, which the prover does not handle.
Every invariant and every property of steps that a passing run checks is stated
by a theorem; of the others the theorems state the safety half where there is
one:

| Property | Proved | Checked by TLC only |
|---|---|---|
| `ImplementsMultitasking` | each step is one of `Multitasking` (`ImplementsPromise`) | each task gets the CPU again and again |
| `ExitedLeavesCpu` | it is chosen no more and switched to `N - 1` times at most | it leaves the CPU |
| `EndStopsWheels` | stopped, the wheels stay so (`StoppedStays`) | they are stopped |
| `FollowsCommand` | settled, a wheel stays so (`FollowedStays`) | it settles |
| `GameEnds`, `TestsEnd`, `StacksReleased`, `SightIsReported`, `CommandsEnd`, `CarriesUp`, `StopStops` | | all of it |

## 5. Findings

1. A task that has exited may be scheduled again (`kos_zombie`).
2. The tick gives a timeslot to IDLE while a task is awake (`kos_idle`).
3. After a visit to the planner's calibration, the game starts with the
   calibration's pose and speed orders, and the robot runs before the starter is
   released (`game_starter`).
4. `pose_reached` may be set for a pose ordered since the controller took its
   copy, and `regul` survives a change of pose, so that a pose is declared
   reached wherever the robot stands (`game_reach`).
5. A calibration test selected during another one inherits its counter, misses
   its end and runs until the counter wraps, 21 minutes later (`calib_entry`).
6. In the simulator, a tick that comes between the assignment of
   `kos_current_task` and `swapcontext` saves the running task's context as the
   context of the task that was about to run, whose own is lost (`unix_switch`).

## 6. Plan

Done: all modules of section 2, and a theorem for each safety property.  What
could be added: obstacles of another shape in `EdgeCutsNone`, whose proof reads
the four sides off the rectangle; and that the route found is one of least
weight, which the order of the search suggests and nothing in the repository
says.

## 7. Not modelled

* Odometry, PID and trigonometry: floating point, out of TLC's reach.
* KOS semaphores, queues and `kos_isr_enter`: compiled out or never called; the
  stack check only reports.
* Of the TWI master, `twi_read`: only the card's version and voltage are read,
  and printed.  Of the sensors and the encoders, the menus that print.
* Of the geonobot, `descendre_tour` and `route.c`, whose flag and route nothing
  drives; the cups; the hook at the end of a game, which its planner, that ends
  at once, does not call.  Of the cortex machine, the actions of a pose: the path
  it returns has none.
* The minus machine: the same tasks on other pins.
* Console, USART and mcurses: terminal I/O.  That `getchar` yields, also in a
  critical section, is one of the things `Kos` allows a task.
* Of the simulator, the fake ADC, bus and serial line, which keep no state.
* Pin and clock set-up, wording of menus and logs, the build, scripts and octave
  files.
