-------------------------------- MODULE Kos --------------------------------
(***************************************************************************)
(* The KOS kernel of the AVR build (arch/xmega/kos.c): task registration,  *)
(* the circular task list, the scheduler called by a task (kos_yield,      *)
(* kos_delay_ms, kos_task_exit), the scheduler called by the tick timer's  *)
(* interrupt (core/msched.c, kos_tick_schedule) and the context switch.    *)
(*                                                                         *)
(* The grain of atomicity is the code's.  kos_schedule called by a task    *)
(* walks the list with interrupts enabled and disables them only around    *)
(* kos_dispatch, so a tick may fall between any two steps of the walk, and *)
(* between the walk and the switch.  The timer interrupt runs to its       *)
(* context switch without being interrupted.                               *)
(*                                                                         *)
(* A task is its index in tasks[]: 0 is IDLE, which kos_init registers     *)
(* first, 1..N are the machine's tasks in the order of registration.       *)
(***************************************************************************)
EXTENDS Integers

CONSTANTS
    N,         \* number of tasks the machine registers after IDLE
    TickMs,    \* period of the tick timer in ms, sched_ms of core/msched.c
    Delays     \* the delays, in ms, the tasks ask for

ASSUME NAssumption      == N \in Nat \ {0}
ASSUME TickMsAssumption == TickMs \in {5, 10, 20}
ASSUME DelaysAssumption == \A d \in Delays : d \in Nat /\ d < 65536

Tasks == 0..N
IDLE  == 0
NULL  == -1

VARIABLES
    tasks_count,       \* slots of tasks[] in use
    task_head,         \* the list's first task, NULL before the first one
    task_tail,         \* the list's last task, NULL before the first one
    next,              \* next[t]: tasks[t].next
    status,            \* status[t]: TASK_READY or TASK_ZOMBIE
    nb_tick_to_wait,   \* nb_tick_to_wait[t]: an uint8_t
    kos_current_task,  \* NULL until the first dispatch
    main,              \* where main() is
    pc,                \* pc[t]: where t is, or will resume
    ptr,               \* ptr[t]: the local of t's kos_schedule: the list's
                       \* element under examination, then the task to dispatch
    irq_off,           \* the tasks whose SREG has interrupts disabled
    pending            \* the tick timer's overflow flag, one bit

list  == <<tasks_count, task_head, task_tail, next>>
sched == <<status, nb_tick_to_wait, kos_current_task>>
ctx   == <<pc, ptr, irq_off>>
vars  == <<list, sched, ctx, main, pending>>

\* Mutant of Awake: a sleeping or exited task is told from an awake one by its
\* delay only.
Awake_StatusIgnored(t) == nb_tick_to_wait[t] = 0

\* A task that kos_get_next_task may select: IDLE is handled apart.
Awake(t) == status[t] = "READY" /\ nb_tick_to_wait[t] = 0

\* The conversion of a delay: a 16-bit quotient stored in an uint8_t.
DelayTicks(d) == (d \div TickMs) % 256

TypeOK ==
    /\ tasks_count \in 0..(N + 1)
    /\ task_head \in Tasks \cup {NULL}
    /\ task_tail \in {IDLE, NULL}
    /\ next \in [Tasks -> Tasks \cup {NULL}]
    /\ status \in [Tasks -> {"READY", "ZOMBIE"}]
    /\ nb_tick_to_wait \in [Tasks -> 0..255]
    /\ kos_current_task \in Tasks \cup {NULL}
    /\ main \in {"register", "kos_run", "gone"}
    /\ pc \in [Tasks -> {"user", "scan", "dispatch", "switched", "loop"}]
    /\ ptr \in [Tasks -> Tasks]
    /\ irq_off \in SUBSET (Tasks \ {IDLE})
    /\ pending \in BOOLEAN

Init ==
    /\ tasks_count = 0
    /\ task_head = NULL
    /\ task_tail = NULL
    /\ next = [t \in Tasks |-> NULL]
    /\ status = [t \in Tasks |-> "READY"]      \* zeroed .bss
    /\ nb_tick_to_wait = [t \in Tasks |-> 0]
    /\ kos_current_task = NULL
    /\ main = "register"
    /\ pc = [t \in Tasks |-> "user"]
    /\ ptr = [t \in Tasks |-> IDLE]
    /\ irq_off = {}
    /\ pending = FALSE

-----------------------------------------------------------------------------
(* main(): registration of the tasks, start of the timer, first schedule   *)

\* Mutant of kos_new_task: the list is not closed behind its last task.
kos_new_task_Open ==
    /\ main = "register"
    /\ tasks_count <= N
    /\ tasks_count' = tasks_count + 1
    /\ status' = [status EXCEPT ![tasks_count] = "READY"]
    /\ task_head' = tasks_count
    /\ next' = [next EXCEPT ![tasks_count] = task_head]
    /\ task_tail' = IF task_head = NULL THEN tasks_count ELSE task_tail
    /\ UNCHANGED <<nb_tick_to_wait, kos_current_task, ctx, main, pending>>

\* Mutant of kos_new_task: the last task is not linked to the newest head.
kos_new_task_FirstLink ==
    /\ main = "register"
    /\ tasks_count <= N
    /\ tasks_count' = tasks_count + 1
    /\ status' = [status EXCEPT ![tasks_count] = "READY"]
    /\ task_head' = tasks_count
    /\ next' = [next EXCEPT ![tasks_count] = task_head,
                            ![IDLE] = IF @ = NULL THEN tasks_count ELSE @]
    /\ task_tail' = IDLE
    /\ UNCHANGED <<nb_tick_to_wait, kos_current_task, ctx, main, pending>>

\* kos_new_task: the new task becomes the head of the circular list.  The
\* first one, IDLE, is left with next = NULL until the second is added.
kos_new_task ==
    /\ main = "register"
    /\ tasks_count <= N
    /\ tasks_count' = tasks_count + 1
    /\ status' = [status EXCEPT ![tasks_count] = "READY"]
    /\ task_head' = tasks_count
    /\ IF task_head # NULL
       THEN /\ next' = [next EXCEPT ![tasks_count] = task_head,
                                    ![task_tail] = tasks_count]
            /\ UNCHANGED task_tail
       ELSE /\ task_tail' = tasks_count
            /\ UNCHANGED next
    /\ UNCHANGED <<nb_tick_to_wait, kos_current_task, ctx, main, pending>>

\* mach_sched_init: msched_init arms the timer once the tasks are registered.
msched_init ==
    /\ main = "register"
    /\ tasks_count = N + 1
    /\ main' = "kos_run"
    /\ UNCHANGED <<list, sched, ctx, pending>>

\* kos_run, unless a tick has taken the CPU from main() before: there is no
\* current task, so the head of the list is dispatched and main's context is
\* not saved.
kos_run ==
    /\ main = "kos_run"
    /\ main' = "gone"
    /\ kos_current_task' = task_head
    /\ UNCHANGED <<list, status, nb_tick_to_wait, ctx, pending>>

-----------------------------------------------------------------------------
(* What the running task does: its calls, then the steps of kos_schedule   *)

\* The running task t, which is not IDLE, is in its own code.
InUserCode(t) == t = kos_current_task /\ t # IDLE /\ pc[t] = "user"

\* kos_schedule, called by t: it starts walking the list behind t.
StartScan(t) ==
    /\ pc' = [pc EXCEPT ![t] = "scan"]
    /\ ptr' = [ptr EXCEPT ![t] = next[t]]

kos_yield(t) ==
    /\ InUserCode(t)
    /\ nb_tick_to_wait' =
         [nb_tick_to_wait EXCEPT ![t] = IF @ = 0 THEN 1 ELSE @]
    /\ StartScan(t)
    /\ UNCHANGED <<list, status, kos_current_task, irq_off, main, pending>>

kos_delay_ms(t, d) ==
    /\ InUserCode(t)
    /\ nb_tick_to_wait' = [nb_tick_to_wait EXCEPT ![t] = DelayTicks(d)]
    /\ StartScan(t)
    /\ UNCHANGED <<list, status, kos_current_task, irq_off, main, pending>>

\* kos_set_next_schedule_delay_ms: the same assignment, without scheduling.
kos_set_next_schedule_delay_ms(t, d) ==
    /\ InUserCode(t)
    /\ nb_tick_to_wait' = [nb_tick_to_wait EXCEPT ![t] = DelayTicks(d)]
    /\ UNCHANGED <<list, status, kos_current_task, ctx, main, pending>>

\* No task exits inside one of its critical sections.
kos_task_exit(t) ==
    /\ InUserCode(t)
    /\ t \notin irq_off
    /\ status' = [status EXCEPT ![t] = "ZOMBIE"]
    /\ StartScan(t)
    /\ UNCHANGED <<list, nb_tick_to_wait, kos_current_task, irq_off, main,
                   pending>>

\* irq_disable() and irq_enable(), around the tasks' critical sections.
irq_disable(t) ==
    /\ InUserCode(t)
    /\ t \notin irq_off
    /\ irq_off' = irq_off \cup {t}
    /\ UNCHANGED <<list, sched, pc, ptr, main, pending>>

irq_enable(t) ==
    /\ InUserCode(t)
    /\ t \in irq_off
    /\ irq_off' = irq_off \ {t}
    /\ UNCHANGED <<list, sched, pc, ptr, main, pending>>

\* kos_get_next_task, one element of the list.  The walk stops on the first
\* task awake or back on the caller; IDLE is then the task to dispatch.
kos_get_next_task(t) ==
    /\ t = kos_current_task
    /\ pc[t] = "scan"
    /\ IF ptr[t] = t
       THEN /\ ptr' = [ptr EXCEPT ![t] = IDLE]
            /\ pc' = [pc EXCEPT ![t] = "dispatch"]
       ELSE IF Awake(ptr[t]) /\ ptr[t] # IDLE
       THEN /\ pc' = [pc EXCEPT ![t] = "dispatch"]
            /\ UNCHANGED ptr
       ELSE /\ ptr' = [ptr EXCEPT ![t] = next[ptr[t]]]
            /\ UNCHANGED pc
    /\ UNCHANGED <<list, sched, irq_off, main, pending>>

\* kos_dispatch called by a task: t's context is saved inside it.
kos_dispatch(t) ==
    /\ t = kos_current_task
    /\ pc[t] = "dispatch"
    /\ kos_current_task' = ptr[t]
    /\ pc' = [pc EXCEPT ![t] = "switched"]
    /\ ptr' = [ptr EXCEPT ![t] = IDLE]
    /\ UNCHANGED <<list, status, nb_tick_to_wait, irq_off, main, pending>>

\* Mutant of kos_schedule_return: nothing stops a task behind kos_task_exit.
kos_schedule_return_NoLoop(t) ==
    /\ t = kos_current_task
    /\ pc[t] = "switched"
    /\ pc' = [pc EXCEPT ![t] = "user"]
    /\ UNCHANGED <<list, sched, ptr, irq_off, main, pending>>

\* t has the CPU again: kos_schedule returns to its caller, hence to t's own
\* code, or to the endless loop of kos_task_exit.
kos_schedule_return(t) ==
    /\ t = kos_current_task
    /\ pc[t] = "switched"
    /\ pc' = [pc EXCEPT ![t] = IF status[t] = "ZOMBIE" THEN "loop" ELSE "user"]
    /\ UNCHANGED <<list, sched, ptr, irq_off, main, pending>>

-----------------------------------------------------------------------------
(* The tick timer                                                          *)

\* The timer overflows.  The flag is one bit: an overflow that finds it set
\* (interrupts were disabled for a whole period) changes nothing and is lost.
TimerOverflow ==
    /\ main # "register"
    /\ ~pending
    /\ pending' = TRUE
    /\ UNCHANGED <<list, sched, ctx, main>>

\* Mutant of Behind: the walk starts from the head of the list, as for a
\* scheduler with fixed priorities.
Behind_FromHead(c) == [k \in 1..N |-> N + 1 - k]

\* The k-th task behind c in the circular list.
Behind(c) == [k \in 1..N |->
    LET hop[i \in 0..N] == IF i = 0 THEN c ELSE next[hop[i - 1]] IN hop[k]]

\* u is what kos_get_next_task, then kos_schedule, choose when c is current
\* and the tasks in S are awake: the first of S behind c, or IDLE.
Chosen(c, S, u) ==
    \/ /\ u \in S
       /\ \E k \in 1..N : /\ Behind(c)[k] = u
                          /\ \A j \in 1..(k - 1) : Behind(c)[j] \notin S
    \/ u = IDLE /\ S = {}

\* Mutant of TicksLeft: the loop over tasks[] leaves out the last slot in use.
TicksLeft_OffByOne ==
    [t \in Tasks |-> IF /\ t # tasks_count - 1
                       /\ status[t] = "READY" /\ nb_tick_to_wait[t] > 0
                     THEN nb_tick_to_wait[t] - 1 ELSE nb_tick_to_wait[t]]

\* nb_tick_to_wait once kos_tick_schedule has updated the waiting tasks.
TicksLeft ==
    [t \in Tasks |-> IF status[t] = "READY" /\ nb_tick_to_wait[t] > 0
                     THEN nb_tick_to_wait[t] - 1 ELSE nb_tick_to_wait[t]]

\* Mutant of Candidates: the delay is not looked at.
Candidates_AnyReady ==
    { t \in Tasks \ {IDLE, kos_current_task} : status[t] = "READY" }

\* The tasks the tick's walk may select: the interrupted one is not visited.
Candidates == { t \in Tasks \ {IDLE, kos_current_task} :
                  status[t] = "READY" /\ TicksLeft[t] = 0 }

\* irq_timer_tick_handler, kos_tick_schedule, kos_schedule and kos_dispatch,
\* in interrupt context.  The interrupted task will resume where it was; an
\* interrupted main() is never resumed.
TickIsr ==
    /\ pending
    /\ kos_current_task \notin irq_off
    /\ pending' = FALSE
    /\ nb_tick_to_wait' = TicksLeft
    /\ IF kos_current_task = NULL
       THEN kos_current_task' = task_head
       ELSE \E u \in Tasks : /\ Chosen(kos_current_task, Candidates, u)
                             /\ kos_current_task' = u
    /\ main' = "gone"
    /\ UNCHANGED <<list, status, ctx>>

-----------------------------------------------------------------------------
Boot == kos_new_task \/ msched_init \/ kos_run

\* What the code of a task may call.
Call(t) ==
    \/ kos_yield(t)
    \/ \E d \in Delays : \/ kos_delay_ms(t, d)
                         \/ kos_set_next_schedule_delay_ms(t, d)
    \/ kos_task_exit(t)
    \/ irq_disable(t)
    \/ irq_enable(t)

\* What the kernel does on behalf of a task.
Kernel(t) ==
    kos_get_next_task(t) \/ kos_dispatch(t) \/ kos_schedule_return(t)

Next ==
    \/ Boot
    \/ \E t \in Tasks : Call(t) \/ Kernel(t)
    \/ TimerOverflow
    \/ TickIsr

Spec == Init /\ [][Next]_vars

(* main() and the kernel's code run on; the timer runs; a critical section *)
(* ends; a pending interrupt is served as soon as interrupts are enabled,  *)
(* however short that is (strong fairness).  Nothing makes a task yield.   *)
Fairness ==
    /\ WF_vars(Boot)
    /\ WF_vars(TimerOverflow)
    /\ SF_vars(TickIsr)
    /\ \A t \in Tasks : WF_vars(Kernel(t)) /\ WF_vars(irq_enable(t))

FairSpec == Spec /\ Fairness

-----------------------------------------------------------------------------
(* Properties                                                              *)

\* Registration (kos_new_task, "insert into the task list as the new highest
\* priority task") builds one cycle: from every task the walk of
\* kos_get_next_task meets each other task once and comes back.
RingOK ==
    main # "register" =>
        \A c \in Tasks : { Behind(c)[k] : k \in 1..N } = Tasks \ {c}

\* The list in closed form: IDLE, the newest task, ..., the oldest, IDLE.
RingShape ==
    /\ task_head = tasks_count - 1
    /\ task_tail = IF tasks_count = 0 THEN NULL ELSE IDLE
    /\ \A t \in Tasks :
         next[t] = IF t = IDLE
                   THEN IF tasks_count > 1 THEN tasks_count - 1 ELSE NULL
                   ELSE IF t < tasks_count THEN t - 1 ELSE NULL

\* main() arms the timer once every task is registered, and is gone as soon as
\* a task has the CPU.
Phases ==
    /\ main = "register" => ~pending
    /\ main # "register" => tasks_count = N + 1
    /\ main = "gone" <=> kos_current_task # NULL

\* IDLE never exits, and no task exits before a task runs.
Lives ==
    /\ status[IDLE] = "READY"
    /\ kos_current_task = NULL => \A t \in Tasks : status[t] = "READY"

\* kos_task_exit does not return: an exited task may get the CPU back by a
\* switch decided before it exited, and then only spins in the endless loop.
ExitedNeverReturns ==
    \A t \in Tasks : status[t] = "ZOMBIE" => pc[t] # "user"

\* The tasks that have chosen u and not switched to it yet.
Deciders(u) == { t \in Tasks : pc[t] = "dispatch" /\ ptr[t] = u }

\* A step chooses no u, and if it switches to u it uses up a choice of u.
UsesUpChoice(u) ==
    /\ Deciders(u)' \subseteq Deciders(u)
    /\ (kos_current_task' = u /\ kos_current_task # u)
          => kos_current_task \in Deciders(u) \ Deciders(u)'

\* No walk and no tick chooses an exited task: each switch to one was decided
\* before it exited and uses that decision up, so there are at most as many
\* as there were tasks preempted between kos_get_next_task and kos_dispatch.
ExitedNotChosen ==
    [][\A u \in Tasks : status[u] = "ZOMBIE" => UsesUpChoice(u)]_vars

\* An exited task is off the CPU for good after finitely many such switches.
ExitedLeavesCpu ==
    \A t \in Tasks : status[t] = "ZOMBIE" ~> [](kos_current_task # t)

\* documentation/multitasking.md: "A task in ZOMBIE state had exited, and will
\* not be scheduled anymore".  The kernel does not keep this: kos_schedule may
\* switch to a task that exited behind its back.
ZombieNeverScheduled ==
    [][\A t \in Tasks : kos_current_task' = t /\ kos_current_task # t
                           => status[t] = "READY"]_vars

\* documentation/multitasking.md: "if all tasks relaxs the CPU the OS will give
\* CPU time to a specific tasks : the idle task".  The kernel gives it at other
\* times too: the tick's walk does not visit the interrupted task, so a task
\* awake alone loses every other timeslot to IDLE.
IdleOnlyWhenAllSleep ==
    [][kos_current_task' = IDLE /\ kos_current_task # IDLE
         => \A t \in Tasks \ {IDLE} : ~Awake(t)']_vars

\* What the kernel promises, Multitasking: every task that has not exited
\* gets the CPU again and again, whatever the other tasks do with it.
Promise == INSTANCE Multitasking
             WITH App    <- Tasks \ {IDLE},
                  Nobody <- NULL,
                  cpu    <- kos_current_task,
                  exited <- { t \in Tasks : status[t] = "ZOMBIE" }
ImplementsMultitasking == Promise!Spec

\* Its safety part: a switch changes nothing else, and only the running task
\* exits.
PromiseSafety == Promise!Init /\ [][Promise!Next]_(Promise!avars)
=============================================================================
