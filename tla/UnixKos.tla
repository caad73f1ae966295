------------------------------ MODULE UnixKos ------------------------------
(***************************************************************************)
(* The KOS kernel of the simulator (arch/unix/kos.c).  A task is a         *)
(* ucontext on a mapped stack, the tick is the signal of a POSIX timer     *)
(* (arch/unix/hwtimer.c) and the scheduler releases the stack of a task    *)
(* that has exited.                                                        *)
(*                                                                         *)
(* Nothing masks the signal outside of its handler: irq_disable() is empty *)
(* and the ATOMIC_BLOCK around kos_dispatch is commented out.  The tick    *)
(* may fall between the assignment of kos_current_task and swapcontext,    *)
(* and between any two steps of the walk, the release of a stack included. *)
(***************************************************************************)
EXTENDS Integers

CONSTANTS N,        \* number of tasks registered after IDLE
          Delays    \* the delays the tasks ask for, in ms

ASSUME UnixKosAssumption == N \in Nat \ {0} /\ Delays \subseteq Nat

Tasks == 0..N
IDLE  == 0
NULL  == -1
MAIN  == -2          \* the process's first thread of control

VARIABLES
    tasks_count, task_head, next, status, nb_tick_to_wait, kos_current_task,
    uctx,      \* uctx[t]: whose context tasks[t].uctx holds
    sized,     \* the tasks whose ss_size is not 0
    mapped,    \* the tasks whose stack is mapped
    running,   \* whose code the CPU executes
    pc, ptr,   \* where each thread is, and the local of its kos_schedule
    pending,   \* the timer's signal is pending
    outcome    \* "runs", or how the simulation went wrong

list  == <<tasks_count, task_head, next>>
sched == <<status, nb_tick_to_wait, kos_current_task>>
stack == <<sized, mapped>>
ctx   == <<uctx, running, pc, ptr>>
unixVars == <<list, sched, stack, ctx, pending, outcome>>

UnixTypeOK ==
    /\ tasks_count \in 0..(N + 1)
    /\ task_head \in Tasks \cup {NULL}
    /\ next \in [Tasks -> Tasks \cup {NULL}]
    /\ status \in [Tasks -> {"READY", "ZOMBIE"}]
    /\ nb_tick_to_wait \in [Tasks -> 0..255]
    /\ kos_current_task \in Tasks \cup {NULL}
    /\ uctx \in [Tasks -> Tasks \cup {MAIN}]
    /\ sized \subseteq Tasks /\ mapped \subseteq Tasks
    /\ running \in Tasks \cup {MAIN}
    /\ pc \in [Tasks \cup {MAIN} ->
                 {"register", "start", "user", "scan", "unmap", "clear",
                  "dispatch", "switch", "switched", "loop"}]
    /\ ptr \in [Tasks \cup {MAIN} -> Tasks]
    /\ pending \in BOOLEAN
    /\ outcome \in {"runs", "lost", "segv", "exit"}

UnixInit ==
    /\ tasks_count = 0 /\ task_head = NULL
    /\ next = [t \in Tasks |-> NULL]
    /\ status = [t \in Tasks |-> "READY"]
    /\ nb_tick_to_wait = [t \in Tasks |-> 0]
    /\ kos_current_task = NULL
    /\ uctx = [t \in Tasks |-> t]
    /\ sized = {} /\ mapped = {}
    /\ running = MAIN
    /\ pc = [t \in Tasks \cup {MAIN} |-> IF t = MAIN THEN "register" ELSE "user"]
    /\ ptr = [t \in Tasks \cup {MAIN} |-> IDLE]
    /\ pending = FALSE
    /\ outcome = "runs"

-----------------------------------------------------------------------------
(* main()                                                                  *)

\* The stack, the insertion in the circular list behind the tail, which is
\* IDLE, and the context; the process exits when mmap fails.
kos_new_task ==
    /\ outcome = "runs" /\ pc[MAIN] = "register" /\ tasks_count <= N
    /\ \/ /\ outcome' = "exit"
          /\ UNCHANGED <<list, stack>>
       \/ /\ tasks_count' = tasks_count + 1
          /\ task_head' = tasks_count
          /\ next' = IF task_head = NULL THEN next
                     ELSE [next EXCEPT ![tasks_count] = task_head,
                                       ![IDLE] = tasks_count]
          /\ sized' = sized \cup {tasks_count}
          /\ mapped' = mapped \cup {tasks_count}
          /\ UNCHANGED outcome
    /\ UNCHANGED <<sched, ctx, pending>>

\* The timer is armed for 10 ms, the one period the simulator knows and the
\* one every machine asks for.
timer_normal_mode_setup ==
    /\ outcome = "runs" /\ pc[MAIN] = "register" /\ tasks_count = N + 1
    /\ pc' = [pc EXCEPT ![MAIN] = "start"]
    /\ UNCHANGED <<list, sched, stack, uctx, running, ptr, pending, outcome>>

\* The first schedule chooses the head.
kos_run ==
    /\ outcome = "runs" /\ running = MAIN /\ pc[MAIN] = "start"
    /\ kos_current_task' = task_head
    /\ ptr' = [ptr EXCEPT ![MAIN] = task_head]
    /\ pc' = [pc EXCEPT ![MAIN] = "switch"]
    /\ UNCHANGED <<list, status, nb_tick_to_wait, stack, uctx, running,
                   pending, outcome>>

-----------------------------------------------------------------------------
(* The calls of the tasks                                                  *)

At(t, l) == outcome = "runs" /\ running = t /\ pc[t] = l

\* kos_schedule, called by t, walks the list from the task behind t.
StartScan(t) ==
    /\ At(t, "user") /\ t # IDLE
    /\ pc' = [pc EXCEPT ![t] = "scan"]
    /\ ptr' = [ptr EXCEPT ![t] = next[t]]
    /\ UNCHANGED <<list, stack, uctx, running, pending, outcome>>

kos_yield(t) ==
    /\ StartScan(t)
    /\ nb_tick_to_wait' = [nb_tick_to_wait EXCEPT ![t] = IF @ = 0 THEN 1 ELSE @]
    /\ UNCHANGED <<status, kos_current_task>>

kos_delay_ms(t, d) ==
    /\ StartScan(t)
    /\ nb_tick_to_wait' = [nb_tick_to_wait EXCEPT ![t] = (d \div 10) % 256]
    /\ UNCHANGED <<status, kos_current_task>>

kos_set_next_schedule_delay_ms(t, d) ==
    /\ At(t, "user") /\ t # IDLE
    /\ nb_tick_to_wait' = [nb_tick_to_wait EXCEPT ![t] = (d \div 10) % 256]
    /\ UNCHANGED <<list, status, kos_current_task, stack, ctx, pending, outcome>>

kos_task_exit(t) ==
    /\ StartScan(t)
    /\ status' = [status EXCEPT ![t] = "ZOMBIE"]
    /\ UNCHANGED <<nb_tick_to_wait, kos_current_task>>

Awake(u) == status[u] = "READY" /\ nb_tick_to_wait[u] = 0

\* Mutant of Releasable: a stack without a size is released.
Releasable_Unsized(u) == status[u] = "ZOMBIE" /\ u \notin sized

\* The walk releases the stack of a task that has exited.
Releasable(u) == status[u] = "ZOMBIE" /\ u \in sized

\* One element of the walk: back on the caller, a task to run, a stack to
\* release, or on to the next element.
kos_get_next_task(t) ==
    /\ At(t, "scan")
    /\ LET u == ptr[t] IN
         \/ u = t /\ ptr' = [ptr EXCEPT ![t] = IDLE]
                  /\ pc' = [pc EXCEPT ![t] = "dispatch"]
         \/ u # t /\ Awake(u) /\ u # IDLE /\ UNCHANGED ptr
                  /\ pc' = [pc EXCEPT ![t] = "dispatch"]
         \/ u # t /\ Releasable(u) /\ UNCHANGED ptr
                  /\ pc' = [pc EXCEPT ![t] = "unmap"]
         \/ u # t /\ ~Releasable(u) /\ (Awake(u) => u = IDLE) /\ UNCHANGED pc
                  /\ ptr' = [ptr EXCEPT ![t] = next[u]]
    /\ UNCHANGED <<list, sched, stack, uctx, running, pending, outcome>>

\* munmap of the stack, refused (EINVAL, and the process exits) when a tick
\* has cleared the size since the walk read it.
munmap(t) ==
    /\ At(t, "unmap")
    /\ IF ptr[t] \in sized
       THEN /\ mapped' = mapped \ {ptr[t]}
            /\ pc' = [pc EXCEPT ![t] = "clear"]
            /\ UNCHANGED outcome
       ELSE /\ outcome' = "exit"
            /\ UNCHANGED <<mapped, pc>>
    /\ UNCHANGED <<list, sched, sized, uctx, running, ptr, pending>>

\* Mutant of clear_stack: the released slot is made ready for a new task.
clear_stack_FreesSlot(t) ==
    /\ At(t, "clear")
    /\ sized' = sized \ {ptr[t]}
    /\ status' = [status EXCEPT ![ptr[t]] = "READY"]
    /\ pc' = [pc EXCEPT ![t] = "scan"]
    /\ ptr' = [ptr EXCEPT ![t] = next[ptr[t]]]
    /\ UNCHANGED <<list, nb_tick_to_wait, kos_current_task, mapped, uctx,
                   running, pending, outcome>>

\* The size and the stack's bounds are reset, and the walk goes on.
clear_stack(t) ==
    /\ At(t, "clear")
    /\ sized' = sized \ {ptr[t]}
    /\ pc' = [pc EXCEPT ![t] = "scan"]
    /\ ptr' = [ptr EXCEPT ![t] = next[ptr[t]]]
    /\ UNCHANGED <<list, sched, mapped, uctx, running, pending, outcome>>

\* kos_dispatch: the task becomes the current one...
kos_dispatch(t) ==
    /\ At(t, "dispatch")
    /\ kos_current_task' = ptr[t]
    /\ pc' = [pc EXCEPT ![t] = "switch"]
    /\ UNCHANGED <<list, status, nb_tick_to_wait, stack, uctx, running, ptr,
                   pending, outcome>>

\* ... then swapcontext (setcontext for main) goes to its context; on a stack
\* that is unmapped, the process dies.
swapcontext(t) ==
    /\ At(t, "switch")
    /\ uctx' = IF t = MAIN THEN uctx ELSE [uctx EXCEPT ![t] = t]
    /\ running' = uctx[ptr[t]]
    /\ pc' = [pc EXCEPT ![t] = "switched"]
    /\ ptr' = [ptr EXCEPT ![t] = IDLE]
    /\ outcome' = IF ptr[t] \in mapped THEN "runs" ELSE "segv"
    /\ UNCHANGED <<list, sched, stack, pending>>

\* Back from kos_schedule: to the caller, or to kos_task_exit's endless loop.
kos_schedule_return(t) ==
    /\ At(t, "switched")
    /\ pc' = [pc EXCEPT ![t] = IF status[t] = "ZOMBIE" THEN "loop" ELSE "user"]
    /\ UNCHANGED <<list, sched, stack, uctx, running, ptr, pending, outcome>>

-----------------------------------------------------------------------------
(* The timer                                                               *)

TimerExpires ==
    /\ outcome = "runs" /\ pc[MAIN] # "register" /\ ~pending
    /\ pending' = TRUE
    /\ UNCHANGED <<list, sched, stack, ctx, outcome>>

\* nb_tick_to_wait once kos_tick_schedule has updated the waiting tasks.
TicksLeft ==
    [t \in Tasks |-> IF status[t] = "READY" /\ nb_tick_to_wait[t] > 0
                     THEN nb_tick_to_wait[t] - 1 ELSE nb_tick_to_wait[t]]

\* The tasks in the list behind c, the first one being c.
ListFrom(c) == { w \in [0..N -> Tasks] :
                   w[0] = c /\ \A k \in 1..N : w[k] = next[w[k - 1]] }

\* The handler's walk along w stops behind n elements, at a task to run or at
\* the end.
Passed(w, n) ==
    LET ok(k) == w[k] # IDLE /\ status[w[k]] = "READY" /\ TicksLeft[w[k]] = 0
    IN  (n < N => ok(n + 1)) /\ \A k \in 1..n : ~ok(k)

\* irq_timer_tick_handler up to its context switch, from a tick that finds
\* task cur.  The stacks it passes are released, the one it runs on too if its
\* owner, which exited, has just made another task the current one.  The
\* context it saves is the running one, in the current task's uctx.
kos_tick_schedule(cur) ==
    \E w \in ListFrom(cur), n \in 0..N :
       LET task == IF n = N THEN IDLE ELSE w[n + 1]
           free == { w[k] : k \in 1..n } \cap { t \in Tasks : Releasable(t) }
       IN  /\ Passed(w, n)
           /\ sized' = sized \ free
           /\ mapped' = mapped \ free
           /\ kos_current_task' = task
           /\ IF task = cur THEN UNCHANGED <<uctx, running>>
              ELSE /\ uctx' = [uctx EXCEPT ![cur] = running]
                   /\ running' = uctx[task]
           /\ outcome' = IF running \in free THEN "segv"
                         ELSE IF task # cur /\ running # cur THEN "lost"
                         ELSE "runs"

\* The first tick may come before kos_run: it chooses the head.
irq_timer_tick_handler ==
    /\ outcome = "runs" /\ pending
    /\ pending' = FALSE
    /\ nb_tick_to_wait' = TicksLeft
    /\ UNCHANGED <<list, status, pc, ptr>>
    /\ IF kos_current_task = NULL
       THEN /\ kos_current_task' = task_head
            /\ running' = uctx[task_head]
            /\ UNCHANGED <<stack, uctx, outcome>>
       ELSE kos_tick_schedule(kos_current_task)

Ended == outcome # "runs" /\ UNCHANGED unixVars

-----------------------------------------------------------------------------
Call(t) == \/ kos_yield(t)
           \/ \E d \in Delays : \/ kos_delay_ms(t, d)
                               \/ kos_set_next_schedule_delay_ms(t, d)
           \/ kos_task_exit(t)

Kernel(t) == \/ kos_get_next_task(t) \/ munmap(t) \/ clear_stack(t)
             \/ kos_dispatch(t) \/ swapcontext(t) \/ kos_schedule_return(t)

UnixNext ==
    \/ kos_new_task \/ timer_normal_mode_setup \/ kos_run
    \/ \E t \in Tasks \cup {MAIN} : Call(t) \/ Kernel(t)
    \/ TimerExpires \/ irq_timer_tick_handler
    \/ Ended

UnixSpec == UnixInit /\ [][UnixNext]_unixVars

\* The code runs on, the timer runs and its signal is never blocked for long.
UnixFairness ==
    /\ WF_unixVars(kos_new_task \/ timer_normal_mode_setup \/ kos_run)
    /\ WF_unixVars(\E t \in Tasks \cup {MAIN} : Kernel(t))
    /\ WF_unixVars(TimerExpires)
    /\ WF_unixVars(irq_timer_tick_handler)

-----------------------------------------------------------------------------
\* The release of a stack by kos_get_next_task never takes the one of a task
\* that has not exited, and as long as the simulation runs never the one it
\* runs on, though any thread may resume a walk it began long ago.
LivingStacksMapped ==
    /\ \A t \in 0..(tasks_count - 1) :
         status[t] = "READY" => t \in mapped /\ t \in sized
    /\ outcome = "runs" /\ running # MAIN => running \in mapped

\* Again and again no task that exited has its stack left, wherever it is in
\* the list and whoever walks it, unless the simulation ends first.
StacksReleased ==
    []<>(outcome = "runs" => \A t \in sized \cup mapped : status[t] # "ZOMBIE")

\* Each step of the simulator's kernel is one that Multitasking allows.
Promise == INSTANCE Multitasking
             WITH App    <- Tasks \ {IDLE},
                  Nobody <- NULL,
                  cpu    <- kos_current_task,
                  exited <- { t \in Tasks : status[t] = "ZOMBIE" }
PromiseSafety == Promise!Init /\ [][Promise!Next]_(Promise!avars)

\* documentation/multitasking.md: the framework "can store & restore context
\* of all the different tasks".  A tick between the two halves of kos_dispatch
\* saves the running task's context as another's, whose own is lost.
ContextsKept == \A t \in Tasks : uctx[t] = t
=============================================================================
