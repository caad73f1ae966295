--------------------------- MODULE UnixKosProofs ---------------------------
(***************************************************************************)
(* Theorems about the simulator's kernel, for any number of tasks and any  *)
(* delays: the stacks it releases, and that it keeps the safety part of    *)
(* what Multitasking promises.                                             *)
(***************************************************************************)
EXTENDS UnixKos, TLAPS

(* The list in closed form: IDLE at its end, each task before the one that *)
(* was registered before it.                                               *)
RingShape ==
    /\ task_head = tasks_count - 1
    /\ \A t \in Tasks :
         next[t] = IF t = IDLE THEN IF tasks_count > 1 THEN tasks_count - 1
                                    ELSE NULL
                   ELSE IF t < tasks_count THEN t - 1 ELSE NULL

(* The timer and the scheduler start once every task is registered, and    *)
(* tasks exit once one of them is current.                                 *)
Phases ==
    /\ pc[MAIN] \in {"register", "start", "switch", "switched"}
    /\ pc[MAIN] = "register" => kos_current_task = NULL /\ ~pending
    /\ pc[MAIN] # "register" => tasks_count = N + 1
    /\ kos_current_task = NULL =>
         /\ running = MAIN
         /\ pc[MAIN] \in {"register", "start"}
         /\ \A t \in Tasks : status[t] = "READY"

(* Only tasks that are not IDLE call the kernel; an exited one does not     *)
(* come out of it.  No walk releases a living task's stack, nor its own.   *)
Walks ==
    /\ status[IDLE] = "READY"
    /\ \A t \in Tasks :
         /\ pc[t] \notin {"register", "start"}
         /\ pc[t] # "user" => t # IDLE
         /\ status[t] = "ZOMBIE" => pc[t] # "user"
         /\ pc[t] \in {"unmap", "clear"} => status[ptr[t]] = "ZOMBIE"
         /\ pc[t] \in {"unmap", "clear", "dispatch", "switch"} => ptr[t] # t

(* As long as the simulation runs each task has its own context, and the   *)
(* current task is the running one but in the middle of kos_dispatch.      *)
Contexts ==
    outcome = "runs" =>
       /\ \A t \in Tasks : uctx[t] = t
       /\ \A t \in Tasks : pc[t] = "switch" => running = t
       /\ running # MAIN =>
            kos_current_task = IF pc[running] = "switch" THEN ptr[running]
                               ELSE running
       /\ running = MAIN =>
            /\ pc[MAIN] # "switched"
            /\ kos_current_task # NULL =>
                 pc[MAIN] = "switch" /\ kos_current_task = ptr[MAIN]

UInv == /\ UnixTypeOK /\ RingShape /\ Phases /\ Walks /\ Contexts
        /\ LivingStacksMapped

LEMMA Names ==
    /\ IDLE \in Tasks /\ NULL \notin Tasks /\ MAIN \notin Tasks
    /\ IDLE # NULL /\ IDLE # MAIN /\ NULL # MAIN
    /\ Tasks \subseteq Nat
BY UnixKosAssumption DEF UnixKosAssumption, Tasks, IDLE, NULL, MAIN

LEMMA InitUInv == ASSUME UnixInit PROVE UInv
<1>1. UnixTypeOK
  <2>1. tasks_count \in 0..(N + 1)
    BY UnixKosAssumption DEF UnixKosAssumption, UnixInit
  <2>2. /\ next \in [Tasks -> Tasks \cup {NULL}]
        /\ ptr \in [Tasks \cup {MAIN} -> Tasks]
        /\ uctx \in [Tasks -> Tasks \cup {MAIN}]
    BY Names DEF UnixInit
  <2>3. /\ status \in [Tasks -> {"READY", "ZOMBIE"}]
        /\ nb_tick_to_wait \in [Tasks -> 0..255]
    BY DEF UnixInit
  <2>4. pc \in [Tasks \cup {MAIN} ->
                   {"register", "start", "user", "scan", "unmap", "clear",
                    "dispatch", "switch", "switched", "loop"}]
    BY DEF UnixInit
  <2>5. /\ task_head \in Tasks \cup {NULL}
        /\ kos_current_task \in Tasks \cup {NULL}
        /\ sized \subseteq Tasks /\ mapped \subseteq Tasks
        /\ running \in Tasks \cup {MAIN}
        /\ pending \in BOOLEAN
        /\ outcome \in {"runs", "lost", "segv", "exit"}
    BY DEF UnixInit
  <2> QED
    BY <2>1, <2>2, <2>3, <2>4, <2>5 DEF UnixTypeOK
<1>2. RingShape
  BY Names DEF UnixInit, RingShape, NULL
<1>3. Phases
  BY DEF UnixInit, Phases
<1>4. Walks
  BY Names DEF UnixInit, Walks
<1>5. Contexts
  BY Names DEF UnixInit, Contexts
<1>6. LivingStacksMapped
  BY Names DEF UnixInit, LivingStacksMapped
<1> QED
  BY <1>1, <1>2, <1>3, <1>4, <1>5, <1>6 DEF UInv

-----------------------------------------------------------------------------
(* The steps                                                               *)

\* Each task a walk may visit has a successor in the list.
LEMMA NextInList ==
    ASSUME UInv, pc[MAIN] # "register"
    PROVE  next \in [Tasks -> Tasks]
<1>1. tasks_count = N + 1
  BY DEF UInv, Phases
<1>2. ASSUME NEW t \in Tasks PROVE next[t] \in Tasks
  BY <1>1, <1>2, UnixKosAssumption
     DEF UnixKosAssumption, UInv, RingShape, Tasks, IDLE, NULL
<1> QED
  BY <1>2 DEF UInv, UnixTypeOK

\* A task's step finds the tasks registered and itself to be the current task,
\* but between the halves of kos_dispatch.
LEMMA TaskRuns ==
    ASSUME UInv, outcome = "runs", running \in Tasks
    PROVE  /\ pc[MAIN] # "register"
           /\ kos_current_task # NULL
           /\ pc[running] # "switch" => kos_current_task = running
           /\ pc[running] = "switch" => kos_current_task = ptr[running]
BY Names DEF UInv, UnixTypeOK, Phases, Contexts

LEMMA RegisterKeepsUInv ==
    ASSUME UInv, kos_new_task
    PROVE  UInv'
<1>1. UnixTypeOK'
  <2>1. tasks_count \in Tasks /\ tasks_count' \in 0..(N + 1)
    BY UnixKosAssumption
       DEF UnixKosAssumption, UInv, kos_new_task, UnixTypeOK, Tasks, list
  <2>2. next' \in [Tasks -> Tasks \cup {NULL}]
    BY <2>1, Names DEF UInv, kos_new_task, UnixTypeOK, list
  <2> QED
    BY <2>1, <2>2 DEF UInv, kos_new_task, UnixTypeOK, list, sched, stack, ctx
<1>2. RingShape'
  <2>1. CASE outcome' = "exit" /\ UNCHANGED list
    BY <2>1 DEF UInv, RingShape, list
  <2>2. CASE tasks_count' = tasks_count + 1 /\ task_head' = tasks_count
             /\ next' = IF task_head = NULL THEN next
                        ELSE [next EXCEPT ![tasks_count] = task_head,
                                          ![IDLE] = tasks_count]
    <3>1. tasks_count \in Nat
      BY UnixKosAssumption DEF UInv, UnixTypeOK, UnixKosAssumption
    <3>2. ASSUME NEW t \in Tasks
          PROVE  next'[t] = IF t = IDLE
                            THEN IF tasks_count' > 1 THEN tasks_count' - 1
                                 ELSE NULL
                            ELSE IF t < tasks_count' THEN t - 1 ELSE NULL
      <4>1. next \in [Tasks -> Tasks \cup {NULL}]
        BY DEF UInv, UnixTypeOK
      <4>2. t \in Nat
        BY Names
      <4>3. CASE task_head = NULL
        BY <2>2, <3>1, <4>2, <4>3 DEF UInv, RingShape, IDLE, NULL
      <4>4. CASE task_head # NULL
        <5>1. tasks_count > 0 /\ task_head = tasks_count - 1
          BY <3>1, <4>4 DEF UInv, RingShape, NULL
        <5>2. next'[t] = IF t = IDLE THEN tasks_count
                         ELSE IF t = tasks_count THEN tasks_count - 1
                         ELSE next[t]
          BY <2>2, <4>1, <4>4, <5>1
        <5> QED
          BY <2>2, <3>1, <4>2, <5>1, <5>2 DEF UInv, RingShape, IDLE, NULL
      <4> QED
        BY <4>3, <4>4
    <3>3. task_head' = tasks_count' - 1
      BY <2>2, <3>1
    <3> QED
      BY <3>2, <3>3 DEF RingShape
  <2> QED
    BY <2>1, <2>2 DEF kos_new_task
<1>3. Phases'
  BY DEF UInv, kos_new_task, Phases, sched, ctx
<1>4. Walks'
  BY DEF UInv, kos_new_task, Walks, sched, ctx
<1>5. Contexts'
  BY DEF UInv, kos_new_task, Contexts, sched, ctx
<1>6. LivingStacksMapped'
  <2>1. running = MAIN /\ running' = running /\ status' = status
    BY DEF UInv, kos_new_task, Phases, sched, ctx
  <2>2. tasks_count \in Nat
    BY UnixKosAssumption DEF UInv, UnixTypeOK, UnixKosAssumption
  <2> QED
    BY <2>1, <2>2 DEF UInv, kos_new_task, LivingStacksMapped, list, stack
<1> QED
  BY <1>1, <1>2, <1>3, <1>4, <1>5, <1>6 DEF UInv

LEMMA StartKeepsUInv ==
    ASSUME UInv, timer_normal_mode_setup \/ kos_run
    PROVE  UInv'
<1>1. CASE timer_normal_mode_setup
  <2> USE DEF timer_normal_mode_setup, list, sched, stack
  <2>1. running = MAIN /\ kos_current_task = NULL
    BY <1>1 DEF UInv, Phases
  <2>2. UnixTypeOK' /\ pc'[MAIN] = "start" /\ \A t \in Tasks : pc'[t] = pc[t]
    BY <1>1, Names DEF UInv, UnixTypeOK
  <2>3. RingShape' /\ Phases' /\ LivingStacksMapped'
    BY <1>1, <2>1, <2>2 DEF UInv, RingShape, Phases, LivingStacksMapped
  <2>4. Walks'
    BY <1>1, <2>2 DEF UInv, Walks
  <2>5. Contexts'
    BY <1>1, <2>1, <2>2 DEF UInv, Contexts
  <2> QED
    BY <2>2, <2>3, <2>4, <2>5 DEF UInv
<1>2. CASE kos_run
  <2> USE DEF kos_run, list, stack
  <2>1. task_head \in Tasks
    BY <1>2, UnixKosAssumption
       DEF UInv, UnixTypeOK, RingShape, Phases, UnixKosAssumption, Tasks, NULL
  <2>2. UnixTypeOK' /\ \A t \in Tasks : pc'[t] = pc[t] /\ ptr'[t] = ptr[t]
    BY <1>2, <2>1, Names DEF UInv, UnixTypeOK
  <2>3. pc'[MAIN] = "switch" /\ ptr'[MAIN] = task_head
    BY <1>2 DEF UInv, UnixTypeOK
  <2>4. RingShape' /\ Phases' /\ LivingStacksMapped'
    BY <1>2, <2>1, <2>3, Names
       DEF UInv, RingShape, Phases, LivingStacksMapped
  <2>5. Walks'
    BY <1>2, <2>2 DEF UInv, Walks
  <2>6. Contexts'
    BY <1>2, <2>2, <2>3, Names DEF UInv, Contexts
  <2> QED
    BY <2>2, <2>4, <2>5, <2>6 DEF UInv
<1> QED
  BY <1>1, <1>2

\* A call of a task: it is awake, the current task and not IDLE.
LEMMA CallsKeepUInv ==
    ASSUME UInv, NEW t \in Tasks \cup {MAIN}, Call(t)
    PROVE  UInv'
<1>1. /\ t \in Tasks /\ t # IDLE /\ running = t /\ pc[t] = "user"
      /\ outcome = "runs"
  BY DEF Call, kos_yield, kos_delay_ms, kos_set_next_schedule_delay_ms,
         kos_task_exit, StartScan, At, UInv, Phases
<1>2. /\ kos_current_task = t /\ pc[MAIN] # "register"
      /\ next \in [Tasks -> Tasks]
  BY <1>1, TaskRuns, NextInList
<1>3. ASSUME NEW d \in Delays PROVE (d \div 10) % 256 \in 0..255
  <2>1. d \in Nat
    BY UnixKosAssumption DEF UnixKosAssumption
  <2>2. d \div 10 \in Int
    BY <2>1
  <2>3. \A q \in Int : q % 256 \in 0..255
    OBVIOUS
  <2> QED
    BY <2>2, <2>3
\* What the calls that enter the scheduler have in common.
<1>4. ASSUME StartScan(t), UnixTypeOK', kos_current_task' = kos_current_task,
             \/ status' = status
             \/ status' = [status EXCEPT ![t] = "ZOMBIE"]
      PROVE  UInv'
  <2>1. /\ pc' = [pc EXCEPT ![t] = "scan"]
        /\ ptr' = [ptr EXCEPT ![t] = next[t]]
        /\ UNCHANGED <<list, stack, uctx, running, pending, outcome>>
    BY <1>4 DEF StartScan
  <2>2. pc'[t] = "scan" /\ \A x \in (Tasks \cup {MAIN}) \ {t} :
                             pc'[x] = pc[x] /\ ptr'[x] = ptr[x]
    BY <2>1 DEF UInv, UnixTypeOK
  <2>3. \A x \in Tasks : status[x] = "ZOMBIE" => status'[x] = "ZOMBIE"
    BY <1>4 DEF UInv, UnixTypeOK
  <2>4. \A x \in Tasks : status'[x] = "READY" => status[x] = "READY"
    BY <1>4 DEF UInv, UnixTypeOK
  <2>5. RingShape'
    BY <2>1 DEF UInv, RingShape, list
  <2>6. Phases'
    BY <1>1, <1>2, <1>4, <2>1, <2>2, Names DEF UInv, Phases, list
  <2>7. Walks'
    <3>1. status'[IDLE] = "READY"
      BY <1>1, <1>4, Names DEF UInv, UnixTypeOK, Walks
    <3>2. ASSUME NEW x \in Tasks, x # t
          PROVE  /\ pc'[x] \notin {"register", "start"}
                 /\ pc'[x] # "user" => x # IDLE
                 /\ status'[x] = "ZOMBIE" => pc'[x] # "user"
                 /\ pc'[x] \in {"unmap", "clear"} => status'[ptr'[x]] = "ZOMBIE"
                 /\ pc'[x] \in {"unmap", "clear", "dispatch", "switch"}
                      => ptr'[x] # x
      <4>1. status'[x] = status[x]
        BY <1>4, <3>2 DEF UInv, UnixTypeOK
      <4>2. pc'[x] = pc[x] /\ ptr'[x] = ptr[x] /\ ptr[x] \in Tasks
        BY <2>2, <3>2 DEF UInv, UnixTypeOK
      <4> QED
        BY <2>3, <4>1, <4>2 DEF UInv, Walks
    <3> QED
      BY <1>1, <2>2, <3>1, <3>2 DEF Walks
  <2>8. Contexts'
    BY <1>1, <1>2, <1>4, <2>1, <2>2, Names DEF UInv, Contexts
  <2>9. LivingStacksMapped'
    <3>1. tasks_count' = N + 1 /\ tasks_count = N + 1
      BY <1>2, <2>1 DEF UInv, Phases, list
    <3>2. 0..(tasks_count - 1) = Tasks
      BY <3>1, UnixKosAssumption DEF UnixKosAssumption, Tasks
    <3> QED
      BY <2>1, <2>4, <3>1, <3>2 DEF UInv, LivingStacksMapped, stack
  <2> QED
    BY <1>4, <2>5, <2>6, <2>7, <2>8, <2>9 DEF UInv
<1>5. CASE kos_yield(t)
  <2>1. UnixTypeOK'
    BY <1>1, <1>2, <1>5
       DEF kos_yield, StartScan, UInv, UnixTypeOK, list, stack
  <2> QED
    BY <1>4, <1>5, <2>1 DEF kos_yield
<1>6. ASSUME NEW d \in Delays, kos_delay_ms(t, d) PROVE UInv'
  <2>1. UnixTypeOK'
    BY <1>1, <1>2, <1>3, <1>6
       DEF kos_delay_ms, StartScan, UInv, UnixTypeOK, list, stack
  <2> QED
    BY <1>4, <1>6, <2>1 DEF kos_delay_ms
<1>7. ASSUME NEW d \in Delays, kos_set_next_schedule_delay_ms(t, d)
      PROVE  UInv'
  <2>1. UnixTypeOK'
    BY <1>1, <1>3, <1>7
       DEF kos_set_next_schedule_delay_ms, UInv, UnixTypeOK, list, stack, ctx
  <2> QED
    BY <1>7, <2>1
       DEF kos_set_next_schedule_delay_ms, UInv, RingShape, Phases, Walks,
           Contexts, LivingStacksMapped, list, stack, ctx
<1>8. CASE kos_task_exit(t)
  <2>1. UnixTypeOK'
    BY <1>1, <1>2, <1>8
       DEF kos_task_exit, StartScan, UInv, UnixTypeOK, list, stack
  <2> QED
    BY <1>4, <1>8, <2>1 DEF kos_task_exit
<1> QED
  BY <1>5, <1>6, <1>7, <1>8 DEF Call

\* Where a task is in the kernel changes, and what its walk points at.
LEMMA WalksStep ==
    ASSUME UInv, NEW t \in Tasks, t # IDLE, status' = status,
           \A x \in Tasks \ {t} : pc'[x] = pc[x] /\ ptr'[x] = ptr[x],
           pc'[t] \notin {"register", "start"},
           status[t] = "ZOMBIE" => pc'[t] # "user",
           pc'[t] \in {"unmap", "clear"} => status[ptr'[t]] = "ZOMBIE",
           pc'[t] \in {"unmap", "clear", "dispatch", "switch"} => ptr'[t] # t
    PROVE  Walks'
BY DEF UInv, Walks

\* What a step of a task in the kernel finds.
LEMMA InKernel ==
    ASSUME UInv, NEW t \in Tasks, outcome = "runs", running = t,
           pc[t] # "user"
    PROVE  /\ t # IDLE /\ t # MAIN
           /\ ptr[t] \in Tasks
           /\ pc[MAIN] # "register" /\ tasks_count = N + 1
           /\ kos_current_task # NULL
           /\ next \in [Tasks -> Tasks]
           /\ 0..(tasks_count - 1) = Tasks
<1>1. pc[MAIN] # "register" /\ kos_current_task # NULL
  BY TaskRuns
<1>2. t # IDLE /\ t # MAIN /\ ptr[t] \in Tasks
  BY Names DEF UInv, UnixTypeOK, Walks
<1>3. tasks_count = N + 1
  BY <1>1 DEF UInv, Phases
<1>4. 0..(tasks_count - 1) = Tasks
  BY <1>3, UnixKosAssumption DEF UnixKosAssumption, Tasks
<1> QED
  BY <1>1, <1>2, <1>3, <1>4, NextInList

\* The walk, and the release of a stack.
LEMMA WalkKeepsUInv ==
    ASSUME UInv, NEW t \in Tasks,
           kos_get_next_task(t) \/ munmap(t) \/ clear_stack(t)
    PROVE  UInv'
<1>1. outcome = "runs" /\ running = t /\ pc[t] \in {"scan", "unmap", "clear"}
  BY DEF kos_get_next_task, munmap, clear_stack, At
<1> USE InKernel, <1>1
<1>2. CASE kos_get_next_task(t)
  <2>1. \E l \in {"scan", "dispatch", "unmap"}, u \in Tasks :
           /\ pc' = [pc EXCEPT ![t] = l] /\ ptr' = [ptr EXCEPT ![t] = u]
           /\ l = "unmap" => status[u] = "ZOMBIE"
           /\ l # "scan" => u # t
    <3>1. CASE ptr[t] = t /\ ptr' = [ptr EXCEPT ![t] = IDLE]
               /\ pc' = [pc EXCEPT ![t] = "dispatch"]
      BY <3>1, Names
    <3>2. ptr = [ptr EXCEPT ![t] = ptr[t]] /\ pc = [pc EXCEPT ![t] = pc[t]]
      BY DEF UInv, UnixTypeOK
    <3>3. CASE ptr[t] # t /\ UNCHANGED ptr /\ pc' = [pc EXCEPT ![t] = "dispatch"]
      BY <3>2, <3>3
    <3>4. CASE ptr[t] # t /\ Releasable(ptr[t]) /\ UNCHANGED ptr
               /\ pc' = [pc EXCEPT ![t] = "unmap"]
      BY <3>2, <3>4 DEF Releasable
    <3>5. CASE UNCHANGED pc /\ ptr' = [ptr EXCEPT ![t] = next[ptr[t]]]
      <4>1. pc[t] = "scan" /\ next[ptr[t]] \in Tasks
        BY <1>2 DEF kos_get_next_task, At
      <4> QED
        BY <3>2, <3>5, <4>1
    <3> QED
      BY <1>2, <3>1, <3>3, <3>4, <3>5 DEF kos_get_next_task
  <2>2. PICK l \in {"scan", "dispatch", "unmap"}, u \in Tasks :
           /\ pc' = [pc EXCEPT ![t] = l] /\ ptr' = [ptr EXCEPT ![t] = u]
           /\ l = "unmap" => status[u] = "ZOMBIE"
           /\ l # "scan" => u # t
    BY <2>1
  <2>3. /\ pc'[t] = l /\ ptr'[t] = u
        /\ \A x \in (Tasks \cup {MAIN}) \ {t} : pc'[x] = pc[x] /\ ptr'[x] = ptr[x]
    BY <2>2 DEF UInv, UnixTypeOK
  <2>4. UNCHANGED <<list, sched, stack, uctx, running, pending, outcome>>
    BY <1>2 DEF kos_get_next_task
  <2>5. UnixTypeOK' /\ RingShape' /\ LivingStacksMapped'
    BY <2>2, <2>4
       DEF UInv, UnixTypeOK, RingShape, LivingStacksMapped, list, sched, stack
  <2>6. Phases'
    BY <2>3, <2>4, Names DEF UInv, Phases, list, sched
  <2>7. Walks'
    BY <2>2, <2>3, <2>4, WalksStep DEF sched
  <2>8. Contexts'
    BY <2>2, <2>3, <2>4 DEF UInv, Contexts, sched
  <2> QED
    BY <2>5, <2>6, <2>7, <2>8 DEF UInv
<1>3. CASE munmap(t) /\ outcome' # "runs"
  BY <1>3, ZenonT(60)
     DEF munmap, UInv, UnixTypeOK, RingShape, Phases, Walks, Contexts,
              LivingStacksMapped, list, sched
<1>4. CASE munmap(t) /\ outcome' = "runs"
  <2>1. /\ mapped' = mapped \ {ptr[t]} /\ pc' = [pc EXCEPT ![t] = "clear"]
        /\ UNCHANGED <<list, sched, sized, uctx, running, ptr, pending, outcome>>
        /\ pc[t] = "unmap"
    BY <1>4 DEF munmap, At
  <2>2. pc'[t] = "clear"
        /\ \A x \in (Tasks \cup {MAIN}) \ {t} : pc'[x] = pc[x]
    BY <2>1 DEF UInv, UnixTypeOK
  <2>3. status[ptr[t]] = "ZOMBIE" /\ ptr[t] # t
    BY <2>1 DEF UInv, Walks
  <2>4. UnixTypeOK' /\ RingShape'
    BY <2>1 DEF UInv, UnixTypeOK, RingShape, list, sched
  <2>5. Phases'
    BY <2>1, <2>2, Names DEF UInv, Phases, list, sched
  <2>6. Walks'
    BY <2>1, <2>2, <2>3, WalksStep DEF sched
  <2>7. Contexts'
    BY <2>1, <2>2 DEF UInv, Contexts, sched
  <2>8. LivingStacksMapped'
    BY <2>1, <2>3 DEF UInv, LivingStacksMapped, list, sched
  <2> QED
    BY <2>4, <2>5, <2>6, <2>7, <2>8 DEF UInv
<1>5. CASE clear_stack(t)
  <2>1. /\ sized' = sized \ {ptr[t]} /\ pc' = [pc EXCEPT ![t] = "scan"]
        /\ ptr' = [ptr EXCEPT ![t] = next[ptr[t]]] /\ next[ptr[t]] \in Tasks
        /\ UNCHANGED <<list, sched, mapped, uctx, running, pending, outcome>>
        /\ pc[t] = "clear"
    BY <1>5 DEF clear_stack, At
  <2>2. pc'[t] = "scan"
        /\ \A x \in (Tasks \cup {MAIN}) \ {t} : pc'[x] = pc[x] /\ ptr'[x] = ptr[x]
    BY <2>1 DEF UInv, UnixTypeOK
  <2>3. status[ptr[t]] = "ZOMBIE"
    BY <2>1 DEF UInv, Walks
  <2>4. UnixTypeOK' /\ RingShape'
    BY <2>1 DEF UInv, UnixTypeOK, RingShape, list, sched
  <2>5. Phases'
    BY <2>1, <2>2, Names DEF UInv, Phases, list, sched
  <2>6. Walks'
    BY <2>1, <2>2, WalksStep DEF sched
  <2>7. Contexts'
    BY <2>1, <2>2 DEF UInv, Contexts, sched
  <2>8. LivingStacksMapped'
    BY <2>1, <2>3 DEF UInv, LivingStacksMapped, list, sched
  <2> QED
    BY <2>4, <2>5, <2>6, <2>7, <2>8 DEF UInv
<1> QED
  BY <1>2, <1>3, <1>4, <1>5

\* kos_dispatch in its two halves, and the return from it.
LEMMA SwitchKeepsUInv ==
    ASSUME UInv, NEW t \in Tasks,
           kos_dispatch(t) \/ swapcontext(t) \/ kos_schedule_return(t)
    PROVE  UInv'
<1>1. /\ outcome = "runs" /\ running = t
      /\ pc[t] \in {"dispatch", "switch", "switched"}
  BY DEF kos_dispatch, swapcontext, kos_schedule_return, At
<1> USE InKernel, <1>1
<1>2. CASE kos_dispatch(t)
  <2>1. /\ kos_current_task' = ptr[t] /\ pc' = [pc EXCEPT ![t] = "switch"]
        /\ UNCHANGED <<list, status, nb_tick_to_wait, stack, uctx, running, ptr,
                       pending, outcome>>
        /\ pc[t] = "dispatch"
    BY <1>2 DEF kos_dispatch, At
  <2>2. pc'[t] = "switch"
        /\ \A x \in (Tasks \cup {MAIN}) \ {t} : pc'[x] = pc[x]
    BY <2>1 DEF UInv, UnixTypeOK
  <2>3. UnixTypeOK' /\ RingShape' /\ LivingStacksMapped'
    BY <2>1 DEF UInv, UnixTypeOK, RingShape, LivingStacksMapped, list, stack
  <2>4. Phases'
    BY <2>1, <2>2, Names DEF UInv, Phases, list
  <2>5. Walks'
    <3>1. ptr[t] # t
      BY <2>1 DEF UInv, Walks
    <3> QED
      BY <2>1, <2>2, <3>1, WalksStep
  <2>6. Contexts'
    BY <2>1, <2>2 DEF UInv, Contexts
  <2> QED
    BY <2>3, <2>4, <2>5, <2>6 DEF UInv
<1>3. CASE swapcontext(t)
  <2>1. /\ uctx' = [uctx EXCEPT ![t] = t] /\ running' = uctx[ptr[t]]
        /\ pc' = [pc EXCEPT ![t] = "switched"]
        /\ ptr' = [ptr EXCEPT ![t] = IDLE]
        /\ outcome' = IF ptr[t] \in mapped THEN "runs" ELSE "segv"
        /\ UNCHANGED <<list, sched, stack, pending>>
        /\ pc[t] = "switch"
    BY <1>3 DEF swapcontext, At
  <2>2. pc'[t] = "switched" /\ ptr'[t] = IDLE
        /\ \A x \in (Tasks \cup {MAIN}) \ {t} : pc'[x] = pc[x] /\ ptr'[x] = ptr[x]
    BY <2>1, Names DEF UInv, UnixTypeOK
  <2>3. /\ running' = ptr[t] /\ \A x \in Tasks : uctx'[x] = x
        /\ kos_current_task = ptr[t] /\ ptr[t] # t
    BY <2>1 DEF UInv, UnixTypeOK, Contexts, Walks
  <2>4. UnixTypeOK' /\ RingShape'
    BY <2>1, <2>3, Names DEF UInv, UnixTypeOK, RingShape, list, sched, stack
  <2>5. Phases'
    BY <2>1, <2>2, Names DEF UInv, Phases, list, sched
  <2>6. Walks'
    BY <2>1, <2>2, WalksStep DEF sched
  <2>7. Contexts'
    <3>1. \A x \in Tasks : pc'[x] # "switch"
      BY <2>2 DEF UInv, Contexts
    <3>2. running' # MAIN /\ kos_current_task' = running'
      BY <2>1, <2>3, Names DEF sched
    <3> QED
      BY <2>3, <3>1, <3>2 DEF Contexts
  <2>8. LivingStacksMapped'
    BY <2>1, <2>3 DEF UInv, LivingStacksMapped, list, sched, stack
  <2> QED
    BY <2>4, <2>5, <2>6, <2>7, <2>8 DEF UInv
<1>4. CASE kos_schedule_return(t)
  <2>1. /\ pc' = [pc EXCEPT ![t] = IF status[t] = "ZOMBIE" THEN "loop"
                                  ELSE "user"]
        /\ UNCHANGED <<list, sched, stack, uctx, running, ptr, pending, outcome>>
        /\ pc[t] = "switched"
    BY <1>4 DEF kos_schedule_return, At
  <2>2. pc'[t] = (IF status[t] = "ZOMBIE" THEN "loop" ELSE "user")
        /\ \A x \in (Tasks \cup {MAIN}) \ {t} : pc'[x] = pc[x]
    BY <2>1 DEF UInv, UnixTypeOK
  <2>3. UnixTypeOK' /\ RingShape' /\ LivingStacksMapped'
    BY <2>1
       DEF UInv, UnixTypeOK, RingShape, LivingStacksMapped, list, sched, stack
  <2>4. Phases'
    BY <2>1, <2>2, Names DEF UInv, Phases, list, sched
  <2>5. Walks'
    BY <2>1, <2>2, WalksStep DEF sched
  <2>6. Contexts'
    BY <2>1, <2>2 DEF UInv, Contexts, sched
  <2> QED
    BY <2>3, <2>4, <2>5, <2>6 DEF UInv
<1> QED
  BY <1>2, <1>3, <1>4

\* The one step of main that Kernel stands for: setcontext to the head.
LEMMA MainKeepsUInv ==
    ASSUME UInv, Kernel(MAIN)
    PROVE  UInv'
<1>1. /\ outcome = "runs" /\ running = MAIN /\ pc[MAIN] = "switch"
      /\ swapcontext(MAIN)
  BY DEF Kernel, kos_get_next_task, munmap, clear_stack, kos_dispatch,
         swapcontext, kos_schedule_return, At, UInv, Phases, Contexts
<1>2. /\ uctx' = uctx /\ running' = uctx[ptr[MAIN]]
      /\ pc' = [pc EXCEPT ![MAIN] = "switched"]
      /\ ptr' = [ptr EXCEPT ![MAIN] = IDLE]
      /\ outcome' = IF ptr[MAIN] \in mapped THEN "runs" ELSE "segv"
      /\ UNCHANGED <<list, sched, stack, pending>>
  BY <1>1 DEF swapcontext
<1>3. /\ ptr[MAIN] \in Tasks /\ running' = ptr[MAIN]
      /\ kos_current_task # NULL /\ kos_current_task = ptr[MAIN]
  BY <1>1, <1>2 DEF UInv, UnixTypeOK, Phases, Contexts
<1>4. pc'[MAIN] = "switched"
      /\ \A x \in Tasks : pc'[x] = pc[x] /\ ptr'[x] = ptr[x]
  BY <1>2, Names DEF UInv, UnixTypeOK
<1>5. UnixTypeOK' /\ RingShape'
  BY <1>2, <1>3, Names DEF UInv, UnixTypeOK, RingShape, list, sched, stack
<1>6. Phases'
  BY <1>1, <1>2, <1>3, <1>4, Names DEF UInv, Phases, list, sched
<1>7. Walks'
  BY <1>2, <1>4 DEF UInv, Walks, sched
<1>8. Contexts'
  BY <1>1, <1>2, <1>3, <1>4, Names, ZenonT(60) DEF UInv, Contexts, sched
<1>9. LivingStacksMapped'
  BY <1>2, <1>3 DEF UInv, LivingStacksMapped, list, sched, stack
<1> QED
  BY <1>5, <1>6, <1>7, <1>8, <1>9 DEF UInv

\* The first tick, when main has not come to kos_run.
LEMMA FirstTickKeepsUInv ==
    ASSUME UInv, irq_timer_tick_handler, kos_current_task = NULL
    PROVE  UInv'
<1>1. /\ outcome = "runs" /\ pending /\ pending' = FALSE
      /\ nb_tick_to_wait' = TicksLeft
      /\ kos_current_task' = task_head /\ running' = uctx[task_head]
      /\ UNCHANGED <<list, status, pc, ptr, stack, uctx, outcome>>
  BY DEF irq_timer_tick_handler
<1>2. /\ running = MAIN /\ pc[MAIN] = "start" /\ tasks_count = N + 1
      /\ status[task_head] = "READY"
      /\ task_head \in 0..(tasks_count - 1) /\ task_head \in Tasks
  <2>1. running = MAIN /\ pc[MAIN] = "start" /\ tasks_count = N + 1
    BY <1>1 DEF UInv, Phases
  <2>2. task_head \in 0..(tasks_count - 1) /\ task_head \in Tasks
    BY <2>1, UnixKosAssumption DEF UInv, RingShape, UnixKosAssumption, Tasks
  <2> QED
    BY <2>1, <2>2 DEF UInv, Phases
<1>3. running' = task_head
  BY <1>1, <1>2 DEF UInv, Contexts
<1>4. TicksLeft \in [Tasks -> 0..255]
  BY DEF UInv, UnixTypeOK, TicksLeft
<1>5. UnixTypeOK' /\ RingShape'
  BY <1>1, <1>2, <1>3, <1>4 DEF UInv, UnixTypeOK, RingShape, list, stack
<1>6. Phases'
  BY <1>1, <1>2, Names DEF UInv, Phases, list
<1>7. Walks'
  BY <1>1 DEF UInv, Walks
<1>8. Contexts'
  <2>1. pc[task_head] # "switch"
    BY <1>1, <1>2, Names DEF UInv, Contexts
  <2>2. \A x \in Tasks : pc[x] # "switch"
    BY <1>1, <1>2, Names DEF UInv, Contexts
  <2> QED
    BY <1>1, <1>2, <1>3, <2>1, <2>2, Names DEF UInv, Contexts
<1>9. LivingStacksMapped'
  BY <1>1, <1>2, <1>3 DEF UInv, LivingStacksMapped, list, stack
<1> QED
  BY <1>5, <1>6, <1>7, <1>8, <1>9 DEF UInv

\* Each tick behind the first.  It releases stacks of exited tasks only, and
\* chooses a living task or IDLE.
LEMMA TickKeepsUInv ==
    ASSUME UInv, irq_timer_tick_handler, kos_current_task # NULL
    PROVE  UInv' /\ kos_current_task' \in Tasks
<1> DEFINE cur == kos_current_task
<1>1. /\ outcome = "runs" /\ pending' = FALSE
      /\ nb_tick_to_wait' = TicksLeft
      /\ UNCHANGED <<list, status, pc, ptr>>
      /\ kos_tick_schedule(cur)
  BY DEF irq_timer_tick_handler
<1>2. PICK w \in ListFrom(cur), n \in 0..N :
        /\ Passed(w, n)
        /\ sized' = sized \ ({ w[k] : k \in 1..n } \cap
                               { t \in Tasks : Releasable(t) })
        /\ mapped' = mapped \ ({ w[k] : k \in 1..n } \cap
                                 { t \in Tasks : Releasable(t) })
        /\ kos_current_task' = IF n = N THEN IDLE ELSE w[n + 1]
        /\ IF kos_current_task' = cur THEN UNCHANGED <<uctx, running>>
           ELSE /\ uctx' = [uctx EXCEPT ![cur] = running]
                /\ running' = uctx[kos_current_task']
        /\ outcome' = IF running \in ({ w[k] : k \in 1..n } \cap
                                        { t \in Tasks : Releasable(t) })
                      THEN "segv"
                      ELSE IF kos_current_task' # cur /\ running # cur
                           THEN "lost" ELSE "runs"
  BY <1>1 DEF kos_tick_schedule
<1> DEFINE task == IF n = N THEN IDLE ELSE w[n + 1]
           free == { w[k] : k \in 1..n } \cap { t \in Tasks : Releasable(t) }
<1>3. /\ kos_current_task' = task
      /\ sized' = sized \ free /\ mapped' = mapped \ free
      /\ outcome' = IF running \in free THEN "segv"
                    ELSE IF task # cur /\ running # cur THEN "lost"
                    ELSE "runs"
      /\ task = cur => UNCHANGED <<uctx, running>>
      /\ task # cur => /\ uctx' = [uctx EXCEPT ![cur] = running]
                       /\ running' = uctx[task]
  BY <1>2
<1>4. task \in Tasks /\ status[task] = "READY"
  <2>1. CASE n = N
    BY <2>1, Names DEF UInv, Walks
  <2>2. CASE n # N
    <3>1. n < N /\ n + 1 \in 0..N
      BY <2>2, UnixKosAssumption DEF UnixKosAssumption
    <3>2. status[w[n + 1]] = "READY"
      BY <1>2, <3>1 DEF Passed
    <3>3. w \in [0..N -> Tasks]
      BY DEF ListFrom
    <3> QED
      BY <2>2, <3>1, <3>2, <3>3
  <2> QED
    BY <2>1, <2>2
<1>5. \A t \in free : t \in Tasks /\ status[t] = "ZOMBIE"
  BY DEF Releasable
<1>6. cur \in Tasks /\ TicksLeft \in [Tasks -> 0..255]
  BY DEF UInv, UnixTypeOK, TicksLeft
<1>7. /\ outcome = "runs" /\ pc[MAIN] # "register" /\ tasks_count = N + 1
      /\ \A x \in Tasks : uctx[x] = x
  BY <1>1 DEF UInv, Phases, Contexts
<1>8. 0..(tasks_count - 1) = Tasks
  BY <1>7, UnixKosAssumption DEF UnixKosAssumption, Tasks
<1> HIDE DEF task, free, cur
<1>9. task # cur => running' = task
  BY <1>3, <1>4, <1>7
<1>10. UnixTypeOK' /\ RingShape'
  <2>1. uctx' \in [Tasks -> Tasks \cup {MAIN}] /\ running' \in Tasks \cup {MAIN}
    <3>1. CASE task = cur
      BY <1>3, <3>1 DEF UInv, UnixTypeOK
    <3>2. CASE task # cur
      BY <1>3, <1>4, <1>6, <1>9, <3>2 DEF UInv, UnixTypeOK
    <3> QED
      BY <3>1, <3>2
  <2>2. sized' \subseteq Tasks /\ mapped' \subseteq Tasks
    BY <1>3 DEF UInv, UnixTypeOK
  <2>3. outcome' \in {"runs", "lost", "segv", "exit"}
    BY <1>3
  <2>4. UnixTypeOK'
    BY <1>1, <1>3, <1>4, <1>6, <2>1, <2>2, <2>3 DEF UInv, UnixTypeOK, list
  <2> QED
    BY <1>1, <2>4 DEF UInv, RingShape, list
<1>11. Phases'
  BY <1>1, <1>3, <1>4, <1>7, Names DEF UInv, Phases, list
<1>12. Walks'
  BY <1>1 DEF UInv, Walks
<1>13. Contexts'
  <2>1. CASE task = cur
    BY <1>1, <1>3, <2>1 DEF UInv, Contexts, cur
  <2>2. CASE task # cur /\ outcome' = "runs"
    <3>1. running = cur
      BY <1>3, <2>2
    <3>2. uctx' = uctx
      BY <1>3, <1>6, <1>7, <2>2, <3>1 DEF UInv, UnixTypeOK
    <3>3. \A x \in Tasks : pc[x] # "switch"
      BY <1>6, <1>7, <3>1, Names DEF UInv, Contexts, Walks, cur
    <3> QED
      BY <1>1, <1>3, <1>4, <1>7, <1>9, <2>2, <3>2, <3>3, Names DEF Contexts
  <2>3. CASE outcome' # "runs"
    BY <2>3 DEF Contexts
  <2> QED
    BY <2>1, <2>2, <2>3
<1>14. LivingStacksMapped'
  <2>1. \A t \in Tasks : status[t] = "READY" => t \in mapped' /\ t \in sized'
    BY <1>3, <1>5, <1>7, <1>8 DEF UInv, LivingStacksMapped
  <2>2. ASSUME outcome' = "runs", running' # MAIN PROVE running' \in mapped'
    <3>1. CASE task # cur
      BY <1>4, <1>9, <2>1, <3>1
    <3>2. CASE task = cur
      BY <1>3, <1>7, <2>2, <3>2 DEF UInv, LivingStacksMapped
    <3> QED
      BY <3>1, <3>2
  <2> QED
    BY <1>1, <1>8, <2>1, <2>2 DEF LivingStacksMapped, list
<1> QED
  BY <1>3, <1>4, <1>10, <1>11, <1>12, <1>13, <1>14 DEF UInv

LEMMA NextKeepsUInv ==
    ASSUME UInv, [UnixNext]_unixVars
    PROVE  UInv'
<1>1. ASSUME NEW t \in Tasks, Kernel(t) PROVE UInv'
  BY <1>1, WalkKeepsUInv, SwitchKeepsUInv DEF Kernel
<1>2. ASSUME NEW t \in Tasks \cup {MAIN}, Call(t) \/ Kernel(t) PROVE UInv'
  BY <1>1, <1>2, CallsKeepUInv, MainKeepsUInv
<1>3. CASE TimerExpires
  BY <1>3 DEF TimerExpires, UInv, UnixTypeOK, RingShape, Phases, Walks, Contexts,
              LivingStacksMapped, list, sched, stack, ctx
<1>4. CASE irq_timer_tick_handler
  BY <1>4, FirstTickKeepsUInv, TickKeepsUInv
<1>5. CASE UNCHANGED unixVars
  BY <1>5 DEF unixVars, UInv, UnixTypeOK, RingShape, Phases, Walks, Contexts,
              LivingStacksMapped, list, sched, stack, ctx
<1> QED
  BY <1>2, <1>3, <1>4, <1>5, RegisterKeepsUInv, StartKeepsUInv DEF UnixNext, Ended

LEMMA UInvariant == UnixSpec => []UInv
<1>1. UnixInit => UInv
  BY InitUInv
<1>2. UInv /\ [UnixNext]_unixVars => UInv'
  BY NextKeepsUInv
<1> QED
  BY <1>1, <1>2, PTL DEF UnixSpec

-----------------------------------------------------------------------------
\* Type correctness of the simulator's kernel.
THEOREM UnixTypeCorrect == UnixSpec => []UnixTypeOK
<1>1. UInv => UnixTypeOK
  BY DEF UInv
<1> QED
  BY <1>1, UInvariant, PTL

\* The walks of kos_get_next_task, in the handler and out of it, release no
\* stack of a living task, for any number of tasks; nor, as long as the
\* simulation runs, the stack that the CPU runs on.
THEOREM LivingKeepStacks == UnixSpec => []LivingStacksMapped
<1>1. UInv => LivingStacksMapped
  BY DEF UInv
<1> QED
  BY <1>1, UInvariant, PTL

LEMMA PromiseKept ==
    ASSUME UInv, [UnixNext]_unixVars
    PROVE  [Promise!Next]_(Promise!avars)
<1> DEFINE Exited == { t \in Tasks : status[t] = "ZOMBIE" }
<1> USE DEF Promise!avars
<1>1. ASSUME UNCHANGED <<status, kos_current_task>>
      PROVE  [Promise!Next]_(Promise!avars)
  BY <1>1
<1>2. ASSUME status' = status, kos_current_task' \in Tasks
      PROVE  [Promise!Next]_(Promise!avars)
  BY <1>2, Names DEF Promise!Next, Promise!Take
<1>3. CASE kos_new_task \/ timer_normal_mode_setup \/ TimerExpires
           \/ UNCHANGED unixVars
  BY <1>1, <1>3 DEF kos_new_task, timer_normal_mode_setup, TimerExpires, unixVars,
                    sched
<1>4. CASE kos_run
  <2>1. task_head \in Tasks
    BY <1>4, UnixKosAssumption
       DEF kos_run, UInv, Phases, RingShape, UnixKosAssumption, Tasks
  <2> QED
    BY <1>2, <1>4, <2>1 DEF kos_run
<1>5. ASSUME NEW t \in Tasks \cup {MAIN}, Call(t)
      PROVE  [Promise!Next]_(Promise!avars)
  <2>1. CASE kos_task_exit(t)
    <3>1. /\ t \in Tasks /\ t # IDLE /\ running = t /\ pc[t] = "user"
          /\ outcome = "runs"
      BY <2>1 DEF kos_task_exit, StartScan, At, UInv, Phases
    <3>2. t = kos_current_task /\ status[t] # "ZOMBIE"
      BY <3>1, TaskRuns DEF UInv, Walks
    <3>3. status' = [status EXCEPT ![t] = "ZOMBIE"]
          /\ kos_current_task' = kos_current_task
      BY <2>1 DEF kos_task_exit
    <3>4. Exited' = Exited \cup {t} /\ t \notin Exited
      BY <3>1, <3>2, <3>3 DEF UInv, UnixTypeOK
    <3> QED
      BY <3>1, <3>2, <3>3, <3>4 DEF Promise!Next, Promise!Exit
  <2>2. CASE ~kos_task_exit(t)
    BY <1>1, <1>5, <2>2
       DEF Call, kos_yield, kos_delay_ms, kos_set_next_schedule_delay_ms
  <2> QED
    BY <2>1, <2>2
<1>6. ASSUME NEW t \in Tasks \cup {MAIN}, Kernel(t)
      PROVE  [Promise!Next]_(Promise!avars)
  <2>1. CASE kos_dispatch(t)
    <3>1. ptr[t] \in Tasks
      BY DEF UInv, UnixTypeOK
    <3> QED
      BY <1>2, <2>1, <3>1 DEF kos_dispatch
  <2>2. CASE ~kos_dispatch(t)
    BY <1>1, <1>6, <2>2
       DEF Kernel, kos_get_next_task, munmap, clear_stack, swapcontext,
           kos_schedule_return, sched
  <2> QED
    BY <2>1, <2>2
<1>7. CASE irq_timer_tick_handler
  <2>1. status' = status
    BY <1>7 DEF irq_timer_tick_handler
  <2>2. CASE kos_current_task = NULL
    <3>1. kos_current_task' \in Tasks \cup {NULL} /\ kos_current_task' = task_head
      BY <1>7, <2>2, FirstTickKeepsUInv
         DEF irq_timer_tick_handler, UInv, UnixTypeOK
    <3>2. task_head # NULL
      BY <1>7, UnixKosAssumption
         DEF irq_timer_tick_handler, UInv, Phases, RingShape,
             UnixKosAssumption, NULL
    <3> QED
      BY <1>2, <2>1, <3>1, <3>2
  <2>3. CASE kos_current_task # NULL
    BY <1>2, <1>7, <2>1, <2>3, TickKeepsUInv
  <2> QED
    BY <2>2, <2>3
<1> QED
  BY <1>3, <1>4, <1>5, <1>6, <1>7 DEF UnixNext, Ended

\* The simulator's kernel keeps the safety part of Multitasking's promise, as
\* the AVR's does (KosProofs): a task exits by its own call only, and no other
\* step, the release of stacks included, changes who has exited.
THEOREM UnixImplementsPromise == UnixSpec => PromiseSafety
<1>1. UnixInit => Promise!Init
  BY DEF UnixInit, Promise!Init
<1>2. UInv /\ [UnixNext]_unixVars => [Promise!Next]_(Promise!avars)
  BY PromiseKept
<1> QED
  BY <1>1, <1>2, UInvariant, PTL DEF UnixSpec, PromiseSafety
=============================================================================
