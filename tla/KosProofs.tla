------------------------------ MODULE KosProofs ------------------------------
(***************************************************************************)
(* Theorems about the kernel of module Kos, for any number of tasks and    *)
(* any delays, about the list that kos_new_task builds, and about the      *)
(* timing of the kernel (KosTiming).                                       *)
(***************************************************************************)
EXTENDS KosTiming, TLAPS, WellFoundedInduction, FiniteSetTheorems

\* What a step relies on: the types alone are not inductive, since the walk of
\* kos_get_next_task stays on the list only because the list is a cycle, and
\* it is one only once every task is registered.
IInv == TypeOK /\ RingShape /\ Phases

LEMMA TaskFacts == IDLE \in Tasks /\ NULL \notin Tasks /\ IDLE # NULL
  BY NAssumption DEF NAssumption, Tasks, IDLE, NULL

LEMMA InitInv == Init => IInv
<1> SUFFICES ASSUME Init PROVE IInv
  OBVIOUS
<1>1. TypeOK
  <2>1. tasks_count \in 0..(N + 1)
    BY NAssumption DEF NAssumption, Init
  <2>2. /\ next \in [Tasks -> Tasks \cup {NULL}]
        /\ ptr \in [Tasks -> Tasks]
    BY TaskFacts DEF Init
  <2>3. /\ status \in [Tasks -> {"READY", "ZOMBIE"}]
        /\ pc \in [Tasks -> {"user", "scan", "dispatch", "switched", "loop"}]
        /\ main \in {"register", "kos_run", "gone"}
    BY DEF Init
  <2>4. nb_tick_to_wait \in [Tasks -> 0..255]
    BY DEF Init
  <2>5. /\ task_head = NULL /\ task_tail = NULL /\ kos_current_task = NULL
        /\ irq_off = {} /\ pending = FALSE
    BY DEF Init
  <2> QED
    BY <2>1, <2>2, <2>3, <2>4, <2>5 DEF TypeOK
<1>2. RingShape
  BY NAssumption DEF NAssumption, Init, RingShape, Tasks, IDLE, NULL
<1>3. Phases
  BY DEF Init, Phases
<1> QED
  BY <1>1, <1>2, <1>3 DEF IInv

\* Each task a walk may visit has a successor in the list.
LEMMA NextInList ==
  ASSUME IInv, kos_current_task # NULL
  PROVE  next \in [Tasks -> Tasks]
<1>1. tasks_count = N + 1
  BY DEF IInv, Phases
<1>2. ASSUME NEW t \in Tasks PROVE next[t] \in Tasks
  BY <1>1, <1>2, NAssumption DEF NAssumption, IInv, RingShape, Tasks, IDLE, NULL
<1> QED
  BY <1>2 DEF IInv, TypeOK

\* The delay arithmetic stays in an uint8_t, whatever is asked for.
LEMMA DelayTicksType ==
  ASSUME NEW d \in Delays
  PROVE  DelayTicks(d) \in 0..255
<1>1. d \in Nat
  BY DelaysAssumption DEF DelaysAssumption
<1>2. TickMs \in Nat \ {0}
  BY TickMsAssumption DEF TickMsAssumption
<1>3. d \div TickMs \in Int
  BY <1>1, <1>2
<1>4. \A q \in Int : q % 256 \in 0..255
  OBVIOUS
<1> QED
  BY <1>3, <1>4 DEF DelayTicks

LEMMA TicksLeftType ==
  ASSUME TypeOK
  PROVE  TicksLeft \in [Tasks -> 0..255]
  BY DEF TypeOK, TicksLeft

LEMMA NextInv == IInv /\ [Next]_vars => IInv'
<1> SUFFICES ASSUME IInv, [Next]_vars PROVE IInv'
  OBVIOUS
<1> USE TaskFacts DEF IInv
<1>1. CASE kos_new_task
  <2>1. TypeOK'
    <3>1. tasks_count \in Tasks /\ tasks_count' \in 0..(N + 1)
      BY <1>1, NAssumption DEF NAssumption, kos_new_task, TypeOK, Tasks
    <3>2. task_tail' \in {IDLE, NULL}
      BY <1>1 DEF kos_new_task, TypeOK, RingShape, NULL, IDLE
    <3>3. next' \in [Tasks -> Tasks \cup {NULL}]
      BY <1>1, <3>1 DEF kos_new_task, TypeOK
    <3> QED
      BY <1>1, <3>1, <3>2, <3>3 DEF kos_new_task, TypeOK, ctx
  <2>2. RingShape'
    <3>1. tasks_count \in Nat /\ tasks_count' = tasks_count + 1
      BY <1>1 DEF kos_new_task, TypeOK
    <3>2. /\ task_head' = tasks_count' - 1
          /\ task_tail' = IF tasks_count' = 0 THEN NULL ELSE IDLE
      BY <1>1, <3>1 DEF kos_new_task, RingShape, IDLE, NULL
    <3>3. ASSUME NEW t \in Tasks
          PROVE  next'[t] = IF t = IDLE
                            THEN IF tasks_count' > 1 THEN tasks_count' - 1
                                 ELSE NULL
                            ELSE IF t < tasks_count' THEN t - 1 ELSE NULL
      <4>1. next \in [Tasks -> Tasks \cup {NULL}]
        BY DEF TypeOK
      <4>2. t \in Int /\ t >= 0
        BY NAssumption DEF NAssumption, Tasks
      <4>3. CASE task_head = NULL
        BY <1>1, <3>1, <4>2, <4>3 DEF kos_new_task, RingShape, IDLE, NULL
      <4>4. CASE task_head # NULL
        <5>1. tasks_count > 0 /\ task_tail = IDLE /\ task_head = tasks_count - 1
          BY <3>1, <4>4 DEF RingShape, NULL
        <5>2. next' = [next EXCEPT ![tasks_count] = task_head,
                                   ![task_tail] = tasks_count]
          BY <1>1, <4>4 DEF kos_new_task
        <5>3. next'[t] = IF t = IDLE THEN tasks_count
                         ELSE IF t = tasks_count THEN tasks_count - 1
                         ELSE next[t]
          BY <4>1, <5>1, <5>2
        <5> QED
          BY <3>1, <4>2, <5>1, <5>3 DEF RingShape, IDLE, NULL
      <4> QED
        BY <4>3, <4>4
    <3> QED
      BY <3>2, <3>3 DEF RingShape
  <2>3. Phases'
    BY <1>1 DEF kos_new_task, Phases, ctx
  <2> QED
    BY <2>1, <2>2, <2>3
<1>2. CASE msched_init
  BY <1>2 DEF msched_init, TypeOK, RingShape, Phases, list, sched, ctx
<1>3. CASE kos_run
  <2>1. task_head \in Tasks
    BY <1>3, NAssumption
    DEF NAssumption, kos_run, TypeOK, RingShape, Phases, Tasks, NULL
  <2> QED
    BY <1>3, <2>1 DEF kos_run, TypeOK, RingShape, Phases, list, ctx
<1>4. ASSUME NEW t \in Tasks, Call(t) PROVE IInv'
  <2>1. CASE kos_yield(t)
    <3>1. next \in [Tasks -> Tasks]
      BY <2>1, NextInList DEF kos_yield, InUserCode
    <3>2. TypeOK'
      BY <2>1, <3>1 DEF kos_yield, InUserCode, StartScan, TypeOK, list
    <3> QED
      BY <2>1, <3>2 DEF kos_yield, RingShape, Phases, list
  <2>2. ASSUME NEW d \in Delays, kos_delay_ms(t, d) PROVE IInv'
    <3>1. next \in [Tasks -> Tasks]
      BY <2>2, NextInList DEF kos_delay_ms, InUserCode
    <3>2. TypeOK'
      BY <2>2, <3>1, DelayTicksType
      DEF kos_delay_ms, InUserCode, StartScan, TypeOK, list
    <3> QED
      BY <2>2, <3>2 DEF kos_delay_ms, RingShape, Phases, list
  <2>3. ASSUME NEW d \in Delays, kos_set_next_schedule_delay_ms(t, d)
        PROVE  IInv'
    <3>1. TypeOK'
      BY <2>3, DelayTicksType
      DEF kos_set_next_schedule_delay_ms, TypeOK, list, ctx
    <3> QED
      BY <2>3, <3>1
      DEF kos_set_next_schedule_delay_ms, RingShape, Phases, list, ctx
  <2>4. CASE kos_task_exit(t)
    <3>1. next \in [Tasks -> Tasks]
      BY <2>4, NextInList DEF kos_task_exit, InUserCode
    <3>2. TypeOK'
      BY <2>4, <3>1 DEF kos_task_exit, InUserCode, StartScan, TypeOK, list
    <3> QED
      BY <2>4, <3>2 DEF kos_task_exit, RingShape, Phases, list
  <2>5. CASE irq_disable(t)
    BY <2>5 DEF irq_disable, InUserCode, TypeOK, RingShape, Phases, list, sched
  <2>6. CASE irq_enable(t)
    BY <2>6 DEF irq_enable, InUserCode, TypeOK, RingShape, Phases, list, sched
  <2> QED
    BY <1>4, <2>1, <2>2, <2>3, <2>4, <2>5, <2>6 DEF Call
<1>5. ASSUME NEW t \in Tasks, Kernel(t) PROVE IInv'
  <2>1. CASE kos_get_next_task(t)
    <3>1. next \in [Tasks -> Tasks]
      BY <2>1, NextInList DEF kos_get_next_task
    <3>2. TypeOK'
      BY <2>1, <3>1 DEF kos_get_next_task, TypeOK, list, sched
    <3> QED
      BY <2>1, <3>2 DEF kos_get_next_task, RingShape, Phases, list, sched
  <2>2. CASE kos_dispatch(t)
    BY <2>2 DEF kos_dispatch, TypeOK, RingShape, Phases, list
  <2>3. CASE kos_schedule_return(t)
    BY <2>3 DEF kos_schedule_return, TypeOK, RingShape, Phases, list, sched
  <2> QED
    BY <1>5, <2>1, <2>2, <2>3 DEF Kernel
<1>6. CASE TimerOverflow
  BY <1>6 DEF TimerOverflow, TypeOK, RingShape, Phases, list, sched, ctx
<1>7. CASE TickIsr
  <2>1. tasks_count = N + 1
    BY <1>7 DEF TickIsr, Phases
  <2>2. kos_current_task' \in Tasks
    <3>1. task_head \in Tasks
      BY <2>1, NAssumption DEF NAssumption, RingShape, Tasks
    <3> QED
      BY <1>7, <3>1 DEF TickIsr
  <2>3. TypeOK'
    BY <1>7, <2>2, TicksLeftType DEF TickIsr, TypeOK, list, ctx
  <2> QED
    BY <1>7, <2>1, <2>2, <2>3 DEF TickIsr, RingShape, Phases, list, ctx
<1>8. CASE UNCHANGED vars
  BY <1>8 DEF vars, list, sched, ctx, TypeOK, RingShape, Phases
<1> QED
  BY <1>1, <1>2, <1>3, <1>4, <1>5, <1>6, <1>7, <1>8 DEF Next, Boot

\* Every reachable state is well typed; with it, the list is the closed cycle
\* kos_new_task is meant to build, and no walk meets a NULL.
THEOREM TypeCorrect == Spec => [](TypeOK /\ RingShape /\ Phases)
<1>1. Init => IInv
  BY InitInv
<1>2. IInv /\ [Next]_vars => IInv'
  BY NextInv
<1> QED
  BY <1>1, <1>2, PTL DEF Spec, IInv

-----------------------------------------------------------------------------
(* Tasks that have exited                                                  *)

LEMMA LivesInv == IInv /\ Lives /\ [Next]_vars => Lives'
<1> SUFFICES ASSUME IInv, Lives, [Next]_vars PROVE Lives'
  OBVIOUS
<1> USE TaskFacts DEF IInv, TypeOK, Lives
<1>1. CASE kos_new_task
  BY <1>1 DEF kos_new_task
<1>2. CASE msched_init \/ kos_run
  BY <1>2 DEF msched_init, kos_run, sched, Phases
<1>3. ASSUME NEW t \in Tasks, Call(t) PROVE Lives'
  <2>1. t = kos_current_task /\ t # IDLE
    BY <1>3 DEF Call, InUserCode, kos_yield, kos_delay_ms, kos_task_exit,
                kos_set_next_schedule_delay_ms, irq_disable, irq_enable
  <2>2. kos_current_task' = kos_current_task
    BY <1>3 DEF Call, kos_yield, kos_delay_ms, kos_task_exit,
                kos_set_next_schedule_delay_ms, irq_disable, irq_enable, sched
  <2>3. status'[IDLE] = "READY"
    BY <1>3, <2>1 DEF Call, kos_yield, kos_delay_ms, kos_task_exit,
                kos_set_next_schedule_delay_ms, irq_disable, irq_enable, sched
  <2> QED
    BY <2>1, <2>2, <2>3
<1>4. ASSUME NEW t \in Tasks, Kernel(t) PROVE Lives'
  BY <1>4 DEF Kernel, kos_get_next_task, kos_dispatch, kos_schedule_return, sched
<1>5. CASE TimerOverflow \/ TickIsr
  BY <1>5 DEF TimerOverflow, TickIsr, sched, Phases
<1>6. CASE UNCHANGED vars
  BY <1>6 DEF vars, sched
<1> QED
  BY <1>1, <1>2, <1>3, <1>4, <1>5, <1>6 DEF Next, Boot

\* Once a task has called kos_task_exit its own code never runs again, although
\* the kernel may still switch to it.
THEOREM ExitIsFinal == Spec => []ExitedNeverReturns
<1>1. Init => ExitedNeverReturns
  BY DEF Init, ExitedNeverReturns
<1>2. TypeOK /\ ExitedNeverReturns /\ [Next]_vars => ExitedNeverReturns'
  <2> SUFFICES ASSUME TypeOK, ExitedNeverReturns, [Next]_vars,
                      NEW u \in Tasks, status'[u] = "ZOMBIE"
               PROVE  pc'[u] # "user"
    BY DEF ExitedNeverReturns
  <2> USE DEF TypeOK, ExitedNeverReturns
  <2>1. CASE Boot
    BY <2>1 DEF Boot, kos_new_task, msched_init, kos_run, sched, ctx
  <2>2. ASSUME NEW t \in Tasks, Call(t) PROVE pc'[u] # "user"
    <3>1. pc[t] = "user"
      BY <2>2 DEF Call, InUserCode, kos_yield, kos_delay_ms, kos_task_exit,
                  kos_set_next_schedule_delay_ms, irq_disable, irq_enable
    <3>2. CASE kos_task_exit(t)
      BY <3>1, <3>2 DEF kos_task_exit, StartScan
    <3>3. CASE ~kos_task_exit(t)
      <4>1. status' = status
        BY <2>2, <3>3 DEF Call, kos_yield, kos_delay_ms, sched,
                  kos_set_next_schedule_delay_ms, irq_disable, irq_enable
      <4>2. pc' = pc \/ pc' = [pc EXCEPT ![t] = "scan"]
        BY <2>2, <3>3 DEF Call, kos_yield, kos_delay_ms, ctx, StartScan,
                  kos_set_next_schedule_delay_ms, irq_disable, irq_enable
      <4> QED
        BY <3>1, <4>1, <4>2
    <3> QED
      BY <3>2, <3>3
  <2>3. ASSUME NEW t \in Tasks, Kernel(t) PROVE pc'[u] # "user"
    BY <2>3 DEF Kernel, kos_get_next_task, kos_dispatch, kos_schedule_return,
                sched
  <2>4. CASE TimerOverflow \/ TickIsr
    BY <2>4 DEF TimerOverflow, TickIsr, sched, ctx
  <2>5. CASE UNCHANGED vars
    BY <2>5 DEF vars, sched, ctx
  <2> QED
    BY <2>1, <2>2, <2>3, <2>4, <2>5 DEF Next
<1> QED
  BY <1>1, <1>2, TypeCorrect, PTL DEF Spec

LEMMA ExitedStep ==
  ASSUME IInv, Lives, [Next]_vars, NEW u \in Tasks, status[u] = "ZOMBIE"
  PROVE  UsesUpChoice(u)
<1> USE DEF IInv, TypeOK
<1>1. u # IDLE /\ u # NULL /\ kos_current_task # NULL
  BY TaskFacts DEF Lives
<1>2. ASSUME UNCHANGED <<pc, ptr, kos_current_task>> PROVE UsesUpChoice(u)
  BY <1>2 DEF UsesUpChoice, Deciders
<1>3. CASE Boot
  BY <1>1, <1>3 DEF Boot, kos_new_task, msched_init, kos_run, Phases
<1>4. ASSUME NEW t \in Tasks, Call(t) PROVE UsesUpChoice(u)
  <2>1. pc[t] = "user" /\ kos_current_task' = kos_current_task
    BY <1>4 DEF Call, InUserCode, kos_yield, kos_delay_ms, kos_task_exit, sched,
                kos_set_next_schedule_delay_ms, irq_disable, irq_enable
  <2>2. UNCHANGED <<pc, ptr>> \/ StartScan(t)
    BY <1>4 DEF Call, kos_yield, kos_delay_ms, kos_task_exit, ctx,
                kos_set_next_schedule_delay_ms, irq_disable, irq_enable
  <2>3. CASE StartScan(t)
    BY <2>1, <2>3 DEF StartScan, UsesUpChoice, Deciders
  <2> QED
    BY <1>2, <2>1, <2>2, <2>3
<1>5. ASSUME NEW t \in Tasks, Kernel(t) PROVE UsesUpChoice(u)
  <2>1. CASE kos_get_next_task(t)
    <3>1. kos_current_task' = kos_current_task /\ pc[t] = "scan"
      BY <2>1 DEF kos_get_next_task, sched
    <3>2. ~(pc'[t] = "dispatch" /\ ptr'[t] = u)
      BY <1>1, <2>1 DEF kos_get_next_task, Awake
    <3>3. \A x \in Tasks \ {t} : pc'[x] = pc[x] /\ ptr'[x] = ptr[x]
      BY <2>1 DEF kos_get_next_task
    <3> QED
      BY <3>1, <3>2, <3>3 DEF UsesUpChoice, Deciders
  <2>2. CASE kos_dispatch(t)
    <3>1. /\ t = kos_current_task /\ kos_current_task' = ptr[t]
          /\ pc[t] = "dispatch" /\ pc'[t] = "switched"
      BY <2>2 DEF kos_dispatch
    <3>2. \A x \in Tasks \ {t} : pc'[x] = pc[x] /\ ptr'[x] = ptr[x]
      BY <2>2 DEF kos_dispatch
    <3> QED
      BY <3>1, <3>2 DEF UsesUpChoice, Deciders
  <2>3. CASE kos_schedule_return(t)
    <3>1. /\ UNCHANGED <<kos_current_task, ptr>>
          /\ pc'[t] # "dispatch"
          /\ \A x \in Tasks \ {t} : pc'[x] = pc[x]
      BY <2>3 DEF kos_schedule_return, sched
    <3> QED
      BY <3>1 DEF UsesUpChoice, Deciders
  <2> QED
    BY <1>5, <2>1, <2>2, <2>3 DEF Kernel
<1>6. CASE TimerOverflow
  BY <1>2, <1>6 DEF TimerOverflow, sched, ctx
<1>7. CASE TickIsr
  <2>1. UNCHANGED <<pc, ptr>>
    BY <1>7 DEF TickIsr, ctx
  <2>2. kos_current_task' # u
    BY <1>1, <1>7 DEF TickIsr, Chosen, Candidates
  <2> QED
    BY <2>1, <2>2 DEF UsesUpChoice, Deciders
<1>8. CASE UNCHANGED vars
  BY <1>2, <1>8 DEF vars, sched, ctx
<1> QED
  BY <1>3, <1>4, <1>5, <1>6, <1>7, <1>8 DEF Next

\* For any number of tasks: the scheduler never chooses a task that has exited;
\* a switch to one is the end of a choice made before it exited.
THEOREM ExitedTasksNotChosen == Spec => ExitedNotChosen
<1>1. Init => Lives
  BY TaskFacts DEF Init, Lives
<1>2. IInv /\ Lives /\ [Next]_vars => Lives'
  BY LivesInv
<1>3. IInv /\ Lives /\ [Next]_vars
        => [\A u \in Tasks : status[u] = "ZOMBIE" => UsesUpChoice(u)]_vars
  BY ExitedStep
<1> QED
  BY <1>1, <1>2, <1>3, TypeCorrect, PTL DEF Spec, ExitedNotChosen, IInv

-----------------------------------------------------------------------------
(* Refinement                                                              *)

LEMMA PromiseStep ==
  ASSUME IInv, Lives, ExitedNeverReturns, [Next]_vars
  PROVE  [Promise!Next]_(Promise!avars)
<1> DEFINE Exited == { t \in Tasks : status[t] = "ZOMBIE" }
<1> USE DEF IInv, TypeOK, Promise!avars
<1>1. ASSUME UNCHANGED <<status, kos_current_task>>
      PROVE  [Promise!Next]_(Promise!avars)
  BY <1>1
<1>2. ASSUME status' = status, kos_current_task' \in Tasks
      PROVE  [Promise!Next]_(Promise!avars)
  BY <1>2, TaskFacts DEF Promise!Next, Promise!Take
<1>3. CASE kos_new_task
  <2>1. kos_current_task = NULL /\ kos_current_task' = kos_current_task
    BY <1>3 DEF kos_new_task, Phases
  <2>2. \A t \in Tasks : status[t] = "READY" /\ status'[t] = "READY"
    BY <1>3, <2>1 DEF kos_new_task, Lives
  <2> QED
    BY <2>1, <2>2
<1>4. CASE msched_init
  BY <1>1, <1>4 DEF msched_init, sched
<1>5. ASSUME tasks_count = N + 1 PROVE task_head \in Tasks
  BY <1>5, NAssumption DEF NAssumption, RingShape, Tasks
<1>6. CASE kos_run
  BY <1>2, <1>5, <1>6 DEF kos_run, Phases
<1>7. ASSUME NEW t \in Tasks, Call(t) PROVE [Promise!Next]_(Promise!avars)
  <2>1. CASE kos_task_exit(t)
    <3>1. /\ t = kos_current_task /\ kos_current_task' = t /\ t # IDLE
          /\ status[t] # "ZOMBIE" /\ status' = [status EXCEPT ![t] = "ZOMBIE"]
      BY <2>1 DEF kos_task_exit, InUserCode, ExitedNeverReturns
    <3>2. Exited' = Exited \cup {t} /\ t \notin Exited
      BY <3>1
    <3> QED
      BY <3>1, <3>2 DEF Promise!Next, Promise!Exit
  <2>2. CASE ~kos_task_exit(t)
    BY <1>1, <1>7, <2>2
    DEF Call, kos_yield, kos_delay_ms, kos_set_next_schedule_delay_ms,
        irq_disable, irq_enable, sched
  <2> QED
    BY <2>1, <2>2
<1>8. ASSUME NEW t \in Tasks, Kernel(t) PROVE [Promise!Next]_(Promise!avars)
  BY <1>1, <1>2, <1>8
  DEF Kernel, kos_get_next_task, kos_dispatch, kos_schedule_return, sched
<1>9. CASE TimerOverflow
  BY <1>1, <1>9 DEF TimerOverflow, sched
<1>10. CASE TickIsr
  BY <1>2, <1>5, <1>10 DEF TickIsr, Phases
<1>11. CASE UNCHANGED vars
  BY <1>1, <1>11 DEF vars, sched
<1> QED
  BY <1>3, <1>4, <1>6, <1>7, <1>8, <1>9, <1>10, <1>11 DEF Next, Boot

\* The kernel implements the safety part of Multitasking: registration, ticks
\* and switches only hand the CPU over, and a task exits by its own call only.
THEOREM ImplementsPromise == Spec => PromiseSafety
<1>1. Init => Promise!Init
  BY DEF Init, Promise!Init
<1>2. Init => Lives
  BY TaskFacts DEF Init, Lives
<1>3. IInv /\ Lives /\ [Next]_vars => Lives'
  BY LivesInv
<1>4. IInv /\ Lives /\ ExitedNeverReturns /\ [Next]_vars
        => [Promise!Next]_(Promise!avars)
  BY PromiseStep
<1> QED
  BY <1>1, <1>2, <1>3, <1>4, TypeCorrect, ExitIsFinal, PTL
  DEF Spec, PromiseSafety, IInv

-----------------------------------------------------------------------------
(* The walk around the list                                                *)

\* Induction over the naturals comes as the least-number principle, whose
\* parameter is a set.
LEMMA LeastNatural ==
    ASSUME NEW S \in SUBSET Nat, S # {}
    PROVE  \E n \in S : \A m \in S : n <= m
<1>1. PICK x \in S : \A y \in S : ~ (<<y, x>> \in OpToRel(<, Nat))
  BY NatLessThanWellFounded, WFMin
<1>2. \A y \in S : ~(y < x)
  BY <1>1 DEF OpToRel
<1>3. \A y \in S : x <= y
  BY <1>2
<1> QED
  BY <1>3

\* Two functions that start alike and go on alike are alike.
LEMMA SameWalk ==
    ASSUME NEW n \in Nat, NEW f, NEW g, f[0] = g[0],
           \A i \in 0..(n - 1) : f[i] = g[i] => f[i + 1] = g[i + 1]
    PROVE  \A i \in 0..n : f[i] = g[i]
<1> DEFINE Apart == { i \in 0..n : f[i] # g[i] }
<1>1. CASE Apart # {}
  <2>1. Apart \in SUBSET Nat
    OBVIOUS
  <2> HIDE DEF Apart
  <2>2. PICK i \in Apart : \A j \in Apart : i <= j
    BY <1>1, <2>1, LeastNatural
  <2> USE DEF Apart
  <2>3. i \in 1..n
    BY <2>2
  <2>4. i - 1 \in 0..(n - 1) /\ i - 1 \notin Apart
    BY <2>2, <2>3
  <2>5. f[i - 1] = g[i - 1]
    BY <2>4
  <2> QED
    BY <2>2, <2>3, <2>4, <2>5
<1> QED
  BY <1>1

\* The k-th task behind c: downwards to IDLE, then from the newest task on.
Hop(c, k) == IF k <= c THEN c - k ELSE c - k + N + 1

LEMMA BehindInClosedForm ==
    ASSUME RingShape, tasks_count = N + 1, NEW c \in Tasks
    PROVE  \A k \in 1..N : Behind(c)[k] = Hop(c, k)
<1> DEFINE g   == [i \in 0..N |-> Hop(c, i)]
           hop == CHOOSE f : f = [i \in 0..N |-> IF i = 0 THEN c ELSE next[f[i - 1]]]
<1>1. N \in Nat \ {0} /\ c \in 0..N
  BY NAssumption DEF NAssumption, Tasks
<1>2. \A t \in Tasks : next[t] = IF t = 0 THEN N ELSE t - 1
  BY <1>1 DEF RingShape, Tasks, IDLE, NULL
<1>3. \A i \in 1..N : next[g[i - 1]] = g[i]
  BY <1>1, <1>2 DEF Hop, Tasks
<1>4. g[0] = c
  BY <1>1 DEF Hop
<1>5. g = [i \in 0..N |-> IF i = 0 THEN c ELSE next[g[i - 1]]]
  <2>1. g = [i \in 0..N |-> g[i]]
    OBVIOUS
  <2>2. \A i \in 0..N : g[i] = IF i = 0 THEN c ELSE next[g[i - 1]]
    <3> HIDE DEF g
    <3> QED
      BY <1>1, <1>3, <1>4
  <2> HIDE DEF g
  <2> QED
    BY <2>1, <2>2
<1>6. hop = [i \in 0..N |-> IF i = 0 THEN c ELSE next[hop[i - 1]]]
  <2> HIDE DEF g
  <2> QED
    BY <1>5
<1>7. hop[0] = c /\ \A i \in 0..(N - 1) : hop[i + 1] = next[hop[i]]
  <2> HIDE DEF hop
  <2>1. \A i \in 0..N : hop[i] = IF i = 0 THEN c ELSE next[hop[i - 1]]
    BY <1>6
  <2>2. \A i \in 0..(N - 1) : i + 1 \in 0..N /\ i + 1 # 0 /\ (i + 1) - 1 = i
    BY <1>1
  <2>3. \A i \in 0..(N - 1) : hop[i + 1] = next[hop[(i + 1) - 1]]
    BY <2>1, <2>2, Zenon
  <2> QED
    BY <1>1, <2>1, <2>2, <2>3
<1>8. \A i \in 0..(N - 1) : hop[i] = g[i] => hop[i + 1] = g[i + 1]
  <2> HIDE DEF hop, g
  <2>1. \A i \in 0..(N - 1) : next[g[i]] = g[i + 1]
    BY <1>1, <1>3
  <2> QED
    BY <1>7, <2>1
<1>9. \A i \in 0..N : hop[i] = g[i]
  <2> HIDE DEF hop, g
  <2>1. N \in Nat /\ hop[0] = g[0]
    BY <1>1, <1>4, <1>7
  <2> QED
    BY <2>1, <1>8, SameWalk
<1>10. Behind(c) = [k \in 1..N |-> hop[k]]
  BY DEF Behind
<1> QED
  <2> HIDE DEF hop
  <2> QED
    BY <1>1, <1>9, <1>10

LEMMA RingClosed ==
    ASSUME RingShape, tasks_count = N + 1, NEW c \in Tasks
    PROVE  { Behind(c)[k] : k \in 1..N } = Tasks \ {c}
<1>1. N \in Nat \ {0} /\ c \in 0..N
  BY NAssumption DEF NAssumption, Tasks
<1>2. \A k \in 1..N : Hop(c, k) \in (0..N) \ {c}
  BY <1>1 DEF Hop
<1>3. ASSUME NEW t \in (0..N) \ {c} PROVE \E k \in 1..N : Hop(c, k) = t
  <2>1. CASE t < c
    <3>1. c - t \in 1..N /\ Hop(c, c - t) = t
      BY <1>1, <2>1 DEF Hop
    <3> QED
      BY <3>1
  <2>2. CASE t > c
    <3>1. c - t + N + 1 \in 1..N /\ Hop(c, c - t + N + 1) = t
      BY <1>1, <2>2 DEF Hop
    <3> QED
      BY <3>1
  <2> QED
    BY <1>1, <2>1, <2>2
<1>4. { Behind(c)[k] : k \in 1..N } = { Hop(c, k) : k \in 1..N }
  BY BehindInClosedForm
<1> QED
  BY <1>2, <1>3, <1>4 DEF Tasks

\* For any number of tasks: once they are registered a walk that starts behind
\* a task visits each other task once, in N steps, before it comes back.
THEOREM ListIsACycle == Spec => []RingOK
<1>1. TypeOK /\ RingShape /\ Phases => RingOK
  BY RingClosed DEF Phases, RingOK
<1> QED
  BY <1>1, TypeCorrect, PTL

-----------------------------------------------------------------------------
(* Delays                                                                  *)

\* Each step of the observed kernel is a step of the kernel.
LEMMA Observed == TSpec => Spec
<1>1. TInit => Init
  BY DEF TInit
<1>2. [TNext]_tvars => [Next]_vars
  BY DEF TNext, TTick, TCall, tvars, Next, Call
<1> QED
  BY <1>1, <1>2, PTL DEF TSpec, Spec

\* The tick gives the CPU to a task.
LEMMA TickTakes == ASSUME IInv, TickIsr PROVE kos_current_task' \in Tasks
<1>1. CASE kos_current_task = NULL
  <2>1. main # "register" /\ tasks_count = N + 1
    BY DEF IInv, Phases, TypeOK, TickIsr
  <2>2. task_head \in Tasks
    BY <2>1, NAssumption DEF NAssumption, IInv, RingShape, Tasks
  <2> QED
    BY <1>1, <2>2 DEF TickIsr
<1>2. CASE kos_current_task # NULL
  BY <1>2 DEF TickIsr
<1> QED
  BY <1>1, <1>2

\* What a task still owes is at most what the kernel counts down, and nothing
\* is counted before a task runs.
Owing ==
    /\ owed \in [Tasks -> Nat]
    /\ \A t \in Tasks : owed[t] <= nb_tick_to_wait[t]
    /\ kos_current_task = NULL => \A t \in Tasks : nb_tick_to_wait[t] = 0

\* The delay asked for, where it fits the counter, is what the counter gets.
LEMMA AskedFits ==
    ASSUME NEW d \in Delays
    PROVE  Asked(d) \in Nat /\ Asked(d) <= DelayTicks(d)
<1>1. d \in Nat /\ TickMs \in Nat \ {0}
  BY DelaysAssumption, TickMsAssumption DEF DelaysAssumption, TickMsAssumption
<1>2. d \div TickMs \in Nat
  BY <1>1
<1>3. \A q \in Nat : q % 256 \in Nat /\ (q <= 255 => q % 256 = q)
  OBVIOUS
<1> QED
  BY <1>2, <1>3 DEF Asked, DelayTicks

LEMMA OwingStep == ASSUME IInv, Lives, Owing, [TNext]_tvars PROVE Owing'
<1> USE TaskFacts DEF IInv, TypeOK
<1>1. CASE TTick
  <2>1. /\ nb_tick_to_wait' = TicksLeft
        /\ owed' = [t \in Tasks |-> IF owed[t] > 0 THEN owed[t] - 1 ELSE 0]
    BY <1>1 DEF TTick, TickIsr
  <2>2. ASSUME NEW t \in Tasks
        PROVE  owed'[t] \in Nat /\ owed'[t] <= nb_tick_to_wait'[t]
    <3>1. owed[t] \in Nat /\ nb_tick_to_wait[t] \in Nat
           /\ owed[t] <= nb_tick_to_wait[t]
      BY DEF Owing
    <3>3. owed'[t] = IF owed[t] > 0 THEN owed[t] - 1 ELSE 0
      BY <2>1
    <3>4. nb_tick_to_wait'[t] \in {nb_tick_to_wait[t], nb_tick_to_wait[t] - 1}
           /\ (nb_tick_to_wait[t] = 0 => nb_tick_to_wait'[t] = 0)
      BY <2>1, <3>1 DEF TicksLeft
    <3> QED
      BY <3>1, <3>3, <3>4
  <2>3. kos_current_task' # NULL
    BY <1>1, TickTakes DEF TTick
  <2> QED
    BY <2>1, <2>2, <2>3 DEF Owing
<1>2. ASSUME NEW t \in Tasks, TCall(t) PROVE Owing'
  <2>1. ASSUME NEW k \in Nat, NEW m \in Nat, k <= m, Owes(t, k),
               nb_tick_to_wait' = [nb_tick_to_wait EXCEPT ![t] = m],
               kos_current_task = t, kos_current_task' = kos_current_task
        PROVE  Owing'
    BY <2>1 DEF Owing, Owes
  <2>2. CASE kos_yield(t) /\ Owes(t, IF owed[t] = 0 THEN 1 ELSE owed[t])
    <3> DEFINE k == IF owed[t] = 0 THEN 1 ELSE owed[t]
               m == IF nb_tick_to_wait[t] = 0 THEN 1 ELSE nb_tick_to_wait[t]
    <3>1. k \in Nat /\ m \in Nat /\ k <= m
      BY DEF Owing
    <3>2. nb_tick_to_wait' = [nb_tick_to_wait EXCEPT ![t] = m]
      BY <2>2 DEF kos_yield
    <3>3. kos_current_task = t /\ kos_current_task' = kos_current_task
      BY <2>2 DEF kos_yield, InUserCode
    <3> QED
      BY <2>1, <2>2, <3>1, <3>2, <3>3
  <2>3. ASSUME NEW d \in Delays, Owes(t, Asked(d)),
               kos_delay_ms(t, d) \/ kos_set_next_schedule_delay_ms(t, d)
        PROVE  Owing'
    <3>1. DelayTicks(d) \in Nat /\ Asked(d) \in Nat /\ Asked(d) <= DelayTicks(d)
      BY AskedFits, DelayTicksType
    <3>2. /\ nb_tick_to_wait' = [nb_tick_to_wait EXCEPT ![t] = DelayTicks(d)]
          /\ kos_current_task = t /\ kos_current_task' = kos_current_task
      BY <2>3 DEF kos_delay_ms, kos_set_next_schedule_delay_ms, InUserCode
    <3> QED
      BY <2>1, <2>3, <3>1, <3>2
  <2>4. CASE /\ kos_task_exit(t) \/ irq_disable(t) \/ irq_enable(t)
             /\ UNCHANGED owed
    BY <2>4 DEF kos_task_exit, irq_disable, irq_enable, sched, Owing
  <2> QED
    BY <1>2, <2>2, <2>3, <2>4 DEF TCall
<1>3. CASE (Boot \/ TimerOverflow \/ \E t \in Tasks : Kernel(t)) /\ UNCHANGED owed
  <2>1. UNCHANGED <<nb_tick_to_wait, owed>>
    BY <1>3 DEF Boot, kos_new_task, msched_init, kos_run, TimerOverflow, Kernel,
                kos_get_next_task, kos_dispatch, kos_schedule_return, sched
  <2>2. kos_current_task' = NULL => kos_current_task = NULL
    BY <1>3 DEF Boot, kos_new_task, msched_init, kos_run, TimerOverflow, Kernel,
                kos_get_next_task, kos_dispatch, kos_schedule_return, sched, Phases
  <2> QED
    BY <2>1, <2>2 DEF Owing
<1>4. CASE UNCHANGED tvars
  BY <1>4 DEF tvars, vars, hist, sched, Owing
<1> QED
  BY <1>1, <1>2, <1>3, <1>4 DEF TNext

LEMMA OwingInv == TSpec => [](IInv /\ Lives /\ Owing)
<1>1. TInit => Owing
  BY TaskFacts DEF TInit, Init, Owing
<1>2. Init => Lives
  BY TaskFacts DEF Init, Lives
<1>3. IInv /\ Lives /\ [Next]_vars => Lives'
  BY LivesInv
<1>4. IInv /\ Lives /\ Owing /\ [TNext]_tvars => Owing'
  BY OwingStep
<1> QED
  BY <1>1, <1>2, <1>3, <1>4, Observed, TypeCorrect, PTL DEF TSpec, Spec, IInv

\* For any number of tasks and delays of up to 255 ticks: a tick gives the CPU
\* to IDLE, or to a task whose delay has elapsed in whole ticks.
THEOREM DelaysAreHonoured == TSpec => TickHonoursDelay
<1>1. ASSUME IInv, Lives, Owing, [TNext]_tvars,
             pending, ~pending', kos_current_task' # kos_current_task
      PROVE  kos_current_task' = IDLE \/ owed'[kos_current_task'] = 0
  <2> USE DEF IInv, TypeOK
  <2>1. TTick
    BY <1>1 DEF TNext, TCall, tvars, vars, list, sched, ctx, Boot, kos_new_task,
                msched_init, kos_run, TimerOverflow, Kernel, kos_get_next_task,
                kos_dispatch, kos_schedule_return, kos_yield, kos_delay_ms,
                kos_set_next_schedule_delay_ms, kos_task_exit, irq_disable,
                irq_enable
  <2>2. owed' = [t \in Tasks |-> IF owed[t] > 0 THEN owed[t] - 1 ELSE 0]
    BY <2>1 DEF TTick
  <2>3. PICK u \in Tasks : kos_current_task' = u
    BY <1>1, <2>1, TickTakes DEF TTick
  <2>4. owed[u] \in Nat /\ owed[u] <= nb_tick_to_wait[u]
    BY <1>1 DEF Owing
  <2>5. CASE kos_current_task = NULL
    <3>1. owed[u] = 0
      BY <1>1, <2>4, <2>5 DEF Owing
    <3> QED
      BY <2>2, <2>3, <3>1
  <2>6. CASE kos_current_task # NULL
    <3>1. u = IDLE \/ u \in Candidates
      BY <2>1, <2>3, <2>6 DEF TTick, TickIsr, Chosen
    <3>2. ASSUME u \in Candidates PROVE owed[u] <= 1
      <4>1. TicksLeft[u] = 0 /\ status[u] = "READY"
        BY <3>2 DEF Candidates
      <4>2. TicksLeft[u] = IF nb_tick_to_wait[u] > 0 THEN nb_tick_to_wait[u] - 1
                           ELSE nb_tick_to_wait[u]
        BY <4>1 DEF TicksLeft
      <4> QED
        BY <1>1, <2>4, <4>1, <4>2
    <3>3. owed'[u] = IF owed[u] > 0 THEN owed[u] - 1 ELSE 0
      BY <2>2
    <3> QED
      BY <2>3, <2>4, <3>1, <3>2, <3>3
  <2> QED
    BY <2>5, <2>6
<1> QED
  BY <1>1, OwingInv, PTL DEF TSpec, TickHonoursDelay

-----------------------------------------------------------------------------
(* Switches to an exited task                                              *)

\* IDLE calls nothing, and no task chooses itself.
Choosers ==
    /\ pc[IDLE] = "user"
    /\ \A t \in Tasks : pc[t] = "dispatch" => ptr[t] # t

\* The choices of an exited task that are left, with those used up, are no
\* more than the tasks beside it and IDLE.
Revivals ==
    /\ revived \in [Tasks -> Nat]
    /\ \A u \in Tasks :
         IF status[u] = "ZOMBIE"
         THEN revived[u] + Cardinality(Deciders(u)) <= N - 1
         ELSE revived[u] = 0

LEMMA ChoosersStep == ASSUME IInv, Choosers, [Next]_vars PROVE Choosers'
<1> USE TaskFacts DEF IInv, TypeOK, Choosers
<1>1. CASE Boot
  BY <1>1 DEF Boot, kos_new_task, msched_init, kos_run, ctx
<1>2. ASSUME NEW t \in Tasks, Call(t) PROVE Choosers'
  <2>1. t # IDLE
    BY <1>2 DEF Call, InUserCode, kos_yield, kos_delay_ms, kos_task_exit,
                kos_set_next_schedule_delay_ms, irq_disable, irq_enable
  <2>2. UNCHANGED <<pc, ptr>> \/ StartScan(t)
    BY <1>2 DEF Call, kos_yield, kos_delay_ms, kos_task_exit, ctx,
                kos_set_next_schedule_delay_ms, irq_disable, irq_enable
  <2> QED
    BY <2>1, <2>2 DEF StartScan
<1>3. ASSUME NEW t \in Tasks, Kernel(t) PROVE Choosers'
  <2>1. t # IDLE /\ \A x \in Tasks \ {t} : pc'[x] = pc[x] /\ ptr'[x] = ptr[x]
    BY <1>3 DEF Kernel, kos_get_next_task, kos_dispatch, kos_schedule_return
  <2>2. pc'[t] = "dispatch" => ptr'[t] # t
    BY <1>3, <2>1 DEF Kernel, kos_get_next_task, kos_dispatch, kos_schedule_return
  <2> QED
    BY <2>1, <2>2
<1>4. CASE TimerOverflow \/ TickIsr \/ UNCHANGED vars
  BY <1>4 DEF TimerOverflow, TickIsr, vars, ctx
<1> QED
  BY <1>1, <1>2, <1>3, <1>4 DEF Next

\* The tasks beside u and IDLE are N - 1.
LEMMA FewOthers ==
    ASSUME NEW u \in Tasks, u # IDLE, NEW D, D \subseteq Tasks \ {IDLE, u}
    PROVE  IsFiniteSet(D) /\ Cardinality(D) \in Nat /\ Cardinality(D) <= N - 1
<1>1. D \subseteq (1..N) \ {u} /\ u \in 1..N
  BY DEF Tasks, IDLE
<1>2. IsFiniteSet(1..N) /\ Cardinality(1..N) = N
  BY NAssumption, FS_Interval DEF NAssumption
<1>3. IsFiniteSet((1..N) \ {u}) /\ Cardinality((1..N) \ {u}) = N - 1
  BY <1>1, <1>2, FS_RemoveElement
<1>4. IsFiniteSet(D) /\ Cardinality(D) <= Cardinality((1..N) \ {u})
  <2>1. D \in SUBSET ((1..N) \ {u})
    BY <1>1
  <2> QED
    BY <1>3, <2>1, FS_Subset, Zenon
<1>5. Cardinality(D) \in Nat
  BY <1>4, FS_CardinalityType
<1> QED
  BY <1>3, <1>4, <1>5

\* kos_task_exit cannot be undone: no task registers once one has run.
LEMMA ExitedStay ==
    ASSUME IInv, Lives, [Next]_vars, NEW u \in Tasks, status[u] = "ZOMBIE"
    PROVE  status'[u] = "ZOMBIE"
<1> USE DEF IInv, TypeOK
<1>1. kos_current_task # NULL
  BY DEF Lives
<1>2. CASE Boot
  BY <1>1, <1>2 DEF Boot, kos_new_task, msched_init, kos_run, sched, Phases
<1>3. ASSUME NEW t \in Tasks, Call(t) PROVE status'[u] = "ZOMBIE"
  BY <1>3 DEF Call, kos_yield, kos_delay_ms, kos_task_exit, sched,
              kos_set_next_schedule_delay_ms, irq_disable, irq_enable
<1>4. ASSUME NEW t \in Tasks, Kernel(t) PROVE status'[u] = "ZOMBIE"
  BY <1>4 DEF Kernel, kos_get_next_task, kos_dispatch, kos_schedule_return, sched
<1>5. CASE TimerOverflow \/ TickIsr \/ UNCHANGED vars
  BY <1>5 DEF TimerOverflow, TickIsr, vars, sched
<1> QED
  BY <1>2, <1>3, <1>4, <1>5 DEF Next

LEMMA RevivalsStep ==
    ASSUME IInv, Lives, Choosers, Choosers', Lives', Revivals,
           MaxRevival \in Nat, [TNext]_tvars
    PROVE  Revivals'
<1> USE DEF IInv, TypeOK
<1>1. [Next]_vars
  BY DEF TNext, TTick, TCall, tvars, Next, Call
<1>2. revived' \in [Tasks -> Nat] /\ \A u \in Tasks :
        revived'[u] = IF /\ status[u] = "ZOMBIE" /\ revived[u] <= MaxRevival
                         /\ kos_current_task # u /\ kos_current_task' = u
                         /\ ~UNCHANGED tvars
                      THEN revived[u] + 1 ELSE revived[u]
  <2>1. CASE CountRevivals /\ ~UNCHANGED tvars
    BY <2>1 DEF CountRevivals, Revivals
  <2>2. CASE UNCHANGED tvars
    BY <2>2 DEF tvars, hist, Revivals
  <2>3. CountRevivals \/ UNCHANGED tvars
    BY DEF TNext
  <2> QED
    BY <2>1, <2>2, <2>3
<1>3. ASSUME NEW u \in Tasks
      PROVE  IF status'[u] = "ZOMBIE"
             THEN revived'[u] + Cardinality(Deciders(u)') <= N - 1
             ELSE revived'[u] = 0
  <2>1. revived[u] \in Nat /\ N \in Nat
    BY NAssumption DEF NAssumption, Revivals
  <2>2. CASE status[u] # "ZOMBIE"
    <3>1. revived'[u] = 0
      BY <1>2, <2>2 DEF Revivals
    <3>2. ASSUME status'[u] = "ZOMBIE"
          PROVE  Cardinality(Deciders(u)') \in Nat /\ Cardinality(Deciders(u)') <= N - 1
      <4>1. u # IDLE
        BY <3>2 DEF Lives
      <4> QED
        <5>1. Deciders(u)' \subseteq Tasks \ {IDLE, u}
          BY DEF Deciders, Choosers
        <5> HIDE DEF IInv, TypeOK
        <5> QED
          BY <4>1, <5>1, FewOthers
    <3> QED
      BY <2>1, <3>1, <3>2
  <2>3. CASE status[u] = "ZOMBIE"
    <3>1. status'[u] = "ZOMBIE"
      BY <1>1, <2>3, ExitedStay
    <3>2. u # IDLE
      BY <2>3 DEF Lives
    <3>3. UsesUpChoice(u)
      BY <1>1, <2>3, ExitedStep
    <3>4. /\ IsFiniteSet(Deciders(u)) /\ Cardinality(Deciders(u)) \in Nat
          /\ revived[u] + Cardinality(Deciders(u)) <= N - 1
      <4>1. Deciders(u) \subseteq Tasks \ {IDLE, u}
        BY DEF Deciders, Choosers
      <4> QED
        BY <2>3, <3>2, <4>1, FewOthers DEF Revivals
    <3>5. /\ IsFiniteSet(Deciders(u)') /\ Cardinality(Deciders(u)') \in Nat
          /\ Cardinality(Deciders(u)') <= Cardinality(Deciders(u))
      BY <3>3, <3>4, FS_Subset, FS_CardinalityType DEF UsesUpChoice
    <3>6. CASE kos_current_task' = u /\ kos_current_task # u
      <4> DEFINE c == kos_current_task
      <4>1. c \in Deciders(u) /\ Deciders(u)' \subseteq Deciders(u) \ {c}
        BY <3>3, <3>6 DEF UsesUpChoice
      <4>2. /\ IsFiniteSet(Deciders(u) \ {c})
            /\ Cardinality(Deciders(u) \ {c}) = Cardinality(Deciders(u)) - 1
        BY <3>4, <4>1, FS_RemoveElement
      <4>3. Cardinality(Deciders(u)') <= Cardinality(Deciders(u)) - 1
        BY <4>1, <4>2, FS_Subset
      <4>4. revived'[u] <= revived[u] + 1 /\ revived'[u] \in Nat
        BY <1>2, <2>1
      <4> QED
        BY <2>1, <3>1, <3>4, <3>5, <4>3, <4>4
    <3>7. CASE ~(kos_current_task' = u /\ kos_current_task # u)
      <4>1. revived'[u] = revived[u]
        BY <1>2, <3>7
      <4> QED
        BY <2>1, <3>1, <3>4, <3>5, <4>1
    <3> QED
      BY <3>6, <3>7
  <2> QED
    BY <2>2, <2>3
<1> QED
  BY <1>2, <1>3 DEF Revivals

\* For any number of tasks N: a task that has exited is switched to N - 1
\* times at most, once for each task beside it and IDLE.
THEOREM RevivalsAreBounded ==
    ASSUME MaxRevival \in Nat, MaxRevival >= N - 1
    PROVE  TSpec => []BoundedRevival
<1>1. TInit => Choosers /\ Revivals
  BY TaskFacts DEF TInit, Init, Choosers, Revivals
<1>2. Init => Lives
  BY TaskFacts DEF Init, Lives
<1>3. IInv /\ Lives /\ [Next]_vars => Lives'
  BY LivesInv
<1>4. IInv /\ Choosers /\ [Next]_vars => Choosers'
  BY ChoosersStep
<1>5. IInv /\ Lives /\ Lives' /\ Choosers /\ Choosers' /\ Revivals /\ [TNext]_tvars
        => Revivals'
  BY RevivalsStep
<1>6. Lives /\ Choosers /\ Revivals => BoundedRevival
  <2> SUFFICES ASSUME Lives, Choosers, Revivals, NEW u \in Tasks PROVE revived[u] <= MaxRevival
    BY DEF BoundedRevival
  <2>1. revived[u] \in Nat /\ N \in Nat
    BY NAssumption DEF NAssumption, Revivals
  <2> QED
    <3>1. CASE status[u] # "ZOMBIE"
      BY <3>1 DEF Revivals
    <3>2. CASE status[u] = "ZOMBIE"
      <4>1. u # IDLE /\ Deciders(u) \subseteq Tasks \ {IDLE, u}
        BY <3>2, TaskFacts DEF Lives, Deciders, Choosers
      <4>2. Cardinality(Deciders(u)) \in Nat
        BY <4>1, FewOthers
      <4> QED
        BY <2>1, <3>2, <4>2 DEF Revivals
    <3> QED
      BY <3>1, <3>2
<1> QED
  BY <1>1, <1>2, <1>3, <1>4, <1>5, <1>6, Observed, TypeCorrect, PTL
  DEF TSpec, Spec, IInv

-----------------------------------------------------------------------------
(* Waits for the CPU                                                       *)

App == Tasks \ {IDLE}

\* The number of tasks, but for IDLE, that a walk from c visits before t.
Between(c, t) == IF t < c THEN c - t - 1
                 ELSE IF c = IDLE THEN N - t ELSE N - t + c - 1

\* A walk from b has t behind it when it is at x.
Beyond(x, b, t) == x # t /\ Between(x, t) > Between(b, t)

\* b's walk has passed t, which slept then: b will switch to a task behind t.
Astray(b, t) == \/ pc[b] = "scan" /\ (ptr[b] = b \/ Beyond(ptr[b], b, t))
                \/ pc[b] = "dispatch" /\ Beyond(ptr[b], b, t)

\* The detours: one pair for each tick that t will lose by b's stale switch.
Slots(t)   == { d \in (App \ {t}) \X (1..(N - 1)) :
                  d[2] <= N - 1 - Between(d[1], t) }
Detours(t) == { d \in Slots(t) : Astray(d[1], t) }

Waits(t) == Awake(t) /\ kos_current_task \notin {t, NULL}

\* The ticks a task has waited, those until the walks reach it, and those of
\* the detours are no more than N * (N + 1) / 2.
Patience ==
    /\ waited \in [Tasks -> Nat] /\ waited[IDLE] = 0
    /\ \A t \in App :
         IF Waits(t)
         THEN 2 * (waited[t] + Between(kos_current_task, t)
                     + Cardinality(Detours(t))) <= N * (N + 1)
         ELSE waited[t] = 0

LEMMA BetweenFacts ==
    ASSUME NEW t \in App
    PROVE  /\ N \in Nat \ {0} /\ t \in 1..N
           /\ \A c \in Tasks : Between(c, t) \in 0..(N - 1)
           /\ \A c \in App \ {t} : Between(c, t) \in 0..(N - 2)
           /\ \A b, c \in App \ {t} : Between(b, t) = Between(c, t) => b = c
<1>1. N \in Nat \ {0} /\ t \in 1..N
  BY NAssumption DEF NAssumption, App, Tasks, IDLE
<1>2. \A c \in 0..N : Between(c, t) \in 0..(N - 1)
  BY <1>1 DEF Between, IDLE
<1>3. \A c \in (1..N) \ {t} : Between(c, t) \in 0..(N - 2)
  BY <1>1 DEF Between, IDLE
<1>4. \A b, c \in (1..N) \ {t} : Between(b, t) = Between(c, t) => b = c
  BY <1>1 DEF Between, IDLE
<1>5. App \ {t} = (1..N) \ {t}
  BY <1>1 DEF App, Tasks, IDLE
<1> QED
  BY <1>1, <1>2, <1>3, <1>4, <1>5 DEF Tasks

\* Half of a rectangle of N by N - 1: the pairs below the diagonal are as many
\* as those above it.
LEMMA SlotsBounded ==
    ASSUME NEW t \in App
    PROVE  /\ IsFiniteSet(Slots(t)) /\ Cardinality(Slots(t)) \in Nat
           /\ 2 * Cardinality(Slots(t)) <= N * (N - 1)
<1> DEFINE Rows  == 0..(N - 1)
           Cols  == 1..(N - 1)
           Lower == { p \in Rows \X Cols : p[1] + p[2] <= N - 1 }
           Upper == { p \in Rows \X Cols : p[1] + p[2] > N - 1 }
<1>1. N \in Nat \ {0}
  BY NAssumption DEF NAssumption
<1>2. /\ IsFiniteSet(Rows) /\ Cardinality(Rows) = N
      /\ IsFiniteSet(Cols) /\ Cardinality(Cols) = N - 1
  BY <1>1, FS_Interval
<1>3. IsFiniteSet(Rows \X Cols) /\ Cardinality(Rows \X Cols) = N * (N - 1)
  <2> HIDE DEF Rows, Cols
  <2> QED
    BY <1>2, FS_Product
<1>4. /\ IsFiniteSet(Lower) /\ Cardinality(Lower) \in Nat
      /\ IsFiniteSet(Upper) /\ Cardinality(Upper) \in Nat
  <2>1. Lower \in SUBSET (Rows \X Cols) /\ Upper \in SUBSET (Rows \X Cols)
    OBVIOUS
  <2> HIDE DEF Lower, Upper, Rows, Cols
  <2> QED
    BY <1>3, <2>1, FS_Subset, FS_CardinalityType
<1>5. Cardinality(Upper) = Cardinality(Lower)
  <2> DEFINE f == [p \in Lower |-> <<N - 1 - p[1], N - p[2]>>]
  <2>1. f \in [Lower -> Upper]
    <3>1. ASSUME NEW p \in Lower PROVE <<N - 1 - p[1], N - p[2]>> \in Upper
      BY <1>1
    <3> QED
      BY <3>1
  <2>2. \A p, q \in Lower : f[p] = f[q] => p = q
    BY <1>1
  <2>3. \A q \in Upper : \E p \in Lower : f[p] = q
    <3> TAKE q \in Upper
    <3> DEFINE p == <<N - 1 - q[1], N - q[2]>>
    <3>1. p \in Lower
      BY <1>1
    <3>2. f[p] = q
      BY <1>1, <3>1
    <3> QED
      BY <3>1, <3>2
  <2>4. ExistsBijection(Lower, Upper)
    <3> HIDE DEF f, Lower, Upper
    <3>1. f \in Bijection(Lower, Upper)
      BY <2>1, <2>2, <2>3 DEF Bijection, Injection, Surjection, IsInjective
    <3> QED
      BY <3>1 DEF ExistsBijection
  <2> HIDE DEF Lower, Upper
  <2> QED
    BY <1>4, <2>4, FS_Bijection
<1>6. Cardinality(Lower) + Cardinality(Upper) = N * (N - 1)
  <2>1. Lower \cup Upper = Rows \X Cols /\ Lower \cap Upper = {}
    BY <1>1
  <2> HIDE DEF Lower, Upper, Rows, Cols
  <2>2. Cardinality(Rows \X Cols) = Cardinality(Lower) + Cardinality(Upper) - Cardinality({})
    BY <1>4, <2>1, FS_Union
  <2>3. Cardinality({}) = 0
    BY FS_EmptySet
  <2> QED
    BY <1>3, <1>4, <2>2, <2>3
<1>7. IsFiniteSet(Slots(t)) /\ Cardinality(Slots(t)) <= Cardinality(Lower)
  <2> DEFINE g == [d \in Slots(t) |-> <<Between(d[1], t), d[2]>>]
  <2>1. ASSUME NEW d \in Slots(t) PROVE <<Between(d[1], t), d[2]>> \in Lower
    <3>1. d[1] \in App \ {t} /\ d[2] \in Cols /\ d[2] <= N - 1 - Between(d[1], t)
      BY DEF Slots
    <3>2. Between(d[1], t) \in 0..(N - 2)
      BY <3>1, BetweenFacts
    <3> QED
      BY <1>1, <3>1, <3>2
  <2>2. ASSUME NEW d \in Slots(t), NEW e \in Slots(t), g[d] = g[e] PROVE d = e
    <3>1. d[1] \in App \ {t} /\ e[1] \in App \ {t} /\ d = <<d[1], d[2]>> /\ e = <<e[1], e[2]>>
      BY DEF Slots
    <3>2. Between(d[1], t) = Between(e[1], t) /\ d[2] = e[2]
      BY <2>2
    <3> QED
      BY <3>1, <3>2, BetweenFacts
  <2>3. g \in Injection(Slots(t), Lower)
    <3> HIDE DEF Lower
    <3>1. g \in [Slots(t) -> Lower]
      BY <2>1
    <3> HIDE DEF g
    <3> QED
      BY <2>2, <3>1 DEF Injection, IsInjective
  <2> HIDE DEF g, Lower
  <2> QED
    BY <1>4, <2>3, FS_Injection
<1>8. Cardinality(Slots(t)) \in Nat
  BY <1>7, FS_CardinalityType
<1> QED
  <2> HIDE DEF Lower, Upper
  <2>1. \A s, l, u, m \in Int : s <= l /\ u = l /\ l + u = m => 2 * s <= m
    OBVIOUS
  <2>2. N * (N - 1) \in Int
    BY <1>1
  <2> QED
    BY <1>4, <1>5, <1>6, <1>7, <1>8, <2>1, <2>2

\* An element of a walk that has not passed t is followed by t or by one that
\* is no farther from t.
LEMMA NextOnCourse ==
    ASSUME RingShape, tasks_count = N + 1, NEW t \in App,
           NEW b \in App \ {t}, NEW x \in Tasks \ {t},
           x = b \/ (x # b /\ ~Beyond(x, b, t))
    PROVE  next[x] # b /\ ~Beyond(next[x], b, t)
<1>1. N \in Nat \ {0} /\ t \in 1..N /\ b \in (1..N) \ {t} /\ x \in (0..N) \ {t}
  BY NAssumption DEF NAssumption, App, Tasks, IDLE
<1>2. next[x] = IF x = 0 THEN N ELSE x - 1
  BY <1>1 DEF RingShape, Tasks, IDLE, NULL
<1> QED
  BY <1>1, <1>2 DEF Beyond, Between, IDLE

\* The walk of a tick gives the CPU to t, or to a task nearer to it.
LEMMA ChosenIsNearer ==
    ASSUME RingShape, tasks_count = N + 1, NEW t \in App, NEW c \in Tasks \ {t},
           NEW S \in SUBSET (App \ {c}), t \in S, NEW u \in Tasks, u # t,
           Chosen(c, S, u)
    PROVE  Between(u, t) < Between(c, t)
<1>1. N \in Nat \ {0} /\ t \in 1..N /\ c \in (0..N) \ {t}
  BY NAssumption DEF NAssumption, App, Tasks, IDLE
<1>2. u \in S /\ u \in (1..N) \ {t, c}
  BY DEF Chosen, App, Tasks, IDLE
<1>3. PICK k \in 1..N : /\ Behind(c)[k] = u
                        /\ \A j \in 1..(k - 1) : Behind(c)[j] \notin S
  BY <1>2 DEF Chosen
<1>4. PICK j \in 1..N : Hop(c, j) = t
  <2>1. CASE t < c
    <3>1. c - t \in 1..N /\ Hop(c, c - t) = t
      BY <1>1, <2>1 DEF Hop
    <3> QED
      BY <3>1
  <2>2. CASE t > c
    <3>1. c - t + N + 1 \in 1..N /\ Hop(c, c - t + N + 1) = t
      BY <1>1, <2>2 DEF Hop
    <3> QED
      BY <3>1
  <2> QED
    BY <1>1, <2>1, <2>2
<1>5. Behind(c)[j] = t /\ Hop(c, k) = u
  BY <1>3, <1>4, BehindInClosedForm
<1>6. j \notin 1..(k - 1) /\ j # k
  BY <1>3, <1>5
<1>7. k < j
  BY <1>1, <1>6
<1> QED
  BY <1>1, <1>2, <1>4, <1>5, <1>7 DEF Hop, Between, IDLE

\* While t waits nobody's walk passes it.
LEMMA NobodyPasses ==
    ASSUME IInv, Choosers, [Next]_vars, NEW t \in App, Waits(t),
           NEW b \in App \ {t}, Astray(b, t)'
    PROVE  /\ Astray(b, t)
           /\ ~(b = kos_current_task /\ kos_dispatch(b))
<1> USE DEF IInv, TypeOK
<1>1. /\ RingShape /\ tasks_count = N + 1 /\ kos_current_task # NULL
      /\ next \in [Tasks -> Tasks] /\ b \in Tasks /\ t \in Tasks /\ b # t
      /\ b # IDLE
  BY NextInList DEF Waits, Phases, App
<1>2. CASE pc'[b] = pc[b] /\ ptr'[b] = ptr[b]
  <2>1. Astray(b, t)
    BY <1>2 DEF Astray, Beyond
  <2>2. kos_dispatch(b) => pc[b] = "dispatch" /\ pc'[b] = "switched"
    BY <1>1 DEF kos_dispatch
  <2> QED
    BY <1>2, <2>1, <2>2
<1>3. CASE StartScan(b)
  <2>1. pc'[b] = "scan" /\ ptr'[b] = next[b]
    BY <1>1, <1>3 DEF StartScan
  <2>2. next[b] # b /\ ~Beyond(next[b], b, t)
    BY <1>1, NextOnCourse
  <2> QED
    BY <2>1, <2>2 DEF Astray, Beyond
<1>4. CASE kos_get_next_task(b)
  <2>1. pc[b] = "scan" /\ ptr[b] \in Tasks /\ ~kos_dispatch(b)
    BY <1>1, <1>4 DEF kos_get_next_task, kos_dispatch
  <2>2. ASSUME ~Astray(b, t) PROVE FALSE
    <3>1. ptr[b] # b /\ ~Beyond(ptr[b], b, t)
      BY <2>1, <2>2 DEF Astray
    <3>2. CASE Awake(ptr[b]) /\ ptr[b] # IDLE
      <4>1. pc'[b] = "dispatch" /\ ptr'[b] = ptr[b]
        BY <1>1, <1>4, <3>1, <3>2 DEF kos_get_next_task
      <4> QED
        BY <3>1, <4>1 DEF Astray, Beyond
    <3>3. CASE ~(Awake(ptr[b]) /\ ptr[b] # IDLE)
      <4>1. pc'[b] = "scan" /\ ptr'[b] = next[ptr[b]]
        BY <1>1, <1>4, <2>1, <3>1, <3>3 DEF kos_get_next_task
      <4>2. ptr[b] # t
        BY <3>3 DEF Waits, App
      <4>3. next[ptr[b]] # b /\ ~Beyond(next[ptr[b]], b, t)
        BY <1>1, <2>1, <3>1, <4>2, NextOnCourse
      <4> QED
        BY <4>1, <4>3 DEF Astray, Beyond
    <3> QED
      BY <3>2, <3>3
  <2> QED
    BY <2>1, <2>2
<1>5. CASE kos_dispatch(b) \/ kos_schedule_return(b)
  <2>1. pc'[b] \in {"switched", "loop", "user"}
    BY <1>1, <1>5 DEF kos_dispatch, kos_schedule_return
  <2> QED
    BY <2>1 DEF Astray
<1>6. \/ pc'[b] = pc[b] /\ ptr'[b] = ptr[b]
      \/ StartScan(b) \/ kos_get_next_task(b) \/ kos_dispatch(b)
      \/ kos_schedule_return(b)
  <2>1. CASE Boot \/ TimerOverflow \/ TickIsr \/ UNCHANGED vars
    BY <2>1 DEF Boot, kos_new_task, msched_init, kos_run, TimerOverflow, TickIsr,
                vars, ctx
  <2>2. ASSUME NEW a \in Tasks, Call(a)
        PROVE  (pc'[b] = pc[b] /\ ptr'[b] = ptr[b]) \/ StartScan(b)
    <3>1. UNCHANGED <<pc, ptr>> \/ StartScan(a)
      BY <2>2 DEF Call, kos_yield, kos_delay_ms, kos_task_exit, ctx,
                  kos_set_next_schedule_delay_ms, irq_disable, irq_enable
    <3> QED
      BY <1>1, <3>1 DEF StartScan
  <2>3. ASSUME NEW a \in Tasks, Kernel(a)
        PROVE  \/ pc'[b] = pc[b] /\ ptr'[b] = ptr[b]
               \/ kos_get_next_task(b) \/ kos_dispatch(b) \/ kos_schedule_return(b)
    <3>1. CASE a = b
      BY <2>3, <3>1 DEF Kernel
    <3>2. CASE a # b
      BY <1>1, <2>3, <3>2 DEF Kernel, kos_get_next_task, kos_dispatch, kos_schedule_return
    <3> QED
      BY <3>1, <3>2
  <2> QED
    BY <2>1, <2>2, <2>3 DEF Next
<1> QED
  BY <1>2, <1>3, <1>4, <1>5, <1>6

LEMMA DetoursFacts ==
    ASSUME NEW t \in App, NEW D, D \subseteq Slots(t)
    PROVE  /\ IsFiniteSet(D) /\ Cardinality(D) \in Nat
           /\ 2 * Cardinality(D) <= N * (N - 1)
<1>1. D \in SUBSET Slots(t)
  OBVIOUS
<1>2. IsFiniteSet(D) /\ Cardinality(D) <= Cardinality(Slots(t))
  BY <1>1, SlotsBounded, FS_Subset, Zenon
<1>3. Cardinality(D) \in Nat
  BY <1>2, FS_CardinalityType
<1>4. \A d, s, m \in Int : d <= s /\ 2 * s <= m => 2 * d <= m
  OBVIOUS
<1>5. N * (N - 1) \in Int /\ Cardinality(Slots(t)) \in Int
  BY SlotsBounded, NAssumption DEF NAssumption
<1> QED
  BY <1>2, <1>3, <1>4, <1>5, SlotsBounded

\* While t waits the detours get fewer, and a switch to a task farther from t
\* costs what it takes t back.
LEMMA DetoursStep ==
    ASSUME IInv, Choosers, [Next]_vars, NEW t \in App, Waits(t)
    PROVE  /\ Cardinality(Detours(t)') <= Cardinality(Detours(t))
           /\ kos_dispatch(kos_current_task) /\ kos_current_task' # t =>
                Between(kos_current_task', t) + Cardinality(Detours(t)')
                  <= Between(kos_current_task, t) + Cardinality(Detours(t))
<1> DEFINE D == Detours(t)
           E == Detours(t)'
<1>1. D \subseteq Slots(t) /\ E \subseteq Slots(t) /\ E \subseteq D
  <2>1. ASSUME NEW d \in E PROVE d \in D
    <3>1. d \in Slots(t) /\ Astray(d[1], t)' /\ d[1] \in App \ {t}
      BY DEF Detours, Slots
    <3>2. Astray(d[1], t)
      BY <3>1, NobodyPasses
    <3> QED
      BY <3>1, <3>2 DEF Detours
  <2> QED
    BY <2>1 DEF Detours
<1>2. /\ IsFiniteSet(D) /\ Cardinality(D) \in Nat
      /\ IsFiniteSet(E) /\ Cardinality(E) \in Nat
  <2> HIDE DEF D, E
  <2> QED
    BY <1>1, DetoursFacts
<1>3. Cardinality(E) <= Cardinality(D)
  <2> HIDE DEF D, E
  <2>1. E \in SUBSET D
    BY <1>1
  <2> QED
    BY <1>2, <2>1, FS_Subset, Zenon
<1>4. ASSUME NEW c, NEW u, c = kos_current_task, u = kos_current_task',
             kos_dispatch(c), u # t
      PROVE  Between(u, t) + Cardinality(E) <= Between(c, t) + Cardinality(D)
  <2>1. /\ c \in App \ {t} /\ u \in Tasks /\ u = ptr[c] /\ pc[c] = "dispatch"
    BY <1>4 DEF Waits, kos_dispatch, Choosers, IInv, TypeOK, App
  <2> DEFINE k == Between(c, t)
             k2 == Between(u, t)
  <2> SUFFICES k2 + Cardinality(E) <= k + Cardinality(D)
    OBVIOUS
  <2>2. /\ N \in Nat \ {0} /\ k \in 0..(N - 2) /\ k2 \in 0..(N - 1)
    BY <2>1, BetweenFacts
  <2>3. CASE k2 <= k
    <3> HIDE DEF D, E, k, k2
    <3> QED
      BY <1>2, <1>3, <2>2, <2>3
  <2>4. CASE k2 > k
    <3> DEFINE Ticks == 1..(N - 1 - k)
               C == {c} \X Ticks
    <3>1. Astray(c, t)
      BY <1>4, <2>1, <2>4 DEF Astray, Beyond
    <3>2. C \subseteq D
      <4>1. ASSUME NEW n \in Ticks PROVE <<c, n>> \in D
        BY <2>1, <2>2, <3>1 DEF Detours, Slots
      <4> QED
        BY <4>1
    <3>3. E \subseteq D \ C
      <4>1. ASSUME NEW d \in E, d \in C PROVE FALSE
        <5>1. d[1] = c /\ Astray(c, t)'
          BY <4>1 DEF Detours
        <5> QED
          BY <1>4, <2>1, <5>1, NobodyPasses
      <4> QED
        BY <1>1, <4>1
    <3>4. Cardinality(C) = N - 1 - k /\ IsFiniteSet(C)
      <4>1. IsFiniteSet(Ticks) /\ Cardinality(Ticks) = N - 1 - k
        <5>1. N - 1 - k \in Nat
          BY <2>2
        <5> HIDE DEF k
        <5> QED
          BY <5>1, FS_Interval
      <4>2. IsFiniteSet({c}) /\ Cardinality({c}) = 1
        BY FS_Singleton
      <4>3. N - 1 - k \in Int
        BY <2>2
      <4> HIDE DEF Ticks, k
      <4>4. IsFiniteSet(C) /\ Cardinality(C) = Cardinality({c}) * Cardinality(Ticks)
        BY <4>1, <4>2, FS_Product
      <4> QED
        BY <4>1, <4>2, <4>3, <4>4
    <3>5. IsFiniteSet(D \ C) /\ Cardinality(D \ C) = Cardinality(D) - Cardinality(C)
      <4> HIDE DEF C, D
      <4>1. D \cap C = C
        BY <3>2
      <4> QED
        BY <1>2, <4>1, FS_Difference
    <3>6. Cardinality(E) <= Cardinality(D \ C)
      <4> HIDE DEF C, D, E
      <4>1. E \in SUBSET (D \ C)
        BY <3>3
      <4> QED
        BY <3>5, <4>1, FS_Subset, Zenon
    <3> HIDE DEF C, D, E, k, k2, Ticks
    <3> QED
      BY <1>2, <2>2, <3>4, <3>5, <3>6
  <2> QED
    BY <2>2, <2>3, <2>4
<1> QED
  BY <1>3, <1>4

\* Other steps than a switch and a tick leave the CPU to the running task.
LEMMA CpuChanges ==
    ASSUME IInv, [TNext]_tvars, kos_current_task # NULL
    PROVE  \/ kos_current_task' = kos_current_task
           \/ kos_dispatch(kos_current_task)
           \/ TickIsr
BY DEF IInv, Phases, TNext, TTick, TCall, tvars, vars, sched, Boot, kos_new_task,
       msched_init, kos_run, TimerOverflow, Kernel, kos_get_next_task,
       kos_schedule_return, kos_dispatch, kos_yield, kos_delay_ms,
       kos_set_next_schedule_delay_ms, kos_task_exit, irq_disable, irq_enable

\* What a step adds to a wait.
LEMMA WaitedStep ==
    ASSUME IInv, Patience, MaxWait \in Nat, [TNext]_tvars
    PROVE  /\ waited' \in [Tasks -> Nat] /\ waited'[IDLE] = 0
           /\ \A t \in App :
                /\ ~Waits(t)' => waited'[t] = 0
                /\ waited'[t] <= waited[t] + 1
                /\ waited'[t] = waited[t] \/ waited'[t] = 0 \/ TickIsr
<1> USE TaskFacts DEF Patience
<1>1. CASE UNCHANGED tvars
  <2>1. UNCHANGED <<waited, status, nb_tick_to_wait, kos_current_task>>
    BY <1>1 DEF tvars, vars, sched, hist
  <2>2. \A t \in App : /\ ~Waits(t)' => ~Waits(t)
                      /\ waited[t] \in Nat
    BY <2>1 DEF Waits, Awake, App
  <2> QED
    BY <2>1, <2>2
<1>2. CASE CountWaits
  <2>1. waited' \in [Tasks -> Nat] /\ waited'[IDLE] = 0
    BY <1>2 DEF CountWaits
  <2>2. pending /\ ~pending' => TickIsr
    BY DEF TNext, TTick, TCall, tvars, vars, Boot, kos_new_task,
           msched_init, kos_run, TimerOverflow, Kernel, kos_get_next_task,
           kos_dispatch, kos_schedule_return, kos_yield, kos_delay_ms,
           kos_set_next_schedule_delay_ms, kos_task_exit, irq_disable, irq_enable
  <2>3. ASSUME NEW t \in App
        PROVE  /\ waited'[t] <= waited[t] + 1
               /\ waited'[t] = waited[t] \/ waited'[t] = 0 \/ TickIsr
    <3>1. t \in Tasks /\ t # IDLE /\ waited[t] \in Nat
      BY DEF App
    <3>2. waited'[t] = IF ~Awake(t)' \/ kos_current_task' = t THEN 0
            ELSE IF pending /\ ~pending' /\ waited[t] <= MaxWait THEN waited[t] + 1
            ELSE waited[t]
      BY <1>2, <3>1 DEF CountWaits
    <3> QED
      BY <2>2, <3>1, <3>2
  <2>4. ASSUME NEW t \in App, ~Waits(t)' PROVE waited'[t] = 0
    <3>1. CASE ~Awake(t)' \/ kos_current_task' = t
      BY <1>2, <3>1 DEF CountWaits, App
    <3>2. CASE kos_current_task' = NULL
      <4>1. ~TickIsr
        BY <3>2, TickTakes
      <4>2. kos_current_task = NULL
        BY <3>2 DEF TNext, TTick, TCall, tvars, vars, sched, TickIsr, Boot, kos_new_task,
             msched_init, kos_run, TimerOverflow, Kernel, kos_get_next_task,
             kos_dispatch, kos_schedule_return, kos_yield, kos_delay_ms, IInv, TypeOK,
             kos_set_next_schedule_delay_ms, kos_task_exit, irq_disable, irq_enable, Phases
      <4>3. waited[t] = 0
        BY <4>2 DEF Waits
      <4> QED
        BY <2>3, <4>1, <4>3
    <3> QED
      BY <2>4, <3>1, <3>2 DEF Waits
  <2> QED
    BY <2>1, <2>3, <2>4
<1>3. CountWaits \/ UNCHANGED tvars
  BY DEF TNext
<1> QED
  BY <1>1, <1>2, <1>3

LEMMA PatienceStep ==
    ASSUME IInv, IInv', Choosers, Patience, MaxWait \in Nat, [TNext]_tvars
    PROVE  Patience'
<1> DEFINE c == kos_current_task
<1>1. [Next]_vars
  BY DEF TNext, TTick, TCall, tvars, Next, Call
<1>2. ASSUME NEW t \in App, Waits(t)'
      PROVE  2 * (waited'[t] + Between(c', t) + Cardinality(Detours(t)')) <= N * (N + 1)
  <2> DEFINE D  == Cardinality(Detours(t))
             D2 == Cardinality(Detours(t)')
             B  == N * (N - 1)
  <2>1. /\ c' \in Tasks \ {t} /\ Between(c', t) \in 0..(N - 1)
        /\ N \in Nat \ {0}
    BY <1>2, BetweenFacts DEF Waits, IInv, TypeOK
  <2>2. D \in Nat /\ D2 \in Nat /\ 2 * D2 <= B
    <3>1. Detours(t) \subseteq Slots(t) /\ Detours(t)' \subseteq Slots(t)
      BY DEF Detours
    <3> QED
      BY <3>1, DetoursFacts
  <2>3. N * (N + 1) = B + 2 * N /\ B \in Int
    BY <2>1
  <2>4. /\ waited[t] \in Nat /\ waited'[t] \in Nat
        /\ waited'[t] <= waited[t] + 1
        /\ waited'[t] = waited[t] \/ waited'[t] = 0 \/ TickIsr
    BY WaitedStep DEF Patience, App
  <2>5. CASE ~Waits(t)
    <3>1. waited[t] = 0
      BY <2>5 DEF Patience
    <3>2. \A w, b, d, m, n \in Int :
             w <= 1 /\ b <= n - 1 /\ 2 * d <= m => 2 * (w + b + d) <= m + 2 * n
      OBVIOUS
    <3>3. waited'[t] \in Int /\ Between(c', t) \in Int /\ D2 \in Int /\ N \in Int
          /\ waited'[t] <= 1 /\ Between(c', t) <= N - 1
      BY <2>1, <2>2, <2>4, <3>1
    <3> HIDE DEF D, D2, B
    <3> QED
      BY <2>2, <2>3, <3>2, <3>3 DEF D2
  <2>6. CASE Waits(t)
    <3>1. /\ 2 * (waited[t] + Between(c, t) + D) <= N * (N + 1)
          /\ c \in Tasks \ {t} /\ Between(c, t) \in 0..(N - 1) /\ c # NULL
      BY <2>6, BetweenFacts DEF Patience, Waits, IInv, TypeOK
    <3>2. waited'[t] + Between(c', t) + D2 <= waited[t] + Between(c, t) + D
      <4>0. D2 <= D
        BY <1>1, <2>6, DetoursStep
      <4>1. CASE TickIsr
        <5>1. tasks_count = N + 1 /\ RingShape
          BY <3>1 DEF IInv, Phases
        <5>2. t \in Candidates /\ Candidates \in SUBSET (App \ {c})
          BY <2>6 DEF Candidates, TicksLeft, Waits, Awake, App
        <5>3. Chosen(c, Candidates, c')
          BY <3>1, <4>1 DEF TickIsr
        <5>4. Between(c', t) < Between(c, t)
          BY <2>1, <3>1, <5>1, <5>2, <5>3, ChosenIsNearer
        <5> HIDE DEF D, D2
        <5> QED
          BY <2>1, <2>2, <2>4, <3>1, <4>0, <5>4
      <4>2. CASE kos_dispatch(c) /\ ~TickIsr
        <5>1. Between(c', t) + D2 <= Between(c, t) + D
          BY <1>1, <2>1, <2>6, <4>2, DetoursStep
        <5> HIDE DEF D, D2
        <5> QED
          BY <2>1, <2>2, <2>4, <3>1, <4>2, <5>1
      <4>3. CASE c' = c /\ ~TickIsr
        <5> HIDE DEF D, D2
        <5> QED
          BY <2>1, <2>2, <2>4, <3>1, <4>0, <4>3
      <4> QED
        BY <3>1, <4>1, <4>2, <4>3, CpuChanges
    <3>3. \A x, y, m \in Int : x <= y /\ 2 * y <= m => 2 * x <= m
      OBVIOUS
    <3>4. /\ waited'[t] + Between(c', t) + D2 \in Int
          /\ waited[t] + Between(c, t) + D \in Int /\ N * (N + 1) \in Int
      BY <2>1, <2>2, <2>4, <3>1
    <3> QED
      BY <3>1, <3>2, <3>3, <3>4
  <2> QED
    BY <2>5, <2>6
<1> QED
  BY <1>2, WaitedStep DEF Patience

\* For any number of tasks N and any delays: a task that is awake waits for the
\* CPU N * (N + 1) / 2 ticks at most, whoever else runs, masks the tick, exits
\* or switches to a task it has chosen long before.
THEOREM WaitsAreBounded ==
    ASSUME MaxWait \in Nat, 2 * MaxWait >= N * (N + 1)
    PROVE  TSpec => []BoundedWait
<1>1. TInit => Choosers /\ Patience
  BY TaskFacts DEF TInit, Init, Choosers, Patience, Waits, App
<1>2. IInv /\ Choosers /\ [Next]_vars => Choosers'
  BY ChoosersStep
<1>3. IInv /\ IInv' /\ Choosers /\ Patience /\ [TNext]_tvars => Patience'
  BY PatienceStep
<1>4. IInv /\ Patience => BoundedWait
  <2> SUFFICES ASSUME IInv, Patience, NEW t \in Tasks PROVE waited[t] <= MaxWait
    BY DEF BoundedWait
  <2>1. CASE t \in App /\ Waits(t)
    <3> DEFINE D == Cardinality(Detours(t))
               b == Between(kos_current_task, t)
    <3>1. D \in Nat /\ b \in Nat /\ waited[t] \in Nat /\ N * (N + 1) \in Int
      <4>1. Detours(t) \subseteq Slots(t)
        BY DEF Detours
      <4>2. b \in 0..(N - 1) /\ N \in Nat
        BY <2>1, BetweenFacts DEF Waits, IInv, TypeOK
      <4> QED
        BY <2>1, <4>1, <4>2, DetoursFacts DEF Patience
    <3>2. 2 * (waited[t] + b + D) <= N * (N + 1)
      BY <2>1 DEF Patience
    <3>3. \A w, x, d, m, n \in Int :
             x >= 0 /\ d >= 0 /\ 2 * (w + x + d) <= m /\ 2 * n >= m => w <= n
      OBVIOUS
    <3> HIDE DEF D, b
    <3> QED
      BY <3>1, <3>2, <3>3
  <2>2. CASE ~(t \in App /\ Waits(t))
    BY <2>2, TaskFacts DEF Patience, App
  <2> QED
    BY <2>1, <2>2
<1> QED
  BY <1>1, <1>2, <1>3, <1>4, Observed, TypeCorrect, PTL DEF TSpec, Spec, IInv
=============================================================================
