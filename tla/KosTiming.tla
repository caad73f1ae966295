----------------------------- MODULE KosTiming -----------------------------
(***************************************************************************)
(* The kernel of Kos, observed: history variables that count ticks and     *)
(* switches, and the timing properties of the scheduler.  They constrain   *)
(* nothing: each step is a step of Kos.                                    *)
(***************************************************************************)
EXTENDS Kos

CONSTANTS
    MaxWait,      \* ticks an awake task may wait for the CPU
    MaxRevival    \* times an exited task may be switched to

VARIABLES
    owed,      \* owed[t]: ticks the delay t asked for has still to last
    waited,    \* waited[t]: ticks served while t was awake and off the CPU
    revived    \* revived[t]: switches to t since it exited

hist  == <<owed, waited, revived>>
tvars == <<vars, hist>>

\* The delay the API takes, in ticks, where it fits nb_tick_to_wait: above
\* 255 ticks the code keeps the remainder only, and nothing is counted.
Asked(d) == IF d \div TickMs <= 255 THEN d \div TickMs ELSE 0

TInit ==
    /\ Init
    /\ owed    = [t \in Tasks |-> 0]
    /\ waited  = [t \in Tasks |-> 0]
    /\ revived = [t \in Tasks |-> 0]

\* Both counts stop above their bound.
CountWaits ==
    waited' = [t \in Tasks |->
        IF t = IDLE \/ ~Awake(t)' \/ kos_current_task' = t THEN 0
        ELSE IF pending /\ ~pending' /\ waited[t] <= MaxWait THEN waited[t] + 1
        ELSE waited[t]]

CountRevivals ==
    revived' = [t \in Tasks |->
        IF /\ status[t] = "ZOMBIE" /\ revived[t] <= MaxRevival
           /\ kos_current_task # t /\ kos_current_task' = t
        THEN revived[t] + 1 ELSE revived[t]]

Owes(t, k) == owed' = [owed EXCEPT ![t] = k]

TCall(t) ==
    \/ kos_yield(t) /\ Owes(t, IF owed[t] = 0 THEN 1 ELSE owed[t])
    \/ \E d \in Delays : /\ \/ kos_delay_ms(t, d)
                            \/ kos_set_next_schedule_delay_ms(t, d)
                         /\ Owes(t, Asked(d))
    \/ /\ kos_task_exit(t) \/ irq_disable(t) \/ irq_enable(t)
       /\ UNCHANGED owed

TTick == /\ TickIsr
         /\ owed' = [t \in Tasks |-> IF owed[t] > 0 THEN owed[t] - 1 ELSE 0]

TNext ==
    /\ \/ TTick
       \/ \E t \in Tasks : TCall(t)
       \/ /\ Boot \/ TimerOverflow \/ \E t \in Tasks : Kernel(t)
          /\ UNCHANGED owed
    /\ CountWaits
    /\ CountRevivals

TSpec == TInit /\ [][TNext]_tvars

-----------------------------------------------------------------------------
\* Round-robin keeps its promise up to stale switches (kos_schedule choosing a
\* task, being preempted, and switching to it later): an awake task waits for
\* the CPU MaxWait ticks at most, however the others run, mask or exit.  Each
\* other task can lose it one round; N * (N + 1) / 2 ticks are enough.
BoundedWait == \A t \in Tasks : waited[t] <= MaxWait

\* A tick never gives the CPU to a task whose delay (kos_yield's tick, or the
\* delay asked for, up to 255 ticks) has not elapsed in whole ticks.
TickHonoursDelay ==
    [][pending /\ ~pending' /\ kos_current_task' # kos_current_task
         => kos_current_task' = IDLE \/ owed'[kos_current_task'] = 0]_tvars

\* Each switch to an exited task was decided before it exited, by another
\* task that is then rid of it: such switches are bounded.
BoundedRevival == \A t \in Tasks : revived[t] <= MaxRevival
=============================================================================
