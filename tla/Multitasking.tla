---------------------------- MODULE Multitasking ----------------------------
(***************************************************************************)
(* What the kernel promises to the tasks, as documentation/multitasking.md *)
(* puts it: tasks share one CPU, a task ends only by its own decision and  *)
(* never comes back to life, and every task that has not ended gets the    *)
(* CPU again and again.  How long it waits, and whether a task that ended  *)
(* is left the CPU for a moment, is not said.                              *)
(***************************************************************************)
CONSTANTS App, Nobody

VARIABLES cpu, exited

avars == <<cpu, exited>>

Init == cpu = Nobody /\ exited = {}

\* The CPU goes to t.
Give(t) == cpu # t /\ cpu' = t /\ UNCHANGED exited

\* The CPU goes to another party: idling, or a task that has ended.
Take == cpu' # Nobody /\ UNCHANGED exited

\* The running task ends.
Exit == /\ cpu \in App \ exited
        /\ exited' = exited \cup {cpu}
        /\ UNCHANGED cpu

Next == (\E t \in App : Give(t)) \/ Take \/ Exit

Spec == /\ Init /\ [][Next]_avars
        /\ \A t \in App : WF_avars(t \notin exited /\ Give(t))
=============================================================================
