---------------------------- MODULE TaskTimeline ----------------------------
(***************************************************************************)
(* What the dispatcher promises about the work it hands out, without       *)
(* saying how it keeps book: a clock, and the tasks whose deadline the     *)
(* clock has not reached.  A task is outstanding from the tick that issues *)
(* it until the first clock value at or past its deadline; a tick issues   *)
(* at most one task; task numbers are given in order and not reused until  *)
(* the machine is loaded again.                                            *)
(***************************************************************************)
EXTENDS Integers

CONSTANT Units

VARIABLES
    now,            \* the clock
    outstanding,    \* the tasks whose deadline lies ahead
    issued          \* how many tasks have been issued since the last load

vars == <<now, outstanding, issued>>

Task == [taskId : Nat, unit : Units, deadline : Nat]

StillRunning(clock) == {task \in outstanding : clock < task.deadline}

Init == now = 0 /\ outstanding = {} /\ issued = 0

\* Time passes, one cycle or several, and nothing is issued.
Elapse ==
    /\ now' \in Nat /\ now' > now
    /\ outstanding' = StillRunning(now')
    /\ UNCHANGED issued

\* One cycle passes and the tick issues one task.
Issue ==
    /\ now' = now + 1
    /\ issued' = issued + 1
    /\ \E task \in outstanding' :
          /\ task \in Task
          /\ task.taskId = issued
          /\ task.deadline >= now'
          /\ outstanding' = StillRunning(now') \cup {task}

\* A new program is loaded: all is forgotten.
Restart == now' = 0 /\ outstanding' = {} /\ issued' = 0

Next == Elapse \/ Issue \/ Restart

Spec == Init /\ [][Next]_vars

=============================================================================
