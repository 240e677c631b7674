--------------------------- MODULE ExecutionUnits ---------------------------
(***************************************************************************)
(* The execution units of include/ExecutionUnit.h: the tasks the scalar    *)
(* dispatcher hands to a unit, the unit's queue and its busy clock.  This  *)
(* module has no state of its own: IsaExecutor owns the four units and     *)
(* calls the operators below from its actions.                             *)
(*                                                                         *)
(* Cycle counters are uint64_t in the code; no bounded run comes near the  *)
(* point where they wrap, so they are natural numbers here.                *)
(***************************************************************************)
EXTENDS Integers, Sequences, FiniteSets

ExecutionUnitType == {"Scalar", "MTE", "Cube", "Vec"}

(***************************************************************************)
(* A task on a unit.  opName is only printed and is left out.              *)
(***************************************************************************)
PendingTask == [taskId     : Nat,
                startCycle : Nat,
                duration   : Nat,
                unit       : ExecutionUnitType,
                pc         : Nat]

CompleteCycle(task) == task.startCycle + task.duration

IsComplete(task, cycle) == cycle >= CompleteCycle(task)

ExecutionUnit == [busy           : BOOLEAN,
                  busyUntilCycle : Nat,
                  pendingTasks   : Seq(PendingTask)]

NewUnit == [busy |-> FALSE, busyUntilCycle |-> 0, pendingTasks |-> <<>>]

IsBusy(unit, cycle) == cycle < unit.busyUntilCycle

(***************************************************************************)
(* ExecutionUnit::dispatchTask: the task joins the queue and the unit's    *)
(* clock is overwritten, whether or not the unit was still busy.           *)
(***************************************************************************)
DispatchTask(unit, task) ==
    [busy           |-> TRUE,
     busyUntilCycle |-> CompleteCycle(task),
     pendingTasks   |-> Append(unit.pendingTasks, task)]

\* Mutant of PopCount: as many leave the front as are complete anywhere.
PopCountAnywhere(tasks, cycle) ==
    Cardinality({i \in DOMAIN tasks : IsComplete(tasks[i], cycle)})

(***************************************************************************)
(* The number of tasks the loop of ExecutionUnit::update pops: completed   *)
(* tasks leave from the front until the first one that is not complete.    *)
(***************************************************************************)
PopCount(tasks, cycle) ==
    CHOOSE n \in 0 .. Len(tasks) :
        /\ \A i \in 1 .. n : IsComplete(tasks[i], cycle)
        /\ n < Len(tasks) => ~ IsComplete(tasks[n + 1], cycle)

UpdateUnit(unit, cycle) ==
    [busy           |-> IsBusy(unit, cycle),
     busyUntilCycle |-> unit.busyUntilCycle,
     pendingTasks   |-> SubSeq(unit.pendingTasks,
                               PopCount(unit.pendingTasks, cycle) + 1,
                               Len(unit.pendingTasks))]

=============================================================================
