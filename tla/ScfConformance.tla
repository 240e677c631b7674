---------------------------- MODULE ScfConformance ----------------------------
(***************************************************************************)
(* Does the flattened program compute what the structured one means?  A    *)
(* function is read by the builder, loaded and simulated, and what its     *)
(* operations see of their operands is put beside what ScfSemantics says   *)
(* they see.                                                               *)
(***************************************************************************)
EXTENDS ModuleSimulation, ScfSemantics

LOCAL INSTANCE SequencesExt

CONSTANT Sources    \* the function bodies

VARIABLES
    source,     \* the body of the module's one function
    todo,       \* what of it the builder has not met yet
    watched,    \* history: the operations with operands, by PC
    trace       \* history: what they have seen in the simulation

sourceVars == <<source, todo, watched, trace>>

conformVars == <<builderVars, mainVars, sourceVars>>

ConformInit ==
    /\ ModuleInit
    /\ source \in Sources
    /\ todo = <<Token("func", <<>>)>> \o Walk(source) \o <<Token("return", <<>>)>>
    /\ watched = {}
    /\ trace = <<>>

-----------------------------------------------------------------------------
\* The builder meets the next thing of the function.
Meet(kind) ==
    /\ stage = "constructed"
    /\ todo # <<>>
    /\ Head(todo).token = kind
    /\ todo' = Tail(todo)
    /\ UNCHANGED <<mainVars, source, trace>>

Met == Head(todo).node

MeetFunction ==
    /\ Meet("func")
    /\ \E function \in Functions : Builder!FlattenFuncOp(function)
    /\ UNCHANGED watched

MeetReturn ==
    /\ Meet("return")
    /\ Builder!AddReturn
    /\ UNCHANGED watched

MeetOp ==
    /\ Meet("op")
    /\ Builder!AddNormalOp(Met.isa)
    /\ watched' = IF Met.operands = <<>> THEN watched
                  ELSE watched \cup {[pc |-> nextPC, name |-> Met.name,
                                      operands |-> Met.operands]}

MeetFor ==
    /\ Meet("for")
    /\ Builder!BeginFor(Met.loop)
    /\ UNCHANGED watched

MeetForYield ==
    /\ Meet("endFor")
    /\ Builder!EndFor(Met.yield)
    /\ UNCHANGED watched

MeetIf ==
    /\ Meet("if")
    /\ Builder!BeginIf(Met.condition, Met.hasElse, Len(Met.results))
    /\ UNCHANGED watched

MeetThenYield ==
    /\ Meet("else")
    /\ Builder!EndThen(Met.thenYield)
    /\ UNCHANGED watched

MeetElseYield ==
    /\ Meet("endElse")
    /\ Builder!EndElse(Met.elseYield)
    /\ UNCHANGED watched

MeetIfEnd ==
    /\ Meet("endIf")
    /\ Builder!EndIf
    /\ UNCHANGED watched

LoadSource ==
    /\ todo = <<>>
    /\ LoadBuilt
    /\ UNCHANGED sourceVars

\* What the tick that starts now shows of the operation at pc.
Observed ==
    IF stage = "running" /\ ~ halted /\ \E op \in watched : op.pc = pc
    THEN LET op == CHOOSE o \in watched : o.pc = pc
         IN  <<Observation(op.name, op.operands, store)>>
    ELSE <<>>

RunSource ==
    /\ Simulate
    /\ trace' = trace \o Observed
    /\ UNCHANGED <<source, todo, watched>>

ConformNext ==
    \/ MeetFunction \/ MeetReturn \/ MeetOp
    \/ MeetFor \/ MeetForYield
    \/ MeetIf \/ MeetThenYield \/ MeetElseYield \/ MeetIfEnd
    \/ LoadSource \/ RunSource

(***************************************************************************)
(* One thread builds, loads and ticks: it never stops while it has a step. *)
(***************************************************************************)
ConformSpec ==
    ConformInit /\ [][ConformNext]_conformVars /\ WF_conformVars(ConformNext)

-----------------------------------------------------------------------------
(***************************************************************************)
(* The flattened program does what the source means: its operations run in *)
(* the source's order, as often, on the same values of induction           *)
(* variables, iteration arguments and results.  README_SIMULATOR.md:61-65  *)
(* lists the flattening of loops and ifs, their nesting and iter_args as   *)
(* implemented.                                                            *)
(***************************************************************************)
MatchesScf ==
    /\ IsPrefix(trace, Exec(source))
    /\ stage = "completed" => trace = Exec(source)

(***************************************************************************)
(* The same when the simulation is over, for what the documents describe   *)
(* beyond that: yields assign their operands to the iteration arguments,   *)
(* loops and ifs have results (docs/SimulatorUsage.md:153, 155), arguments *)
(* start from their initial values, and a then part jumps past the else    *)
(* part (docs/SimulatorDesign.md:451, 476).                                *)
(***************************************************************************)
FinishesAsScf == stage = "completed" => trace = Exec(source)

(***************************************************************************)
(* Every source whose loops count up is simulated to its end.              *)
(***************************************************************************)
SourceCompletes == <>(stage = "completed")

=============================================================================
