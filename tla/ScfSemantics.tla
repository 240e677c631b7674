----------------------------- MODULE ScfSemantics -----------------------------
(***************************************************************************)
(* What the body of a function means before it is flattened: operations,   *)
(* scf.for with iteration arguments, scf.if, nested at will.  Exec runs    *)
(* such a body as the scf dialect defines it, with all operands of a yield *)
(* read before any is assigned, and keeps what the operations see of their *)
(* operands.  Walk is the order in which the builder meets the same body.  *)
(***************************************************************************)
EXTENDS Isa

LOCAL INSTANCE SequencesExt

OpNode(name, isa, operands) ==
    [node |-> "op", name |-> name, isa |-> isa, operands |-> operands]

ForNode(loop, body, yield, results) ==
    [node |-> "for", loop |-> loop, body |-> body, yield |-> yield, results |-> results]

IfNode(condition, then, thenYield, hasElse, else, elseYield, results) ==
    [node |-> "if", condition |-> condition, then |-> then, thenYield |-> thenYield,
     hasElse |-> hasElse, else |-> else, elseYield |-> elseYield, results |-> results]

-----------------------------------------------------------------------------
Token(kind, node) == [token |-> kind, node |-> node]

RECURSIVE Walk(_)

(***************************************************************************)
(* The builder walks the operations of a block in order and into the       *)
(* regions of each; a yield is the last operation of its block.            *)
(***************************************************************************)
Walk(nodes) ==
    LET Meets(node) ==
            CASE node.node = "op"  -> <<Token("op", node)>>
              [] node.node = "for" ->
                    <<Token("for", node)>> \o Walk(node.body) \o <<Token("endFor", node)>>
              [] node.node = "if" /\ node.hasElse ->
                    <<Token("if", node)>>   \o Walk(node.then)
                 \o <<Token("else", node)>> \o Walk(node.else) \o <<Token("endElse", node)>>
              [] OTHER ->
                    <<Token("if", node)>> \o Walk(node.then) \o <<Token("endIf", node)>>
    IN  FlattenSeq([i \in DOMAIN nodes |-> Meets(nodes[i])])

-----------------------------------------------------------------------------
\* What an operation sees of its operands.
Observation(name, operands, env) ==
    [name |-> name, seen |-> [i \in DOMAIN operands |-> IntValue(env, operands[i])]]

\* All targets take the values that their operands have now.
Assign(env, targets, operands) ==
    [v \in Value |->
        IF \E i \in DOMAIN targets : targets[i] = v
        THEN env[operands[CHOOSE i \in DOMAIN targets : targets[i] = v]]
        ELSE env[v]]

RECURSIVE ExecBody(_, _), Iterate(_, _, _)

ExecOp(node, state) ==
    [env   |-> IF node.isa.outcomes = {} THEN state.env
               ELSE [state.env EXCEPT ![node.isa.result] =
                        CHOOSE n \in node.isa.outcomes : TRUE],
     trace |-> IF node.operands = <<>> THEN state.trace
               ELSE Append(state.trace,
                           Observation(node.name, node.operands, state.env))]

ExecFor(node, state) ==
    LET loop == node.loop
        ended == Iterate(node, IntValue(state.env, loop.lb),
                         [state EXCEPT !.env = Assign(@, loop.iterArgs, loop.iterArgInits)])
    IN  [ended EXCEPT !.env = Assign(@, node.results, loop.iterArgs)]

ExecIf(node, state) ==
    IF IntValue(state.env, node.condition) # 0
    THEN [ExecBody(node.then, state) EXCEPT !.env = Assign(@, node.results, node.thenYield)]
    ELSE [ExecBody(node.else, state) EXCEPT !.env = Assign(@, node.results, node.elseYield)]

\* The iterations from i on: the bound and the step do not change in a loop.
Iterate(node, i, state) ==
    LET loop == node.loop
        body == ExecBody(node.body, [state EXCEPT !.env[loop.iv] = i])
    IN  IF i >= IntValue(state.env, loop.ub) THEN state
        ELSE Iterate(node, i + IntValue(state.env, loop.step),
                     [body EXCEPT !.env = Assign(@, loop.iterArgs, node.yield)])

ExecBody(nodes, state) ==
    FoldLeft(LAMBDA s, node :
                CASE node.node = "op"  -> ExecOp(node, s)
                  [] node.node = "for" -> ExecFor(node, s)
                  [] node.node = "if"  -> ExecIf(node, s),
             state, nodes)

\* What the operations of a function's body see, in order.
Exec(body) == ExecBody(body, [env |-> EmptyStore, trace |-> <<>>]).trace

=============================================================================
