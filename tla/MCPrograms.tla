----------------------------- MODULE MCPrograms -----------------------------
(***************************************************************************)
(* The programs the model-checking runs load.                              *)
(***************************************************************************)
EXTENDS IsaSequence

\* Give each instruction the PC of its position, as the builder does.
Assemble(code) == [i \in DOMAIN code |-> [code[i] EXCEPT !.pc = i - 1]]

Op(unit, latency) ==
    [NewInstruction("Operation") EXCEPT !.targetUnit = unit, !.latency = latency]

External(unit, latency) ==
    [NewInstruction("FuncCall") EXCEPT
        !.isExternal = TRUE, !.targetUnit = unit, !.latency = latency]

Call(target) == [NewInstruction("FuncCall") EXCEPT !.jumpTarget = target]

Sets(v, numbers) ==
    [NewInstruction("Operation") EXCEPT !.result = v, !.outcomes = numbers]

Jump(target) == [NewInstruction("Jump") EXCEPT !.jumpTarget = target]

Branch(name, v, then, else) ==
    [NewInstruction(name) EXCEPT
        !.condition = v, !.jumpTarget = then, !.fallthroughPC = else]

ForInit(iv, lb, arg, init) ==
    [NewInstruction("ForInit") EXCEPT
        !.forIV = iv, !.forLB = lb, !.iterArgs = <<arg>>, !.iterArgInits = <<init>>]

ForCondition(iv, ub, body, after) ==
    [NewInstruction("ForCondition") EXCEPT
        !.forIV = iv, !.forUB = ub, !.jumpTarget = body, !.fallthroughPC = after]

ForIncrement(iv, step) ==
    [NewInstruction("ForIncrement") EXCEPT !.forIV = iv, !.forStep = step]

YieldAssign(from, to) ==
    [NewInstruction("YieldAssign") EXCEPT !.condition = from, !.forIV = to]

Return == NewInstruction("FuncReturn")

-----------------------------------------------------------------------------
\* Straight-line kernels: every way to order three pieces of unit work.
Work == {Op("MTE", 1), Op("MTE", 3), Op("Vec", 2),
         External("MTE", 0), External("Scalar", 3)}

StraightLine == {Assemble(<<a, b, c, Return>>) : a, b, c \in Work}

\* A loop of "trips" iterations over a transfer, carrying one value.
Loop == Assemble(<<
    Sets("n", {2}), Sets("one", {1}), Sets("x", {0, 1}),
    ForInit("i", "zero", "acc", "x"),
    ForCondition("i", "n", 5, 9),
    Op("MTE", 3), YieldAssign("i", "acc"), ForIncrement("i", "one"), Jump(4),
    Return>>)

\* A loop whose variable steps over its bound and wraps: it never ends.
Overflow == Assemble(<<
    Sets("n", {3}), Sets("one", {2}),
    ForInit("i", "zero", "acc", "x"),
    ForCondition("i", "n", 4, 6),
    ForIncrement("i", "one"), Jump(3),
    Return>>)

\* A condition whose outcome is not known, guarding a matrix operation.
Guarded == Assemble(<<
    Sets("x", {0, 1}),
    Branch("IfCondition", "x", 2, 3), Op("Cube", 3),
    Branch("ConditionalJump", "x", 4, 4),
    Return>>)

\* A function at PC 3 that is called with room to return.
CallAndReturn == Assemble(<<
    Sets("x", {0, 1}), Call(4), NewInstruction("IfYield"), Return,
    Sets("x", {-1}), Op("Vec", 2), NewInstruction("Return")>>)

(***************************************************************************)
(* What the builder makes of a call: the target was never set, so the      *)
(* call enters PC 0 again.                                                 *)
(***************************************************************************)
Recursion == Assemble(<<Op("Vec", 3), Call(0), Return>>)

=============================================================================
