-------------------------- MODULE MCHivmSimulation --------------------------
(***************************************************************************)
(* TLC instances of HivmSimulation: kernels of three operations on two     *)
(* local buffers of one type or of two sizes, kernels over another element *)
(* type, a loop; and, without buffers, the programs of MCPrograms that     *)
(* end: loops count up, calls reach a function that returns.               *)
(***************************************************************************)
EXTENDS HivmSimulation

P == INSTANCE MCPrograms

MCValue == {"zero", "n", "one", "x", "i", "acc"}

MCMinInt == -4

\* f16 buffers of 2048 bytes, f32 ones with a dynamic dimension, an f16 one
\* twice as wide.
MCMemref == {"in", "out", "a", "b", "in32", "a32", "wide"}

MCInputs == {"in", "out", "in32"}

MCElement == [v \in MCMemref |-> IF v \in {"in32", "a32"} THEN "f32" ELSE "f16"]

MCShape == [v \in MCMemref |-> IF MCElement[v] = "f32" THEN <<-1, 4>>
                               ELSE IF v = "wide" THEN <<512, 4>> ELSE <<512, 2>>]

\* Numbers modulo 5 stand for f16 vectors.
MCData == 0 .. 4

MCSums == [xy \in MCData \X MCData |-> (xy[1] + xy[2]) % 5]

MCProducts == [xy \in MCData \X MCData |-> (xy[1] * xy[2]) % 5]

Hivm(op, operands) ==
    [isa |-> NewInstruction("Operation"), hivm |-> [op |-> op, operands |-> operands]]

Plain(isa) == [isa |-> isa, hivm |-> NoOp]

Alloc(v) == Hivm("alloc", <<v>>)

Work == {Hivm("load", <<"in", "a">>), Hivm("load", <<"in", "b">>),
         Hivm("load", <<"out", "b">>), Hivm("store", <<"b", "out">>),
         Hivm("vadd", <<"a", "b", "b">>), Hivm("vmul", <<"b", "b", "a">>),
         Hivm("matmul", <<"a", "b", "b">>), Alloc("a"),
         Hivm("vadd", <<"in", "a", "b">>)}

Straight == {<<Alloc("a"), Alloc("b"), Hivm("load", <<"in", "a">>)>>
                 \o <<x, y, z>> \o <<Plain(P!Return)>> : x, y, z \in Work}

\* Two sizes: copies and sums that widen, and others that leave a part.
Resize == {Hivm("load", <<"a", "wide">>), Hivm("load", <<"wide", "a">>),
           Hivm("load", <<"out", "wide">>), Hivm("store", <<"wide", "out">>),
           Hivm("vadd", <<"wide", "wide", "wide">>), Hivm("vadd", <<"wide", "wide", "a">>),
           Hivm("vmul", <<"a", "a", "wide">>), Hivm("store", <<"a32", "wide">>)}

Mixed == {<<Alloc("wide"), Hivm("load", <<"in", "a">>), Alloc("a32")>>
              \o <<x, y>> \o <<Plain(P!Return)>> : x, y \in Resize}

\* Another element type, and operations that lack operands.
Others == {<<Alloc("a32"), x, y, Plain(P!Return)>> :
              x, y \in {Hivm("load", <<"in32", "a32">>), Hivm("load", <<"in32">>),
                        Hivm("store", <<"a32", "in32">>), Hivm("store", <<>>),
                        Hivm("vadd", <<"a32", "a32", "a32">>), Hivm("vadd", <<"a32">>),
                        Hivm("vmul", <<"a32", "a32">>), Hivm("matmul", <<"a32">>)}}

\* out := in + in, twice over, in a loop.
Accumulate == <<
    Plain(P!Sets("n", {2})), Plain(P!Sets("one", {1})),
    Alloc("a"), Alloc("b"), Hivm("load", <<"in", "a">>), Hivm("load", <<"in", "b">>),
    Plain(P!ForInit("i", "zero", "acc", "x")), Plain(P!ForCondition("i", "n", 8, 12)),
    Hivm("vadd", <<"a", "b", "b">>), Hivm("store", <<"b", "out">>),
    Plain(P!ForIncrement("i", "one")), Plain(P!Jump(7)),
    Hivm("load", <<"out", "a">>), Plain(P!Return)>>

\* No operation on buffers.
Lines(program) == [i \in DOMAIN program |-> Plain(program[i])]

Control == {Lines(program) :
               program \in {<<>>, P!Loop, P!Guarded, P!CallAndReturn} \cup P!StraightLine}

MCKernels == Straight \cup Mixed \cup Others \cup {Accumulate} \cup Control

MCPrograms == {Program(lines) : lines \in MCKernels}

\* A vector operation right behind the load of its operand.
MCTimed == {<<Hivm("load", <<"in", "a">>), Hivm("vadd", <<"a", "a", "b">>), Plain(P!Return)>>}

MCTimedPrograms == {Program(lines) : lines \in MCTimed}

=============================================================================
