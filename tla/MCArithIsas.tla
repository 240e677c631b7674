----------------------------- MODULE MCArithIsas -----------------------------
(***************************************************************************)
(* TLC instances of ArithIsas: bodies over 2-bit integers and a 3-bit      *)
(* index.                                                                  *)
(***************************************************************************)
EXTENDS ArithIsas

MCValue == {"a", "b", "arg", "r", "s", "bit", "index", "back"}

MCInputs == {"a", "b"}

MCTypeWidth == [v \in MCValue |-> CASE v = "bit" -> 1 [] v = "index" -> 3 [] OTHER -> 2]

Binary(op, lhs, rhs, result) ==
    [op |-> op, predicate |-> "eq", lhs |-> lhs, rhs |-> rhs, result |-> result]

Cast(from, result) == Binary("index_cast", from, from, result)

Cmpi(predicate, lhs, rhs) ==
    [Binary("cmpi", lhs, rhs, "bit") EXCEPT !.predicate = predicate]

Arithmetic == {"addi", "subi", "muli", "divsi"}

\* Two operations in a row, the second perhaps on an argument, and casts.
Computations ==
    {<<Binary(f, "a", "b", "r"), Binary(g, "r", z, "s"),
       Cmpi("slt", "s", "a"), Cast("s", "index"), Cast("index", "back")>> :
        f \in Arithmetic, g \in Arithmetic, z \in {"a", "arg"}}

\* Every comparison, of two integers and of an integer and an undefined one.
Comparisons ==
    {<<Binary("divsi", "a", "b", "r"), Cmpi(p, x, "b"), Cast("bit", "index")>> :
        p \in Predicate, x \in {"a", "r", "arg"}}

MCPrograms == Computations \cup Comparisons

=============================================================================
