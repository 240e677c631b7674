----------------------------- MODULE IsaSequence -----------------------------
(***************************************************************************)
(* The linear program of IsaSequence: instructions in the order they were  *)
(* added, each carrying the PC it was given, and the lookup by PC that     *)
(* the executor fetches through.                                           *)
(***************************************************************************)
EXTENDS Isa

(***************************************************************************)
(* pcToIndex keeps, for each PC, the index of the instruction added last   *)
(* with that PC.                                                           *)
(***************************************************************************)
HasInstruction(sequence, pc) == \E i \in DOMAIN sequence : sequence[i].pc = pc

PcToIndex(sequence, pc) ==
    CHOOSE i \in DOMAIN sequence :
        /\ sequence[i].pc = pc
        /\ \A j \in DOMAIN sequence : sequence[j].pc = pc => j <= i

GetInstructionByPC(sequence, pc) == sequence[PcToIndex(sequence, pc)]

(***************************************************************************)
(* The builder patches targets once it knows them; an instruction of       *)
(* another kind is left alone.                                             *)
(***************************************************************************)
UpdateConditionalJump(sequence, pc, truePC, falsePC) ==
    IF /\ HasInstruction(sequence, pc)
       /\ Kind(GetInstructionByPC(sequence, pc))
             \in {"ConditionalJump", "ForCondition", "IfCondition"}
    THEN [sequence EXCEPT ![PcToIndex(sequence, pc)] =
             [@ EXCEPT !.jumpTarget = truePC, !.fallthroughPC = falsePC]]
    ELSE sequence

UpdateJumpTarget(sequence, pc, targetPC) ==
    IF /\ HasInstruction(sequence, pc)
       /\ Kind(GetInstructionByPC(sequence, pc)) = "Jump"
    THEN [sequence EXCEPT ![PcToIndex(sequence, pc)] =
             [@ EXCEPT !.jumpTarget = targetPC]]
    ELSE sequence

(***************************************************************************)
(* What the executor needs of a program to stay inside it: PCs are the     *)
(* positions, every target is a PC of the program, and control never falls *)
(* off the end.                                                            *)
(***************************************************************************)
DensePCs(sequence) == \A i \in DOMAIN sequence : sequence[i].pc = i - 1

JumpsInside(sequence) ==
    \A i \in DOMAIN sequence :
        LET isa == sequence[i] IN
        /\ isa.isaName = "Jump" \/ (isa.isaName = "FuncCall" /\ ~ isa.isExternal)
             => isa.jumpTarget < Len(sequence)
        /\ isa.isaName \in {"ConditionalJump", "ForCondition", "IfCondition"}
             => /\ isa.jumpTarget < Len(sequence)
                /\ isa.fallthroughPC < Len(sequence)

EndsInTransfer(sequence) ==
    sequence # <<>> =>
        sequence[Len(sequence)].isaName \in
            {"Jump", "ConditionalJump", "ForCondition", "IfCondition",
             "Return", "FuncReturn"}

WellFormed(sequence) ==
    DensePCs(sequence) /\ JumpsInside(sequence) /\ EndsInTransfer(sequence)

=============================================================================
