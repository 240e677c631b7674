----------------------- MODULE IsaSequenceBuilderProofs -----------------------
(***************************************************************************)
(* Invariance proofs for IsaSequenceBuilder, for every module it can read, *)
(* of every size and depth: first the targets of its code, which make it a *)
(* well-formed program, then the structure of its constructs.              *)
(***************************************************************************)
EXTENDS IsaSequenceBuilder, IsaSequenceProofs

(***************************************************************************)
(* The targets of an instruction, and of all of a program, go up to n.     *)
(* While the builder runs, n may be the size: a target right behind what   *)
(* is built so far, where the next instruction will be.                    *)
(***************************************************************************)
Fits(isa, n) ==
    /\ isa.isaName = "Jump" \/ (isa.isaName = "FuncCall" /\ ~ isa.isExternal)
         => isa.jumpTarget <= n
    /\ isa.isaName \in {"ConditionalJump", "ForCondition", "IfCondition"}
         => isa.jumpTarget <= n /\ isa.fallthroughPC <= n

AllFit(seq, n) == \A i \in 1 .. Len(seq) : Fits(seq[i], n)

\* Open constructs refer to what is built; a function is outermost.
FramesFit ==
    /\ open # <<>> => open[1].part = "func"
    /\ \A i \in 1 .. Len(open) :
          /\ open[i].elsePC <= Len(sequence)
          /\ open[i].part # "func" => open[i].condPC + 1 <= Len(sequence)

\* A complete program ends in a return, and all targets lie below its size.
Finished ==
    open = <<>> /\ sequence # <<>> =>
        /\ sequence[Len(sequence)].isaName = "FuncReturn"
        /\ AllFit(sequence, Len(sequence) - 1)

IInv ==
    /\ TypeOK
    /\ CounterIsSize
    /\ AllFit(sequence, Len(sequence))
    /\ FramesFit
    /\ Finished

-----------------------------------------------------------------------------
(***************************************************************************)
(* The code that the actions emit.                                         *)
(***************************************************************************)
LEMMA NewInstructionType ==
    ASSUME NEW name \in IsaName
    PROVE  /\ NewInstruction(name) \in Instruction
           /\ NewInstruction(name).isaName = name
           /\ \A n \in Nat : Fits(NewInstruction(name), n)
<1> DEFINE null == CHOOSE v \in Value : TRUE
<1>1. null \in Value
  BY ValueAssumption
<1>2. <<>> \in Seq(Value) /\ {} \in SUBSET Number /\ "Scalar" \in ExecutionUnitType
  BY EmptySeq DEF ExecutionUnitType
<1> HIDE DEF null
<1>3. NewInstruction(name) =
        [isaName |-> name, pc |-> 0, jumpTarget |-> 0, fallthroughPC |-> 0,
         condition |-> null, forIV |-> null, forLB |-> null, forUB |-> null,
         forStep |-> null, result |-> null, iterArgs |-> <<>>, iterArgInits |-> <<>>,
         isExternal |-> FALSE, targetUnit |-> "Scalar", latency |-> 1,
         outcomes |-> {}]
  BY DEF NewInstruction, null
<1>4. NewInstruction(name) \in Instruction
  BY <1>1, <1>2, <1>3 DEF Instruction
<1> QED BY <1>3, <1>4 DEF Fits

LEMMA OneInstruction ==
    ASSUME NEW isa \in Instruction
    PROVE  /\ <<isa>> \in Seq(Instruction) /\ Len(<<isa>>) = 1
           /\ <<isa>>[1] = isa
           /\ \A n : Fits(isa, n) => AllFit(<<isa>>, n)
BY DEF AllFit

LEMMA TwoInstructions ==
    ASSUME NEW a \in Instruction, NEW b \in Instruction
    PROVE  /\ <<a, b>> \in Seq(Instruction) /\ Len(<<a, b>>) = 2
           /\ <<a, b>>[2] = b
           /\ \A n : Fits(a, n) /\ Fits(b, n) => AllFit(<<a, b>>, n)
BY DEF AllFit

LEMMA ConcatCode ==
    ASSUME NEW s \in Seq(Instruction), NEW t \in Seq(Instruction)
    PROVE  /\ s \o t \in Seq(Instruction)
           /\ Len(s) \in Nat /\ Len(t) \in Nat
           /\ Len(s \o t) = Len(s) + Len(t)
           /\ \A i \in 1 .. Len(s) + Len(t) :
                 (s \o t)[i] = IF i <= Len(s) THEN s[i] ELSE t[i - Len(s)]
BY ConcatProperties, LenProperties

LEMMA SetPC ==
    ASSUME NEW isa \in Instruction, NEW p \in Nat
    PROVE  LET placed == [isa EXCEPT !.pc = p] IN
           /\ placed \in Instruction
           /\ placed.isaName = isa.isaName
           /\ placed.pc = p
           /\ \A n : Fits(isa, n) => Fits(placed, n)
<1> DEFINE placed == [isa EXCEPT !.pc = p]
<1>1. placed \in Instruction
  BY DEF Instruction
<1>2. /\ placed.isaName = isa.isaName
      /\ placed.pc = p
      /\ placed.isExternal = isa.isExternal
      /\ placed.jumpTarget = isa.jumpTarget
      /\ placed.fallthroughPC = isa.fallthroughPC
  BY DEF Instruction
<1> HIDE DEF placed
<1>3. \A n : Fits(isa, n) => Fits(placed, n)
  BY <1>2 DEF Fits
<1> QED BY <1>1, <1>2, <1>3 DEF placed

LEMMA ConcatFits ==
    ASSUME NEW s \in Seq(Instruction), NEW t \in Seq(Instruction), NEW n,
           AllFit(s, n), AllFit(t, n)
    PROVE  AllFit(s \o t, n)
<1>1. /\ Len(s) \in Nat /\ Len(t) \in Nat
      /\ Len(s \o t) = Len(s) + Len(t)
      /\ \A i \in 1 .. Len(s) + Len(t) :
            (s \o t)[i] = IF i <= Len(s) THEN s[i] ELSE t[i - Len(s)]
  BY ConcatProperties, LenProperties
<1> DEFINE u == s \o t
<1> SUFFICES ASSUME NEW i \in 1 .. Len(u)
             PROVE  Fits(u[i], n)
  BY DEF AllFit
<1>2. CASE i <= Len(s)
  BY <1>1, <1>2 DEF AllFit
<1>3. CASE ~ (i <= Len(s))
  <2>1. i - Len(s) \in 1 .. Len(t)
    BY <1>1, <1>3
  <2> QED BY <1>1, <1>3, <2>1 DEF AllFit
<1> QED BY <1>2, <1>3

LEMMA TopType ==
    ASSUME TypeOK, open # <<>>
    PROVE  /\ Len(open) \in Nat \ {0}
           /\ Top \in Frame
           /\ Top.condPC \in Nat /\ Top.elsePC \in Nat
           /\ Top.iv \in Value /\ Top.step \in Value
           /\ Top.iterArgs \in Seq(Value)
           /\ Pop \in Seq(Frame)
           /\ Len(Pop) = Len(open) - 1
           /\ \A i \in 1 .. Len(open) - 1 : Pop[i] = open[i]
<1>1. open \in Seq(Frame) /\ Len(open) \in Nat \ {0}
  BY EmptySeq DEF TypeOK
<1>2. \A i \in 1 .. Len(open) : open[i] \in Frame
  BY <1>1, ElementOfSeq
<1>3. Top \in Frame
  BY <1>1, <1>2 DEF Top
<1>4. /\ Pop \in Seq(Frame)
      /\ Len(Pop) = Len(open) - 1
      /\ \A i \in 1 .. Len(open) - 1 : Pop[i] = open[i]
  <2> DEFINE n == Len(open) - 1
  <2>1. n \in Nat /\ \A i \in 1 .. n : open[i] \in Frame
    BY <1>1, <1>2
  <2>2. Pop = SubSeq(open, 1, n)
    BY DEF Pop
  <2> HIDE DEF n
  <2>3. /\ SubSeq(open, 1, n) \in Seq(Frame)
        /\ Len(SubSeq(open, 1, n)) = IF 1 <= n THEN n - 1 + 1 ELSE 0
        /\ \A i \in 1 .. n - 1 + 1 : SubSeq(open, 1, n)[i] = open[1 + i - 1]
    BY <2>1, SubSeqProperties
  <2>4. /\ Pop \in Seq(Frame) /\ Len(Pop) = n
        /\ \A i \in 1 .. n : Pop[i] = open[i]
    BY <2>1, <2>2, <2>3
  <2> QED BY <2>4 DEF n
<1> QED BY <1>1, <1>3, <1>4 DEF Frame

LEMMA YieldAssignsType ==
    ASSUME TypeOK, open # <<>>, NEW operands \in Seq(Value)
    PROVE  /\ YieldAssigns(operands) \in Seq(Instruction)
           /\ \A n \in Nat : AllFit(YieldAssigns(operands), n)
<1> DEFINE args == Top.iterArgs
           m == IF Len(operands) < Len(args) THEN Len(operands) ELSE Len(args)
           assign(i) == [NewInstruction("YieldAssign") EXCEPT
                            !.condition = operands[i], !.forIV = args[i]]
           code == [i \in 1 .. m |-> assign(i)]
<1>1. args \in Seq(Value)
  BY TopType
<1> HIDE DEF args
<1>2. /\ m \in Nat
      /\ \A i \in 1 .. m : operands[i] \in Value /\ args[i] \in Value
  BY <1>1, LenProperties, ElementOfSeq
<1> HIDE DEF m
<1>3. /\ NewInstruction("YieldAssign") \in Instruction
      /\ NewInstruction("YieldAssign").isaName = "YieldAssign"
  BY NewInstructionType DEF IsaName
<1>4. \A i \in 1 .. m :
         /\ assign(i) \in Instruction
         /\ assign(i).isaName = "YieldAssign"
  BY <1>2, <1>3 DEF Instruction
<1> HIDE DEF assign
<1>5. code \in Seq(Instruction) /\ Len(code) = m /\ \A i \in 1 .. m : code[i] = assign(i)
  BY <1>2, <1>4
<1> HIDE DEF code
<1>6. \A n \in Nat : AllFit(code, n)
  BY <1>4, <1>5 DEF AllFit, Fits
<1>7. YieldAssigns(operands) = code
  BY DEF YieldAssigns, code, m, args, assign
<1> QED BY <1>5, <1>6, <1>7

LEMMA LoopEndType ==
    ASSUME TypeOK, open # <<>>, NEW operands \in Seq(Value)
    PROVE  /\ LoopEnd(operands) \in Seq(Instruction)
           /\ \A n \in Nat : Top.condPC <= n => AllFit(LoopEnd(operands), n)
<1> DEFINE inc  == [NewInstruction("ForIncrement") EXCEPT
                       !.forIV = Top.iv, !.forStep = Top.step]
           back == [NewInstruction("Jump") EXCEPT !.jumpTarget = Top.condPC]
<1>1. /\ NewInstruction("ForIncrement") \in Instruction
      /\ NewInstruction("ForIncrement").isaName = "ForIncrement"
      /\ NewInstruction("Jump") \in Instruction
      /\ NewInstruction("Jump").isaName = "Jump"
  BY NewInstructionType DEF IsaName
<1>2. /\ inc \in Instruction /\ inc.isaName = "ForIncrement"
      /\ back \in Instruction /\ back.isaName = "Jump" /\ back.jumpTarget = Top.condPC
  BY <1>1, TopType DEF Instruction
<1>3. LoopEnd(operands) = YieldAssigns(operands) \o <<inc, back>>
  BY DEF LoopEnd
<1> HIDE DEF inc, back
<1>4. \A n \in Nat : Top.condPC <= n => Fits(inc, n) /\ Fits(back, n)
  BY <1>2 DEF Fits
<1>5. /\ <<inc, back>> \in Seq(Instruction)
      /\ \A n \in Nat : Top.condPC <= n => AllFit(<<inc, back>>, n)
  BY <1>2, <1>4, TwoInstructions
<1> DEFINE tail == <<inc, back>>
<1> HIDE DEF tail
<1>6. tail \in Seq(Instruction) /\ \A n \in Nat : Top.condPC <= n => AllFit(tail, n)
  BY <1>5 DEF tail
<1>7. /\ YieldAssigns(operands) \o tail \in Seq(Instruction)
      /\ \A n \in Nat : Top.condPC <= n => AllFit(YieldAssigns(operands) \o tail, n)
  BY <1>6, YieldAssignsType, ConcatProperties, ConcatFits
<1> QED BY <1>3, <1>7 DEF tail

LEMMA IfYieldsType ==
    ASSUME TypeOK, open # <<>>, NEW operands \in Seq(Value)
    PROVE  /\ IfYields(operands) \in Seq(Instruction)
           /\ \A n \in Nat : AllFit(IfYields(operands), n)
<1> DEFINE last == IF Top.iterArgs = <<>> /\ operands # <<>>
                   THEN <<NewInstruction("IfYield")>> ELSE <<>>
<1>1. /\ NewInstruction("IfYield") \in Instruction
      /\ \A n \in Nat : Fits(NewInstruction("IfYield"), n)
  BY NewInstructionType DEF IsaName
<1>2. <<>> \in Seq(Instruction) /\ \A n \in Nat : AllFit(<<>>, n)
  BY EmptySeq DEF AllFit
<1>3. last \in Seq(Instruction) /\ \A n \in Nat : AllFit(last, n)
  BY <1>1, <1>2, OneInstruction
<1>4. IfYields(operands) = YieldAssigns(operands) \o last
  BY DEF IfYields
<1> HIDE DEF last
<1> QED BY <1>3, <1>4, YieldAssignsType, ConcatProperties, ConcatFits

LEMMA ElseEndType ==
    ASSUME TypeOK, open # <<>>, NEW operands \in Seq(Value)
    PROVE  /\ ElseEnd(operands) \in Seq(Instruction)
           /\ Len(ElseEnd(operands)) \in Nat \ {0}
           /\ \A n \in Nat : AllFit(ElseEnd(operands), n)
<1>1. /\ NewInstruction("Jump") \in Instruction
      /\ \A n \in Nat : Fits(NewInstruction("Jump"), n)
  BY NewInstructionType DEF IsaName
<1>2. /\ <<NewInstruction("Jump")>> \in Seq(Instruction)
      /\ Len(<<NewInstruction("Jump")>>) = 1
      /\ \A n \in Nat : AllFit(<<NewInstruction("Jump")>>, n)
  BY <1>1, OneInstruction
<1>3. Len(IfYields(operands)) \in Nat
  BY IfYieldsType, LenProperties
<1> DEFINE tail == <<NewInstruction("Jump")>>
<1> HIDE DEF tail
<1>4. /\ tail \in Seq(Instruction) /\ Len(tail) = 1
      /\ \A n \in Nat : AllFit(tail, n)
  BY <1>2 DEF tail
<1>5. IfYields(operands) \in Seq(Instruction)
  BY IfYieldsType
<1>6. /\ IfYields(operands) \o tail \in Seq(Instruction)
      /\ Len(IfYields(operands) \o tail) = Len(IfYields(operands)) + 1
  BY <1>4, <1>5, ConcatCode
<1>7. \A n \in Nat : AllFit(IfYields(operands) \o tail, n)
  BY <1>4, <1>5, IfYieldsType, ConcatFits
<1> QED BY <1>3, <1>6, <1>7 DEF ElseEnd, tail

-----------------------------------------------------------------------------
(***************************************************************************)
(* The program with some code added.                                       *)
(***************************************************************************)
LEMMA WithProperties ==
    ASSUME TypeOK, CounterIsSize, NEW isas \in Seq(Instruction)
    PROVE  /\ With(isas) \in Seq(Instruction)
           /\ Len(With(isas)) = Len(sequence) + Len(isas)
           /\ DensePCs(With(isas))
           /\ \A n \in Nat : AllFit(sequence, n) /\ AllFit(isas, n)
                               => AllFit(With(isas), n)
           /\ Len(isas) > 0 =>
                With(isas)[Len(With(isas))].isaName = isas[Len(isas)].isaName
           /\ \A i \in 1 .. Len(sequence) : With(isas)[i] = sequence[i]
           /\ \A i \in 1 .. Len(isas) :
                 With(isas)[Len(sequence) + i]
                    = [isas[i] EXCEPT !.pc = Len(sequence) + i - 1]
<1> DEFINE code == Numbered(isas)
           N == Len(sequence)
           m == Len(isas)
<1>1. /\ N \in Nat /\ m \in Nat /\ sequence \in Seq(Instruction)
      /\ DOMAIN isas = 1 .. m /\ nextPC = N
      /\ \A i \in 1 .. m : isas[i] \in Instruction
      /\ \A i \in 1 .. N : sequence[i].pc = i - 1
  <2>1. N \in Nat /\ DOMAIN sequence = 1 .. N /\ sequence \in Seq(Instruction)
    BY LenProperties DEF TypeOK
  <2>2. m \in Nat /\ DOMAIN isas = 1 .. m
    BY LenProperties
  <2>3. \A i \in 1 .. m : isas[i] \in Instruction
    BY ElementOfSeq
  <2> QED BY <2>1, <2>2, <2>3 DEF CounterIsSize, DensePCs
<1> HIDE DEF N, m
<1> DEFINE placed(i) == [isas[i] EXCEPT !.pc = N + i - 1]
<1>2. ASSUME NEW i \in 1 .. m
      PROVE  /\ placed(i) \in Instruction
             /\ placed(i).isaName = isas[i].isaName
             /\ placed(i).pc = N + i - 1
             /\ \A n : Fits(isas[i], n) => Fits(placed(i), n)
  <2>1. isas[i] \in Instruction /\ N + i - 1 \in Nat
    BY <1>1
  <2> DEFINE isa == isas[i]
             p == N + i - 1
  <2> HIDE DEF isa, p
  <2>2. isa \in Instruction /\ p \in Nat
    BY <2>1 DEF isa, p
  <2>3. LET r == [isa EXCEPT !.pc = p] IN
          /\ r \in Instruction
          /\ r.isaName = isa.isaName
          /\ r.pc = p
          /\ \A n : Fits(isa, n) => Fits(r, n)
    BY <2>2, SetPC
  <2> QED BY <2>3 DEF isa, p
<1>3. code = [i \in 1 .. m |-> placed(i)]
  BY <1>1 DEF Numbered
<1> HIDE DEF code, placed
<1>4. /\ code \in Seq(Instruction) /\ Len(code) = m
      /\ \A i \in 1 .. m : code[i] = placed(i)
  BY <1>1, <1>2, <1>3
<1>5. /\ With(isas) \in Seq(Instruction)
      /\ Len(With(isas)) = N + m
      /\ \A i \in 1 .. N + m :
            With(isas)[i] = IF i <= N THEN sequence[i] ELSE code[i - N]
  <2>1. With(isas) = sequence \o code
    BY DEF With, code
  <2>2. Len(sequence) = N /\ Len(code) = m
    BY <1>4 DEF N
  <2>3. /\ sequence \o code \in Seq(Instruction)
        /\ Len(sequence \o code) = Len(sequence) + Len(code)
        /\ \A i \in 1 .. Len(sequence) + Len(code) :
              (sequence \o code)[i]
                 = IF i <= Len(sequence) THEN sequence[i] ELSE code[i - Len(sequence)]
    BY <1>1, <1>4, ConcatCode, Zenon
  <2> QED BY <2>1, <2>2, <2>3
<1>6. DensePCs(With(isas))
  <2> SUFFICES ASSUME NEW i \in 1 .. N + m
               PROVE  With(isas)[i].pc = i - 1
    BY <1>5, LenProperties DEF DensePCs
  <2>1. CASE i <= N
    BY <1>1, <1>5, <2>1
  <2>2. CASE ~ (i <= N)
    <3>1. i - N \in 1 .. m
      BY <1>1, <2>2
    <3>2. code[i - N].pc = N + (i - N) - 1
      BY <3>1, <1>2, <1>4
    <3> QED BY <1>1, <1>5, <2>2, <3>2
  <2> QED BY <2>1, <2>2
<1>7. ASSUME NEW n \in Nat, AllFit(sequence, n), AllFit(isas, n)
      PROVE  AllFit(With(isas), n)
  <2>1. AllFit(code, n)
    BY <1>2, <1>4, <1>7 DEF AllFit, m
  <2>2. With(isas) = sequence \o code
    BY DEF With, code
  <2> QED BY <1>1, <1>4, <1>7, <2>1, <2>2, ConcatFits
<1>8. ASSUME m > 0
      PROVE  With(isas)[N + m].isaName = isas[m].isaName
  <2>1. m \in 1 .. m /\ N + m \in 1 .. N + m /\ ~ (N + m <= N) /\ N + m - N = m
    BY <1>1, <1>8
  <2>2. With(isas)[N + m] = code[m]
    BY <1>1, <2>1, <1>5
  <2>3. code[m] = placed(m) /\ placed(m).isaName = isas[m].isaName
    BY <2>1, <1>2, <1>4
  <2> QED BY <2>2, <2>3
<1>9. \A i \in 1 .. N : With(isas)[i] = sequence[i]
  BY <1>1, <1>5
<1>10. \A i \in 1 .. m : With(isas)[N + i] = placed(i)
  <2> TAKE i \in 1 .. m
  <2>1. N + i \in 1 .. N + m /\ ~ (N + i <= N) /\ N + i - N = i
    BY <1>1
  <2>2. code[i] = placed(i)
    BY <1>4
  <2>3. With(isas)[N + i] = code[N + i - N]
    BY <1>1, <2>1, <1>5
  <2>4. code[N + i - N] = code[i]
    BY <2>1, Zenon
  <2> QED BY <2>2, <2>3, <2>4, Zenon
<1>11. \A i \in 1 .. Len(isas) :
          With(isas)[Len(sequence) + i]
             = [isas[i] EXCEPT !.pc = Len(sequence) + i - 1]
  BY <1>10 DEF N, m, placed
<1>12. \A i \in 1 .. Len(sequence) : With(isas)[i] = sequence[i]
  BY <1>9 DEF N
<1>13. Len(isas) > 0 =>
          With(isas)[Len(With(isas))].isaName = isas[Len(isas)].isaName
  BY <1>5, <1>8 DEF N, m
<1>14. Len(With(isas)) = Len(sequence) + Len(isas)
  BY <1>5 DEF N, m
<1> QED BY <1>5, <1>6, <1>7, <1>11, <1>12, <1>13, <1>14

\* Fitting survives a larger bound and a change of targets that fit.
LEMMA FitsMore ==
    ASSUME NEW seq \in Seq(Instruction), NEW m \in Nat, NEW n \in Nat,
           m <= n, AllFit(seq, m)
    PROVE  AllFit(seq, n)
<1> SUFFICES ASSUME NEW i \in 1 .. Len(seq)
             PROVE  Fits(seq[i], n)
  BY DEF AllFit
<1>1. seq[i] \in Instruction /\ Fits(seq[i], m)
  BY ElementOfSeq DEF AllFit
<1>2. seq[i].jumpTarget \in Nat /\ seq[i].fallthroughPC \in Nat
  BY <1>1 DEF Instruction
<1> QED BY <1>1, <1>2 DEF Fits

LEMMA PatchedFits ==
    ASSUME NEW s \in Seq(Instruction), NEW t \in Seq(Instruction),
           NEW n \in Nat, NEW extra, \A e \in extra : e <= n,
           SameShape(s, t), TargetsFrom(s, t, extra)
    PROVE  /\ AllFit(t, n) => AllFit(s, n)
           /\ DensePCs(t) => DensePCs(s)
<1>1. DOMAIN s = 1 .. Len(s) /\ DOMAIN t = 1 .. Len(t) /\ Len(s) = Len(t)
  BY LenProperties DEF SameShape
<1>2. ASSUME AllFit(t, n)
      PROVE  AllFit(s, n)
  BY <1>1, <1>2 DEF SameShape, TargetsFrom, AllFit, Fits
<1>3. ASSUME DensePCs(t)
      PROVE  DensePCs(s)
  BY <1>1, <1>3 DEF SameShape, DensePCs
<1> QED BY <1>2, <1>3

-----------------------------------------------------------------------------
(***************************************************************************)
(* The steps of the proof that IInv is inductive: what happens to the      *)
(* program, and what happens to the open constructs.                       *)
(***************************************************************************)
\* The program does not shrink.
Grows == sequence' \in Seq(Instruction) /\ Len(sequence) <= Len(sequence')

LEMMA EmitStep ==
    ASSUME IInv, NEW isas \in Seq(Instruction), AllFit(isas, Len(sequence)),
           Emit(isas)
    PROVE  /\ sequence' \in Seq(Instruction) /\ nextPC' \in Nat
           /\ Len(sequence') = Len(sequence) + Len(isas)
           /\ Len(isas) \in Nat /\ Len(sequence) \in Nat
           /\ CounterIsSize'
           /\ AllFit(sequence', Len(sequence))
           /\ AllFit(sequence', Len(sequence'))
           /\ Len(isas) > 0 =>
                sequence'[Len(sequence')].isaName = isas[Len(isas)].isaName
           /\ Grows
<1> USE DEF IInv
<1>1. /\ Len(sequence) \in Nat /\ Len(isas) \in Nat
      /\ nextPC = Len(sequence)
      /\ sequence' = With(isas) /\ nextPC' = nextPC + Len(isas)
  BY LenProperties DEF TypeOK, CounterIsSize, Emit
<1>2. /\ With(isas) \in Seq(Instruction)
      /\ Len(With(isas)) = Len(sequence) + Len(isas)
      /\ DensePCs(With(isas))
      /\ AllFit(With(isas), Len(sequence))
      /\ Len(isas) > 0 =>
           With(isas)[Len(With(isas))].isaName = isas[Len(isas)].isaName
  BY <1>1, WithProperties
<1>3. AllFit(With(isas), Len(sequence) + Len(isas))
  BY <1>1, <1>2, FitsMore
<1>4. Len(sequence) <= Len(sequence) + Len(isas)
  BY <1>1
<1> QED BY <1>1, <1>2, <1>3, <1>4 DEF CounterIsSize, Grows

LEMMA OpenType ==
    ASSUME IInv
    PROVE  /\ Len(open) \in Nat /\ Len(sequence) \in Nat
           /\ open \in Seq(Frame)
           /\ \A i \in 1 .. Len(open) :
                 open[i] \in Frame /\ open[i].condPC \in Nat /\ open[i].elsePC \in Nat
<1>1. open \in Seq(Frame) /\ sequence \in Seq(Instruction)
  BY DEF IInv, TypeOK
<1>2. /\ Len(open) \in Nat /\ Len(sequence) \in Nat
      /\ \A i \in 1 .. Len(open) : open[i] \in Frame
  BY <1>1, LenProperties, ElementOfSeq
<1> QED BY <1>1, <1>2 DEF Frame

LEMMA SameFrames ==
    ASSUME IInv, Grows, open' = open
    PROVE  open' \in Seq(Frame) /\ FramesFit'
<1>1. Len(sequence') \in Nat
  BY LenProperties DEF Grows
<1> QED BY <1>1, OpenType DEF Grows, IInv, FramesFit

LEMMA PushFrames ==
    ASSUME IInv, Grows, open # <<>>, NEW frame \in Frame,
           open' = Append(open, frame), frame.part # "func",
           frame.condPC + 1 <= Len(sequence'), frame.elsePC <= Len(sequence')
    PROVE  open' \in Seq(Frame) /\ FramesFit' /\ open' # <<>>
<1>1. Len(sequence') \in Nat
  BY LenProperties DEF Grows
<1>2. Len(open) \in Nat \ {0}
  BY OpenType, EmptySeq
<1>3. /\ open' \in Seq(Frame)
      /\ Len(open') = Len(open) + 1
      /\ \A i \in 1 .. Len(open) : open'[i] = open[i]
      /\ open'[Len(open) + 1] = frame
  BY OpenType, AppendProperties
<1>4. \A i \in 1 .. Len(open') : i \in 1 .. Len(open) \/ i = Len(open) + 1
  BY <1>2, <1>3
<1>5. open' # <<>>
  BY <1>2, <1>3, EmptySeq
<1> QED BY <1>1, <1>2, <1>3, <1>4, <1>5, OpenType DEF Grows, IInv, FramesFit

LEMMA PopFrames ==
    ASSUME IInv, Grows, open # <<>>, open' = Pop
    PROVE  /\ open' \in Seq(Frame) /\ FramesFit'
           /\ Top.part # "func" => open' # <<>>
<1>1. Len(sequence') \in Nat
  BY LenProperties DEF Grows
<1>2. /\ Len(open) \in Nat \ {0}
      /\ open' \in Seq(Frame)
      /\ Len(open') = Len(open) - 1
      /\ \A i \in 1 .. Len(open) - 1 : open'[i] = open[i]
  BY TopType DEF IInv
<1>3. open' # <<>> => 1 \in 1 .. Len(open) - 1
  BY <1>2, EmptySeq
<1>4. Top.part # "func" => open' # <<>>
  <2> SUFFICES ASSUME open' = <<>>
               PROVE  Top.part = "func"
    OBVIOUS
  <2>1. Len(open) = 1
    BY <1>2, EmptySeq
  <2> QED BY <2>1 DEF Top, IInv, FramesFit
<1>5. \A i \in 1 .. Len(open') : open'[i] = open[i] /\ i \in 1 .. Len(open)
  BY <1>2
<1> QED BY <1>1, <1>2, <1>3, <1>4, <1>5, OpenType DEF Grows, IInv, FramesFit

LEMMA ElseFrames ==
    ASSUME IInv, Grows, open # <<>>, Top.part = "then",
           open' = [open EXCEPT ![Len(open)] =
                       [@ EXCEPT !.part = "else", !.elsePC = Len(sequence')]]
    PROVE  open' \in Seq(Frame) /\ FramesFit' /\ open' # <<>>
<1> DEFINE n == Len(open)
           frame == [open[n] EXCEPT !.part = "else", !.elsePC = Len(sequence')]
<1>1. Len(sequence') \in Nat
  BY LenProperties DEF Grows
<1>2. n \in 1 .. n /\ open[n] \in Frame /\ open[n].part = "then"
  BY TopType DEF Top, IInv
<1>3. frame \in Frame /\ frame.part = "else" /\ frame.elsePC = Len(sequence')
      /\ frame.condPC = open[n].condPC
  BY <1>1, <1>2 DEF Frame
<1>4. open' = [open EXCEPT ![n] = frame]
  OBVIOUS
<1> HIDE DEF frame
<1>5. /\ open' \in Seq(Frame)
      /\ Len(open') = n
      /\ \A i \in 1 .. n : open'[i] = IF i = n THEN frame ELSE open[i]
  BY <1>2, <1>3, <1>4, OpenType, ExceptSeq
<1>6. open' # <<>> /\ open[1].part = "func" /\ n # 1 /\ 1 \in 1 .. n
  BY <1>2, <1>5, OpenType, EmptySeq DEF IInv, FramesFit
<1> HIDE DEF n
<1>7. /\ n \in Nat
      /\ \A i \in 1 .. n :
            /\ open[i].condPC \in Nat /\ open[i].elsePC \in Nat
            /\ open[i].elsePC <= Len(sequence)
            /\ open[i].part # "func" => open[i].condPC + 1 <= Len(sequence)
  BY OpenType DEF IInv, FramesFit, n
<1>8. \A i \in 1 .. n :
         /\ open'[i].elsePC <= Len(sequence')
         /\ open'[i].part # "func" => open'[i].condPC + 1 <= Len(sequence')
  <2>0. Len(sequence) \in Nat /\ Len(sequence) <= Len(sequence')
    BY OpenType DEF Grows
  <2> DEFINE c == open[n].condPC
             size == Len(sequence)
             grown == Len(sequence')
  <2>a. /\ c \in Nat /\ size \in Nat /\ grown \in Nat
        /\ c + 1 <= size /\ size <= grown
        /\ frame.elsePC = grown /\ frame.condPC = c
    <3>1. n \in 1 .. n /\ open[n].part # "func"
      BY <1>2
    <3> QED BY <2>0, <3>1, <1>1, <1>3, <1>7
  <2>b. frame.elsePC <= grown /\ frame.condPC + 1 <= grown
    <3> HIDE DEF c, size, grown
    <3> QED BY <2>a
  <2>1. /\ frame.elsePC <= Len(sequence')
        /\ frame.condPC + 1 <= Len(sequence')
    BY <2>b
  <2>2. ASSUME NEW i \in 1 .. n, i # n
        PROVE  /\ open[i].elsePC <= Len(sequence')
               /\ open[i].part # "func" => open[i].condPC + 1 <= Len(sequence')
    BY <2>0, <2>2, <1>1, <1>7
  <2> SUFFICES ASSUME NEW i \in 1 .. n
               PROVE  /\ open'[i].elsePC <= Len(sequence')
                      /\ open'[i].part # "func" => open'[i].condPC + 1 <= Len(sequence')
    OBVIOUS
  <2>3. CASE i = n
    BY <2>1, <2>3, <1>5
  <2>4. CASE i # n
    BY <2>2, <2>4, <1>5
  <2> QED BY <2>3, <2>4
<1> QED BY <1>5, <1>6, <1>8 DEF FramesFit

LEMMA FuncFrameType ==
    ASSUME NEW entry \in Nat
    PROVE  LET frame == FuncFrame(entry) IN
           /\ frame \in Frame
           /\ frame.part = "func" /\ frame.condPC = entry /\ frame.elsePC = 0
<1>1. (CHOOSE v \in Value : TRUE) \in Value
  BY ValueAssumption
<1>2. <<>> \in Seq(Value)
  BY EmptySeq
<1> QED BY <1>1, <1>2 DEF FuncFrame, Frame

-----------------------------------------------------------------------------
LEMMA CloseStep ==
    ASSUME IInv, InPart("body") \/ InPart("then") \/ InPart("else"),
           NEW kind \in {"for", "if"}, NEW code \in Seq(Instruction),
           NEW falsePC \in Nat, NEW end \in Nat,
           end = Len(code), Len(sequence) <= end, falsePC <= end,
           DensePCs(code), AllFit(code, end),
           Close(kind, code, falsePC, end)
    PROVE  IInv'
<1>1. /\ open # <<>> /\ Top.part # "func"
      /\ Top.condPC \in Nat /\ Top.condPC + 1 <= end
  <2>1. open # <<>> /\ Top.part # "func"
    BY DEF InPart
  <2>2. Len(open) \in 1 .. Len(open) /\ Top = open[Len(open)] /\ Top.condPC \in Nat
    BY <2>1, TopType DEF Top, IInv
  <2> QED BY <2>1, <2>2, OpenType DEF IInv, FramesFit
<1>2. sequence' = UpdateConditionalJump(code, Top.condPC, Top.condPC + 1, falsePC)
  BY DEF Close
<1>3. /\ sequence' \in Seq(Instruction)
      /\ SameShape(sequence', code)
      /\ TargetsFrom(sequence', code, {Top.condPC + 1, falsePC})
  BY <1>1, <1>2, UpdateConditionalJumpProperties
<1>4. /\ Len(sequence') = end
      /\ AllFit(sequence', end)
      /\ DensePCs(sequence')
  <2>1. \A e \in {Top.condPC + 1, falsePC} : e <= end
    BY <1>1
  <2> QED BY <1>3, <2>1, PatchedFits DEF SameShape
<1>5. CounterIsSize' /\ AllFit(sequence', Len(sequence'))
  BY <1>4 DEF Close, CounterIsSize
<1>6. open' \in Seq(Frame) /\ FramesFit' /\ open' # <<>>
  BY <1>1, <1>3, <1>4, PopFrames DEF Grows, Close
<1>7. TypeOK'
  <2>1. [kind |-> kind, condPC |-> Top.condPC, elsePC |-> falsePC, endPC |-> end]
           \in Construct
    BY <1>1 DEF Construct
  <2> QED BY <1>3, <1>6, <2>1 DEF Close, TypeOK, IInv
<1> QED BY <1>5, <1>6, <1>7 DEF IInv, Finished

\* A step that emits code, keeps the histories of functions and constructs,
\* and stays inside a function.
LEMMA EmitInside ==
    ASSUME IInv, NEW isas \in Seq(Instruction), AllFit(isas, Len(sequence)),
           Emit(isas), UNCHANGED <<entries, closed>>,
           calls' \subseteq [callee : Functions \cup Externals, pc : Nat],
           open' \in Seq(Frame), FramesFit', open' # <<>>
    PROVE  IInv'
<1>1. /\ sequence' \in Seq(Instruction) /\ nextPC' \in Nat
      /\ CounterIsSize' /\ AllFit(sequence', Len(sequence'))
  BY EmitStep
<1>2. TypeOK'
  BY <1>1 DEF TypeOK, IInv
<1> QED BY <1>1, <1>2 DEF IInv, Finished

LEMMA FlattenFuncOpStep ==
    ASSUME IInv, NEW function \in Functions, FlattenFuncOp(function)
    PROVE  IInv'
<1>1. nextPC \in Nat
  BY DEF IInv, TypeOK
<1> DEFINE frame == FuncFrame(nextPC)
<1>2. frame \in Frame /\ frame.part = "func" /\ frame.elsePC = 0
  BY <1>1, FuncFrameType
<1>3. open' = <<frame>> /\ sequence' = sequence
  BY DEF FlattenFuncOp
<1> HIDE DEF frame
<1>4. open' \in Seq(Frame) /\ Len(open') = 1 /\ open'[1] = frame /\ open' # <<>>
  BY <1>2, <1>3
<1>5. Len(sequence) \in Nat
  BY OpenType
<1>6. FramesFit'
  BY <1>2, <1>3, <1>4, <1>5 DEF FramesFit
<1>7. TypeOK'
  BY <1>1, <1>4 DEF FlattenFuncOp, TypeOK, IInv
<1> QED BY <1>4, <1>6, <1>7 DEF FlattenFuncOp, IInv, CounterIsSize, Finished

LEMMA AddNormalOpStep ==
    ASSUME IInv, NEW op \in Ops, AddNormalOp(op)
    PROVE  IInv'
<1>1. op \in Instruction /\ op.isaName = "Operation"
  BY InputsAssumption
<1>2. Fits(op, Len(sequence))
  BY <1>1 DEF Fits
<1>3. <<op>> \in Seq(Instruction) /\ AllFit(<<op>>, Len(sequence)) /\ Emit(<<op>>)
  BY <1>1, <1>2, OneInstruction DEF AddNormalOp
<1>4. Grows
  <2> DEFINE isas == <<op>>
  <2>1. isas \in Seq(Instruction) /\ AllFit(isas, Len(sequence)) /\ Emit(isas)
    BY <1>3
  <2> HIDE DEF isas
  <2> QED BY <2>1, EmitStep
<1>5. open' \in Seq(Frame) /\ FramesFit' /\ open' # <<>>
  BY <1>4, SameFrames DEF AddNormalOp, Reading
<1> QED BY <1>3, <1>5, EmitInside DEF AddNormalOp, IInv, TypeOK

LEMMA AddCallStep ==
    ASSUME IInv, NEW callee \in Functions \cup Externals, AddCall(callee)
    PROVE  IInv'
<1> DEFINE call == FuncCall(callee)
<1>0. Len(sequence) \in Nat /\ nextPC \in Nat
  BY OpenType DEF IInv, TypeOK
<1>1. /\ NewInstruction("FuncCall") \in Instruction
      /\ NewInstruction("FuncCall").isaName = "FuncCall"
      /\ \A n \in Nat : Fits(NewInstruction("FuncCall"), n)
  BY NewInstructionType DEF IsaName
<1>2. call \in Instruction /\ Fits(call, Len(sequence))
  <2>1. CASE callee \in Externals
    <3> DEFINE info == ExternalInfo[callee]
    <3>1. info.unit \in ExecutionUnitType /\ info.latency \in Nat
      BY <2>1, InputsAssumption
    <3>2. call = [NewInstruction("FuncCall") EXCEPT
                    !.isExternal = TRUE, !.targetUnit = info.unit,
                    !.latency = info.latency]
      BY <2>1 DEF FuncCall
    <3> HIDE DEF info, call
    <3>3. call \in Instruction /\ call.isaName = "FuncCall" /\ call.isExternal
      BY <1>1, <3>1, <3>2 DEF Instruction
    <3> QED BY <3>3 DEF Fits
  <2>2. CASE callee \notin Externals
    <3>1. call = [NewInstruction("FuncCall") EXCEPT !.latency = 5]
      BY <2>2 DEF FuncCall
    <3> HIDE DEF call
    <3>2. /\ call \in Instruction /\ call.isaName = "FuncCall"
          /\ call.jumpTarget = NewInstruction("FuncCall").jumpTarget
          /\ call.isExternal = NewInstruction("FuncCall").isExternal
      BY <1>1, <3>1 DEF Instruction
    <3> QED BY <1>0, <1>1, <3>2 DEF Fits
  <2> QED BY <2>1, <2>2
<1>3. <<call>> \in Seq(Instruction) /\ AllFit(<<call>>, Len(sequence)) /\ Emit(<<call>>)
  <2>1. Emit(<<call>>)
    BY DEF AddCall
  <2> HIDE DEF call
  <2> QED BY <1>2, <2>1, OneInstruction
<1> HIDE DEF call
<1>4. Grows
  <2> DEFINE isas == <<call>>
  <2>1. isas \in Seq(Instruction) /\ AllFit(isas, Len(sequence)) /\ Emit(isas)
    BY <1>3
  <2> HIDE DEF isas
  <2> QED BY <2>1, EmitStep
<1>5. open' \in Seq(Frame) /\ FramesFit' /\ open' # <<>>
  BY <1>4, SameFrames DEF AddCall, Reading
<1>6. calls' \subseteq [callee : Functions \cup Externals, pc : Nat]
  BY <1>0 DEF AddCall, IInv, TypeOK
<1> QED BY <1>3, <1>5, <1>6, EmitInside DEF AddCall

LEMMA AddReturnStep ==
    ASSUME IInv, AddReturn
    PROVE  IInv'
<1> DEFINE isa == NewInstruction("FuncReturn")
<1>0. Len(sequence) \in Nat
  BY OpenType
<1>1. /\ isa \in Instruction /\ isa.isaName = "FuncReturn" /\ Fits(isa, Len(sequence))
  BY <1>0, NewInstructionType DEF IsaName
<1>2. Emit(<<isa>>)
  BY DEF AddReturn
<1> HIDE DEF isa
<1>3. /\ <<isa>> \in Seq(Instruction) /\ AllFit(<<isa>>, Len(sequence))
      /\ Len(<<isa>>) = 1 /\ <<isa>>[1] = isa
  BY <1>1, OneInstruction
<1>4. /\ sequence' \in Seq(Instruction) /\ nextPC' \in Nat
      /\ Len(sequence') = Len(sequence) + 1
      /\ CounterIsSize' /\ AllFit(sequence', Len(sequence))
      /\ AllFit(sequence', Len(sequence'))
      /\ sequence'[Len(sequence')].isaName = "FuncReturn"
      /\ Grows
  <2> DEFINE isas == <<isa>>
  <2>1. /\ isas \in Seq(Instruction) /\ AllFit(isas, Len(sequence)) /\ Emit(isas)
        /\ Len(isas) = 1 /\ isas[1].isaName = "FuncReturn"
    BY <1>1, <1>2, <1>3
  <2> HIDE DEF isas
  <2>2. /\ sequence' \in Seq(Instruction) /\ nextPC' \in Nat
        /\ Len(sequence') = Len(sequence) + Len(isas)
        /\ CounterIsSize' /\ AllFit(sequence', Len(sequence))
        /\ AllFit(sequence', Len(sequence'))
        /\ Len(isas) > 0 =>
             sequence'[Len(sequence')].isaName = isas[Len(isas)].isaName
        /\ Grows
    BY <2>1, EmitStep
  <2>3. sequence'[Len(sequence')].isaName = "FuncReturn"
    BY <2>1, <2>2
  <2> QED BY <2>1, <2>2, <2>3
<1>5. open' \in Seq(Frame) /\ FramesFit'
  BY <1>4, PopFrames DEF AddReturn, InPart
<1>6. TypeOK'
  BY <1>4, <1>5 DEF AddReturn, TypeOK, IInv
<1>7. Len(sequence') - 1 = Len(sequence)
  BY <1>0, <1>4
<1> QED BY <1>4, <1>5, <1>6, <1>7 DEF IInv, Finished

LEMMA BeginForStep ==
    ASSUME IInv, NEW loop \in Loops, BeginFor(loop)
    PROVE  IInv'
<1> DEFINE init  == ForInit(loop)
           cond  == ForCondition(loop)
           isas  == <<init, cond>>
           frame == BodyFrame(loop)
<1>0. Len(sequence) \in Nat /\ nextPC = Len(sequence)
  BY OpenType DEF IInv, CounterIsSize
<1>1. /\ loop.iv \in Value /\ loop.lb \in Value /\ loop.ub \in Value
      /\ loop.step \in Value
      /\ loop.iterArgs \in Seq(Value) /\ loop.iterArgInits \in Seq(Value)
  BY InputsAssumption DEF LoopHeader
<1>2. init \in Instruction /\ Fits(init, Len(sequence))
  <2>1. NewInstruction("ForInit") \in Instruction /\ NewInstruction("ForInit").isaName = "ForInit"
    BY NewInstructionType DEF IsaName
  <2>2. init \in Instruction /\ init.isaName = "ForInit"
    BY <1>1, <2>1 DEF ForInit, Instruction
  <2> HIDE DEF init
  <2> QED BY <2>2 DEF Fits
<1>3. cond \in Instruction /\ Fits(cond, Len(sequence))
  <2> DEFINE new == NewInstruction("ForCondition")
  <2>1. new \in Instruction /\ new.isaName = "ForCondition" /\ Fits(new, Len(sequence))
    BY <1>0, NewInstructionType DEF IsaName
  <2>2. cond = [new EXCEPT !.forIV = loop.iv, !.forUB = loop.ub, !.forStep = loop.step]
    BY DEF ForCondition
  <2> HIDE DEF new, cond
  <2>3. /\ cond \in Instruction /\ cond.isaName = "ForCondition"
        /\ cond.jumpTarget = new.jumpTarget /\ cond.fallthroughPC = new.fallthroughPC
    BY <1>1, <2>1, <2>2 DEF Instruction
  <2> QED BY <2>1, <2>3 DEF Fits
<1>4. isas \in Seq(Instruction) /\ Len(isas) = 2 /\ AllFit(isas, Len(sequence))
  <2> HIDE DEF init, cond
  <2> QED BY <1>2, <1>3, TwoInstructions
<1>5. Emit(isas) /\ open' = Append(open, frame) /\ open # <<>>
      /\ UNCHANGED <<entries, calls, closed>>
  BY DEF BeginFor, Reading
<1> HIDE DEF isas
<1>6. Grows /\ Len(sequence') = Len(sequence) + 2
  BY <1>4, <1>5, EmitStep
<1>7. /\ frame \in Frame /\ frame.part = "body"
      /\ frame.condPC = Len(sequence) + 1 /\ frame.elsePC = 0
  <2> DEFINE new == FuncFrame(nextPC + 1)
  <2>1. /\ new \in Frame /\ new.condPC = nextPC + 1 /\ new.elsePC = 0
    BY <1>0, FuncFrameType
  <2>2. frame = [new EXCEPT !.part = "body", !.iv = loop.iv, !.step = loop.step,
                            !.iterArgs = loop.iterArgs]
    BY DEF BodyFrame
  <2> HIDE DEF new, frame
  <2> QED BY <1>0, <1>1, <2>1, <2>2 DEF Frame
<1> HIDE DEF frame
<1>8. frame.condPC + 1 <= Len(sequence') /\ frame.elsePC <= Len(sequence')
  BY <1>0, <1>6, <1>7
<1>9. open' \in Seq(Frame) /\ FramesFit' /\ open' # <<>>
  BY <1>5, <1>6, <1>7, <1>8, PushFrames
<1> QED BY <1>4, <1>5, <1>9, EmitInside DEF IInv, TypeOK

LEMMA BeginIfStep ==
    ASSUME IInv, NEW condition \in Conditions, NEW hasElse \in BOOLEAN,
           NEW results \in Nat, BeginIf(condition, hasElse, results)
    PROVE  IInv'
<1> DEFINE cond  == [NewInstruction("IfCondition") EXCEPT !.condition = condition]
           isas  == <<cond>>
           frame == [FuncFrame(nextPC) EXCEPT
                        !.part = "then", !.hasElse = hasElse,
                        !.results = results, !.iterArgs = Top.iterArgs]
<1>0. Len(sequence) \in Nat /\ nextPC = Len(sequence)
  BY OpenType DEF IInv, CounterIsSize
<1>1. cond \in Instruction /\ Fits(cond, Len(sequence))
  <2> DEFINE new == NewInstruction("IfCondition")
  <2>1. new \in Instruction /\ new.isaName = "IfCondition" /\ Fits(new, Len(sequence))
    BY <1>0, NewInstructionType DEF IsaName
  <2>2. cond = [new EXCEPT !.condition = condition] /\ condition \in Value
    BY InputsAssumption
  <2> HIDE DEF new, cond
  <2>3. /\ cond \in Instruction /\ cond.isaName = "IfCondition"
        /\ cond.jumpTarget = new.jumpTarget /\ cond.fallthroughPC = new.fallthroughPC
    BY <2>1, <2>2 DEF Instruction
  <2> QED BY <2>1, <2>3 DEF Fits
<1>2. isas \in Seq(Instruction) /\ Len(isas) = 1 /\ AllFit(isas, Len(sequence))
  <2> HIDE DEF cond
  <2> QED BY <1>1, OneInstruction
<1>3. Emit(isas) /\ open' = Append(open, frame) /\ open # <<>>
      /\ UNCHANGED <<entries, calls, closed>>
  BY DEF BeginIf, Reading
<1> HIDE DEF isas
<1>4. Grows /\ Len(sequence') = Len(sequence) + 1
  BY <1>2, <1>3, EmitStep
<1>5. /\ frame \in Frame /\ frame.part = "then"
      /\ frame.condPC = Len(sequence) /\ frame.elsePC = 0
  <2> DEFINE new == FuncFrame(nextPC)
  <2>1. /\ new \in Frame /\ new.condPC = nextPC /\ new.elsePC = 0
    BY <1>0, FuncFrameType
  <2>2. Top.iterArgs \in Seq(Value)
    BY <1>3, TopType DEF IInv
  <2>3. frame = [new EXCEPT !.part = "then", !.hasElse = hasElse,
                            !.results = results, !.iterArgs = Top.iterArgs]
    OBVIOUS
  <2> HIDE DEF new, frame
  <2> QED BY <1>0, <2>1, <2>2, <2>3 DEF Frame
<1> HIDE DEF frame
<1>6. frame.condPC + 1 <= Len(sequence') /\ frame.elsePC <= Len(sequence')
  BY <1>0, <1>4, <1>5
<1>7. open' \in Seq(Frame) /\ FramesFit' /\ open' # <<>>
  BY <1>3, <1>4, <1>5, <1>6, PushFrames
<1> QED BY <1>2, <1>3, <1>7, EmitInside DEF IInv, TypeOK

LEMMA EndThenStep ==
    ASSUME IInv, NEW operands \in Seq(Value), EndThen(operands)
    PROVE  IInv'
<1> DEFINE isas == IfYields(operands)
<1>0. Len(sequence) \in Nat /\ nextPC = Len(sequence)
  BY OpenType DEF IInv, CounterIsSize
<1>1. open # <<>> /\ Top.part = "then" /\ Emit(isas)
      /\ UNCHANGED <<entries, calls, closed>>
      /\ open' = [open EXCEPT ![Len(open)] =
                     [@ EXCEPT !.part = "else", !.elsePC = nextPC + Len(isas)]]
  BY DEF EndThen, InPart
<1>2. isas \in Seq(Instruction) /\ AllFit(isas, Len(sequence))
  BY <1>0, <1>1, IfYieldsType DEF IInv
<1> HIDE DEF isas
<1>3. Grows /\ Len(sequence') = nextPC + Len(isas)
  BY <1>0, <1>1, <1>2, EmitStep
<1>4. open' \in Seq(Frame) /\ FramesFit' /\ open' # <<>>
  BY <1>1, <1>3, ElseFrames
<1> QED BY <1>1, <1>2, <1>4, EmitInside DEF IInv, TypeOK

LEMMA EndForStep ==
    ASSUME IInv, NEW operands \in Seq(Value), EndFor(operands)
    PROVE  IInv'
<1> DEFINE isas == LoopEnd(operands)
           code == With(isas)
           end  == nextPC + Len(isas)
<1>0. Len(sequence) \in Nat /\ nextPC = Len(sequence)
  BY OpenType DEF IInv, CounterIsSize
<1>1. open # <<>> /\ InPart("body") /\ Close("for", code, end, end)
  BY DEF EndFor, InPart
<1>2. /\ isas \in Seq(Instruction) /\ Len(isas) \in Nat
      /\ Top.condPC \in Nat
      /\ \A n \in Nat : Top.condPC <= n => AllFit(isas, n)
  BY <1>1, LoopEndType, TopType, LenProperties DEF IInv
<1>3. Top.condPC <= Len(sequence)
  <2>1. Len(open) \in 1 .. Len(open) /\ Top = open[Len(open)] /\ Top.part # "func"
    BY <1>1, TopType DEF Top, IInv, InPart
  <2> QED BY <1>0, <1>2, <2>1, OpenType DEF IInv, FramesFit
<1>4. AllFit(isas, Len(sequence))
  BY <1>0, <1>2, <1>3
<1> HIDE DEF isas
<1>5. /\ code \in Seq(Instruction)
      /\ Len(code) = end /\ end \in Nat /\ Len(sequence) <= end
      /\ DensePCs(code)
      /\ AllFit(code, Len(sequence))
  BY <1>0, <1>2, <1>4, WithProperties DEF IInv
<1>6. AllFit(code, end)
  <2> HIDE DEF code, end
  <2> QED BY <1>0, <1>5, FitsMore
<1> HIDE DEF code, end
<1> QED BY <1>1, <1>5, <1>6, CloseStep

LEMMA EndIfStep ==
    ASSUME IInv, EndIf
    PROVE  IInv'
<1>1. /\ Len(sequence) \in Nat /\ nextPC = Len(sequence)
      /\ sequence \in Seq(Instruction) /\ DensePCs(sequence)
      /\ AllFit(sequence, nextPC)
  BY OpenType DEF IInv, CounterIsSize, TypeOK
<1>2. InPart("then") /\ Close("if", sequence, nextPC, nextPC)
  BY DEF EndIf
<1> QED BY <1>1, <1>2, CloseStep

LEMMA EndElseStep ==
    ASSUME IInv, NEW operands \in Seq(Value), EndElse(operands)
    PROVE  IInv'
<1> DEFINE isas == ElseEnd(operands)
           end  == nextPC + Len(isas)
           base == With(isas)
           code == UpdateJumpTarget(base, end - 1, end)
<1>0. Len(sequence) \in Nat /\ nextPC = Len(sequence)
  BY OpenType DEF IInv, CounterIsSize
<1>1. open # <<>> /\ InPart("else") /\ Close("if", code, Top.elsePC, end)
  BY DEF EndElse, InPart
<1>2. /\ isas \in Seq(Instruction) /\ Len(isas) \in Nat \ {0}
      /\ AllFit(isas, Len(sequence))
      /\ Top.elsePC \in Nat
  BY <1>0, <1>1, ElseEndType, TopType DEF IInv
<1>3. Top.elsePC <= Len(sequence)
  <2>1. Len(open) \in 1 .. Len(open) /\ Top = open[Len(open)]
    BY <1>1, TopType DEF Top, IInv
  <2> QED BY <2>1 DEF IInv, FramesFit
<1> HIDE DEF isas
<1>4. /\ base \in Seq(Instruction)
      /\ Len(base) = end /\ end \in Nat /\ end - 1 \in Nat /\ Len(sequence) <= end
      /\ DensePCs(base)
      /\ AllFit(base, Len(sequence))
  <2>1. /\ base \in Seq(Instruction)
        /\ Len(base) = Len(sequence) + Len(isas)
        /\ DensePCs(base)
        /\ AllFit(base, Len(sequence))
    BY <1>0, <1>2, WithProperties DEF IInv
  <2>2. end = Len(sequence) + Len(isas)
    BY <1>0
  <2> HIDE DEF base, end
  <2> QED BY <1>0, <1>2, <2>1, <2>2
<1>5. AllFit(base, end) /\ Top.elsePC <= end
  <2>1. Top.elsePC <= end
    BY <1>0, <1>2, <1>3, <1>4
  <2> HIDE DEF base, end
  <2> QED BY <1>0, <1>4, <2>1, FitsMore
<1>6. /\ code \in Seq(Instruction)
      /\ SameShape(code, base)
      /\ TargetsFrom(code, base, {end})
  <2> HIDE DEF base, end
  <2> QED BY <1>4, UpdateJumpTargetProperties
<1> HIDE DEF base, end, code
<1>7. Len(code) = end /\ DensePCs(code) /\ AllFit(code, end)
  <2>1. \A e \in {end} : e <= end
    BY <1>4
  <2> QED BY <1>4, <1>5, <1>6, <2>1, PatchedFits DEF SameShape
<1> QED BY <1>1, <1>2, <1>4, <1>5, <1>6, <1>7, CloseStep

LEMMA IInvStep == IInv /\ [Next]_vars => IInv'
<1> SUFFICES ASSUME IInv, [Next]_vars
             PROVE  IInv'
  OBVIOUS
<1>0. \A operands \in YieldOperands : operands \in Seq(Value) /\ Len(operands) \in Nat
  BY InputsAssumption, LenProperties
<1>1. ASSUME NEW function \in Functions, FlattenFuncOp(function)
      PROVE  IInv'
  BY <1>1, FlattenFuncOpStep
<1>2. ASSUME NEW op \in Ops, AddNormalOp(op)
      PROVE  IInv'
  BY <1>2, AddNormalOpStep
<1>3. ASSUME NEW callee \in Functions \cup Externals, AddCall(callee)
      PROVE  IInv'
  BY <1>3, AddCallStep
<1>4. CASE AddReturn
  BY <1>4, AddReturnStep
<1>5. ASSUME NEW loop \in Loops, BeginFor(loop)
      PROVE  IInv'
  BY <1>5, BeginForStep
<1>6. ASSUME NEW condition \in Conditions, NEW hasElse \in BOOLEAN,
             NEW operands \in YieldOperands, BeginIf(condition, hasElse, Len(operands))
      PROVE  IInv'
  BY <1>0, <1>6, BeginIfStep
<1>7. ASSUME NEW operands \in YieldOperands,
             EndFor(operands) \/ EndThen(operands) \/ EndElse(operands)
      PROVE  IInv'
  BY <1>0, <1>7, EndForStep, EndThenStep, EndElseStep
<1>8. CASE EndIf
  BY <1>8, EndIfStep
<1>9. CASE UNCHANGED vars
  BY <1>9 DEF vars, IInv, TypeOK, CounterIsSize, FramesFit, Finished
<1> QED BY <1>1, <1>2, <1>3, <1>4, <1>5, <1>6, <1>7, <1>8, <1>9 DEF Next

LEMMA IInvInvariant == Spec => []IInv
<1>1. Init => IInv
  <2> SUFFICES ASSUME Init
               PROVE  IInv
    OBVIOUS
  <2>1. /\ sequence = <<>> /\ open = <<>> /\ nextPC = 0
        /\ entries = {} /\ calls = {} /\ closed = {}
    BY DEF Init
  <2>2. /\ sequence \in Seq(Instruction) /\ open \in Seq(Frame)
        /\ Len(sequence) = 0 /\ Len(open) = 0 /\ DOMAIN sequence = {}
    BY <2>1, EmptySeq
  <2>3. TypeOK
    BY <2>1, <2>2 DEF TypeOK
  <2>4. CounterIsSize /\ AllFit(sequence, Len(sequence))
    BY <2>1, <2>2 DEF CounterIsSize, DensePCs, AllFit
  <2>5. FramesFit /\ Finished
    BY <2>1, <2>2 DEF FramesFit, Finished
  <2> QED BY <2>3, <2>4, <2>5 DEF IInv
<1> QED BY <1>1, IInvStep, PTL DEF Spec

-----------------------------------------------------------------------------
(***************************************************************************)
(* The builder's program, frames and history are of their types.           *)
(***************************************************************************)
THEOREM TypeCorrect == Spec => []TypeOK
BY IInvInvariant, PTL DEF IInv

(***************************************************************************)
(* The builder's counter is the size of the program, whatever module is    *)
(* read: no PC is skipped or handed out twice.                             *)
(***************************************************************************)
THEOREM CounterStaysSize == Spec => []CounterIsSize
BY IInvInvariant, PTL DEF IInv

(***************************************************************************)
(* What the builder leaves after a function is a program the executor can  *)
(* run without leaving it, for every module of every size and depth.       *)
(***************************************************************************)
THEOREM CompleteProgramsAreWellFormed == Spec => []CompleteIsWellFormed
<1>1. IInv => CompleteIsWellFormed
  <2> SUFFICES ASSUME IInv, open = <<>>
               PROVE  WellFormed(sequence)
    BY DEF CompleteIsWellFormed
  <2>1. DensePCs(sequence)
    BY DEF IInv, CounterIsSize
  <2>2. sequence \in Seq(Instruction) /\ Len(sequence) \in Nat
        /\ DOMAIN sequence = 1 .. Len(sequence)
    BY LenProperties DEF IInv, TypeOK
  <2>3. JumpsInside(sequence)
    <3> SUFFICES ASSUME NEW i \in 1 .. Len(sequence)
                 PROVE  LET isa == sequence[i] IN
                        /\ isa.isaName = "Jump" \/ (isa.isaName = "FuncCall" /\ ~ isa.isExternal)
                             => isa.jumpTarget < Len(sequence)
                        /\ isa.isaName \in {"ConditionalJump", "ForCondition", "IfCondition"}
                             => /\ isa.jumpTarget < Len(sequence)
                                /\ isa.fallthroughPC < Len(sequence)
      BY <2>2 DEF JumpsInside
    <3>1. sequence[i] \in Instruction
      BY <2>2, ElementOfSeq
    <3>2. sequence[i].jumpTarget \in Nat /\ sequence[i].fallthroughPC \in Nat
      BY <3>1 DEF Instruction
    <3>3. sequence # <<>>
      BY <2>2, EmptySeq
    <3>4. Fits(sequence[i], Len(sequence) - 1)
      BY <3>3 DEF IInv, Finished, AllFit
    <3> QED BY <2>2, <3>2, <3>4 DEF Fits
  <2>4. EndsInTransfer(sequence)
    BY DEF EndsInTransfer, IInv, Finished
  <2> QED BY <2>1, <2>3, <2>4 DEF WellFormed
<1> QED BY <1>1, IInvInvariant, PTL

-----------------------------------------------------------------------------
(***************************************************************************)
(* The structure that IsaSequenceBuilder gives to a program: every loop    *)
(* tests and steps its own variable, constructs nest and are entered and   *)
(* left at their ends only, and yields assign to the loop around them.     *)
(*                                                                         *)
(* A program is built from the inside out, so what holds of a construct    *)
(* when it is complete has to hold of it, in part, while it is open: of    *)
(* the code at its head, of the control that reaches its head and of the   *)
(* yields met so far.  That is StructureInv.                               *)
(*                                                                         *)
(* The relations of a program that the structure is about.                 *)
(***************************************************************************)
\* Control can go from p to q.
Goes(s, p, q) == p \in 0 .. Len(s) - 1 /\ q \in Successors(s[p + 1])

\* The instruction at p assigns to v at a yield.
Assigns(s, p, v) ==
    /\ p \in 0 .. Len(s) - 1
    /\ s[p + 1].isaName = "YieldAssign" /\ s[p + 1].forIV = v

Args(list) == {list[i] : i \in DOMAIN list}

\* p holds the condition of a construct that is still open.
OpenCondition(p) == \E i \in 2 .. Len(open) : open[i].condPC = p

\* A complete loop is around p.
InClosedLoop(p) == \E c \in closed : c.kind = "for" /\ Inside(p, c)

(***************************************************************************)
(* Each construct begins behind the head of the one around it, and behind  *)
(* the start of the else part when it is in that.  A branch assigns to     *)
(* what is around it, a function to nothing.                               *)
(***************************************************************************)
FramesNest ==
    /\ \A i, j \in 1 .. Len(open) : i < j =>
          /\ open[i].condPC <= open[j].condPC
          /\ i # 1 => open[i].condPC < open[j].condPC
          /\ open[i].part = "else" => open[i].elsePC <= open[j].condPC
    /\ \A i \in 1 .. Len(open) :
          /\ open[i].part = "func" <=> i = 1
          /\ i = 1 => open[i].iterArgs = <<>> /\ open[i].condPC <= Len(sequence)
          /\ open[i].part \in {"then", "else"} =>
                open[i].iterArgs = open[i - 1].iterArgs

\* The code at the head of an open construct is the one its frame describes.
LoopHead(init, cond, frame) ==
    /\ init.isaName = "ForInit" /\ cond.isaName = "ForCondition"
    /\ init.forIV = frame.iv /\ cond.forIV = frame.iv
    /\ init.forUB = cond.forUB
    /\ init.forStep = frame.step
    /\ init.iterArgs = frame.iterArgs

HeadsBuilt ==
    \A i \in 2 .. Len(open) :
        /\ open[i].part = "body" =>
              /\ open[i].condPC >= 1
              /\ LoopHead(At(open[i].condPC - 1), At(open[i].condPC), open[i])
        /\ open[i].part # "body" => At(open[i].condPC).isaName = "IfCondition"
        /\ open[i].part = "else" => open[i].condPC < open[i].elsePC

\* Complete constructs lie in the program, loops with all their parts.
ClosedLie ==
    \A c \in closed :
        /\ c.condPC < c.endPC /\ c.endPC <= Len(sequence)
        /\ c.kind = "for" => 1 <= c.condPC /\ c.condPC + 3 <= c.endPC

(***************************************************************************)
(* A complete construct lies before the head of an open one or behind it,  *)
(* and on one side of the start of its else part.                          *)
(***************************************************************************)
ClosedApart ==
    \A c \in closed, i \in 2 .. Len(open) :
        /\ c.endPC <= open[i].condPC \/ open[i].condPC < c.condPC
        /\ open[i].part = "else" =>
              c.endPC <= open[i].elsePC \/ open[i].elsePC <= c.condPC

(***************************************************************************)
(* Control comes into an open construct at its condition, and stays behind *)
(* that; the conditions that are not patched yet aside.                    *)
(***************************************************************************)
ControlEntersOpen ==
    \A i \in 2 .. Len(open) : \A p, q \in 0 .. Len(sequence) :
        Goes(sequence, p, q) =>
            /\ p < open[i].condPC => q <= open[i].condPC
            /\ open[i].condPC < p /\ ~ OpenCondition(p) => open[i].condPC <= q

\* Constructs nest.
ClosedNest ==
    \A c, d \in closed :
        \/ Inside(c.condPC, d) /\ c.endPC <= d.endPC
        \/ Inside(d.condPC, c) /\ d.endPC <= c.endPC
        \/ c.endPC <= d.condPC
        \/ d.endPC <= c.condPC

\* Control enters and leaves complete constructs at their ends.
ControlEntersClosed ==
    \A c \in closed : \A p, q \in 0 .. Len(sequence) :
        Goes(sequence, p, q) =>
            /\ Inside(q, c) /\ ~ Inside(p, c) => q = c.condPC
            /\ Inside(p, c) /\ ~ Inside(q, c) => q = c.endPC

\* From p, the end of a complete loop, control goes back to its condition q.
LoopsBack(p, q) ==
    \E c \in closed : c.kind = "for" /\ p = c.endPC - 1 /\ q = c.condPC

\* Control goes back at the end of a complete loop only.
BackAtLoopEnds ==
    \A p, q : Goes(sequence, p, q) => p < q \/ OpenCondition(p) \/ LoopsBack(p, q)

\* A yield that no complete loop is around assigns to the innermost open loop.
YieldsAssignOpen ==
    \A p \in 0 .. Len(sequence), v \in Value : \A i \in 1 .. Len(open) :
        /\ Assigns(sequence, p, v) /\ ~ InClosedLoop(p)
        /\ open[i].condPC <= p
        /\ \A j \in i + 1 .. Len(open) : p < open[j].condPC
        => v \in Args(open[i].iterArgs)

\* A yield that complete loops are around assigns to the innermost of them.
YieldsAssignClosed ==
    \A p \in 0 .. Len(sequence), v \in Value : \A c \in closed :
        /\ Assigns(sequence, p, v)
        /\ c.kind = "for" /\ Inside(p, c)
        /\ \A d \in closed : d.kind = "for" /\ Inside(p, d) => d.condPC <= c.condPC
        => v \in Args(At(c.condPC - 1).iterArgs)

StructureInv ==
    /\ FramesNest
    /\ HeadsBuilt
    /\ ClosedLie
    /\ LoopsClosed
    /\ ClosedApart
    /\ ClosedNest
    /\ ControlEntersOpen
    /\ ControlEntersClosed
    /\ BackAtLoopEnds
    /\ YieldsAssignOpen
    /\ YieldsAssignClosed

-----------------------------------------------------------------------------
(***************************************************************************)
(* The types of what the structure is about, and where control can go.     *)
(***************************************************************************)
LEMMA BuildTypes ==
    ASSUME IInv, FramesNest
    PROVE  /\ Len(open) \in Nat /\ Len(sequence) \in Nat /\ nextPC = Len(sequence)
           /\ \A i \in 1 .. Len(open) :
                 /\ open[i].condPC \in Nat /\ open[i].elsePC \in Nat
                 /\ open[i].elsePC <= Len(sequence) /\ open[i].condPC <= Len(sequence)
                 /\ i # 1 => open[i].condPC < Len(sequence)
           /\ \A c \in closed :
                 /\ c.condPC \in Nat /\ c.endPC \in Nat /\ c.elsePC \in Nat
                 /\ c.kind \in {"for", "if"}
           /\ \A p \in 0 .. Len(sequence) - 1 :
                 sequence[p + 1] \in Instruction /\ sequence[p + 1].pc = p
<1>1. /\ Len(open) \in Nat /\ Len(sequence) \in Nat /\ nextPC = Len(sequence)
      /\ \A i \in 1 .. Len(open) : open[i].condPC \in Nat /\ open[i].elsePC \in Nat
  BY OpenType DEF IInv, CounterIsSize
<1>2. \A i \in 1 .. Len(open) :
         /\ open[i].elsePC <= Len(sequence) /\ open[i].condPC <= Len(sequence)
         /\ i # 1 => open[i].condPC < Len(sequence)
  BY <1>1 DEF IInv, FramesFit, FramesNest
<1>3. \A c \in closed : /\ c.condPC \in Nat /\ c.endPC \in Nat /\ c.elsePC \in Nat
                        /\ c.kind \in {"for", "if"}
  BY DEF IInv, TypeOK, Construct
<1>4. \A p \in 0 .. Len(sequence) - 1 :
         sequence[p + 1] \in Instruction /\ sequence[p + 1].pc = p
  <2> TAKE p \in 0 .. Len(sequence) - 1
  <2>1. p + 1 \in 1 .. Len(sequence) /\ sequence \in Seq(Instruction)
    BY <1>1 DEF IInv, TypeOK
  <2>2. sequence[p + 1] \in Instruction
    BY <2>1, ElementOfSeq
  <2>3. p + 1 \in DOMAIN sequence
    BY <2>1, LenProperties
  <2>4. sequence[p + 1].pc = p + 1 - 1
    BY <2>3 DEF IInv, CounterIsSize, DensePCs
  <2> QED BY <2>2, <2>4, <1>1
<1> QED BY <1>1, <1>2, <1>3, <1>4

\* Control stays in the program or goes right behind it.
LEMMA GoesInside ==
    ASSUME IInv, FramesNest, NEW p, NEW q, Goes(sequence, p, q)
    PROVE  p \in 0 .. Len(sequence) - 1 /\ q \in 0 .. Len(sequence)
<1> DEFINE isa == sequence[p + 1]
<1>1. p \in 0 .. Len(sequence) - 1 /\ q \in Successors(isa)
  BY DEF Goes
<1>2. isa \in Instruction /\ isa.pc = p /\ Len(sequence) \in Nat
  BY <1>1, BuildTypes
<1>3. Fits(isa, Len(sequence))
  <2>1. p + 1 \in 1 .. Len(sequence)
    BY <1>1, <1>2
  <2> QED BY <2>1 DEF IInv, AllFit
<1>4. isa.jumpTarget \in Nat /\ isa.fallthroughPC \in Nat
  BY <1>2 DEF Instruction
<1> HIDE DEF isa
<1>5. CASE isa.isaName \in {"Jump", "ConditionalJump", "ForCondition", "IfCondition"}
  BY <1>1, <1>2, <1>3, <1>4, <1>5 DEF Fits, Successors
<1>6. CASE isa.isaName \notin {"Jump", "ConditionalJump", "ForCondition", "IfCondition"}
  <2>1. q = p + 1
    BY <1>1, <1>2, <1>6 DEF Successors
  <2> QED BY <1>1, <1>2, <2>1
<1> QED BY <1>1, <1>5, <1>6

-----------------------------------------------------------------------------
(***************************************************************************)
(* The two kinds of steps, told by what they do to the structure.  Each    *)
(* action is of one kind, and each kind keeps StructureInv.                *)
(***************************************************************************)
\* Frame i stays as it is, or goes on to the else part.
FrameStays(i) ==
    /\ i \in 1 .. Len(open)
    /\ open'[i].condPC = open[i].condPC
    /\ open'[i].iv = open[i].iv /\ open'[i].step = open[i].step
    /\ open'[i].iterArgs = open[i].iterArgs
    /\ \/ open'[i].part = open[i].part /\ open'[i].elsePC = open[i].elsePC
       \/ /\ open[i].part = "then" /\ open'[i].part = "else"
          /\ open'[i].elsePC = Len(sequence')
          /\ i = Len(open) /\ Len(open') = Len(open)

\* Frame i is that of a function or construct that begins.
FrameBegins(i) ==
    /\ i = Len(open) + 1
    /\ Len(sequence) <= open'[i].condPC /\ open'[i].condPC <= Len(sequence')
    /\ i = 1 => open'[i].part = "func" /\ open'[i].iterArgs = <<>>
    /\ i # 1 => open'[i].part \in {"body", "then"}
    /\ open'[i].part = "body" =>
          /\ open'[i].condPC >= 1
          /\ LoopHead(sequence'[open'[i].condPC], sequence'[open'[i].condPC + 1], open'[i])
    /\ open'[i].part = "then" =>
          /\ sequence'[open'[i].condPC + 1].isaName = "IfCondition"
          /\ open'[i].iterArgs = open[i - 1].iterArgs

(***************************************************************************)
(* Code is added and no construct ends: control goes through the new code  *)
(* in order, a condition at its end is not patched, and its yields are     *)
(* those of the innermost construct.                                       *)
(***************************************************************************)
GoesOn ==
    /\ closed' = closed
    /\ Len(sequence) <= Len(sequence')
    /\ \A p \in 0 .. Len(sequence) - 1 : sequence'[p + 1] = sequence[p + 1]
    /\ (Len(open') = 0 /\ Len(open) <= 1) \/ Len(open) <= Len(open')
    /\ \A i \in 1 .. Len(open') : FrameStays(i) \/ FrameBegins(i)
    /\ \A p, q : Goes(sequence', p, q) =>
          \/ Goes(sequence, p, q)
          \/ /\ Len(sequence) <= p
             /\ \/ q = p + 1
                \/ q = 0 /\ Len(open') >= 2 /\ open'[Len(open')].condPC = p
    /\ \A p, v : Assigns(sequence', p, v) =>
          \/ Assigns(sequence, p, v)
          \/ /\ Len(sequence) <= p /\ Len(open) > 0 /\ Len(open') = Len(open)
             /\ v \in Args(open[Len(open)].iterArgs)

\* Instructions that differ in their targets only, for what the structure says.
SameHead(a, b) ==
    /\ a.isaName = b.isaName /\ a.forIV = b.forIV /\ a.forUB = b.forUB
    /\ a.forStep = b.forStep /\ a.iterArgs = b.iterArgs

(***************************************************************************)
(* The innermost construct ends: its condition is patched, and the code    *)
(* added goes on in order or, at the end of a loop, back to the condition. *)
(***************************************************************************)
Closes(kind, top, head, falsePC) ==
    /\ Len(open) >= 2 /\ top = open[Len(open)] /\ head = top.condPC
    /\ Len(open') = Len(open) - 1
    /\ \A i \in 1 .. Len(open') : open'[i] = open[i]
    /\ closed' = closed \cup {[kind |-> kind, condPC |-> head,
                               elsePC |-> falsePC, endPC |-> Len(sequence')]}
    /\ Len(sequence) <= Len(sequence')
    /\ \A p \in 0 .. Len(sequence) - 1 : p # head => sequence'[p + 1] = sequence[p + 1]
    /\ SameHead(sequence'[head + 1], sequence[head + 1])
    /\ sequence'[head + 1].jumpTarget = head + 1
    /\ sequence'[head + 1].fallthroughPC = falsePC
    /\ sequence'[head + 1] = Retarget(sequence[head + 1], head + 1, falsePC)
    /\ falsePC = Len(sequence') \/ (top.part = "else" /\ falsePC = top.elsePC)
    /\ kind \in {"for", "if"} /\ (kind = "for" <=> top.part = "body")
    /\ kind = "for" =>
          /\ falsePC = Len(sequence') /\ Len(sequence) + 2 <= Len(sequence')
          /\ sequence'[Len(sequence') - 1].isaName = "ForIncrement"
          /\ sequence'[Len(sequence') - 1].forIV = top.iv
          /\ sequence'[Len(sequence') - 1].forStep = top.step
          /\ sequence'[Len(sequence')].isaName = "Jump"
          /\ sequence'[Len(sequence')].jumpTarget = head
    /\ \A p, q : Goes(sequence', p, q) =>
          \/ Goes(sequence, p, q) /\ p # head
          \/ p = head /\ q \in {head + 1, falsePC}
          \/ Len(sequence) <= p /\ q = p + 1
          \/ kind = "for" /\ Len(sequence) <= p /\ p = Len(sequence') - 1 /\ q = head
    /\ \A p, v : Assigns(sequence', p, v) =>
          \/ Assigns(sequence, p, v)
          \/ Len(sequence) <= p /\ v \in Args(top.iterArgs)

\* What both states of a step are, in the terms of the step lemmas.
LEMMA StepTypes ==
    ASSUME IInv, IInv', FramesNest
    PROVE  /\ Len(open) \in Nat /\ Len(sequence) \in Nat
           /\ Len(open') \in Nat /\ Len(sequence') \in Nat
           /\ \A i \in 1 .. Len(open) :
                 /\ open[i].condPC \in Nat /\ open[i].elsePC \in Nat
                 /\ open[i].elsePC <= Len(sequence) /\ open[i].condPC <= Len(sequence)
                 /\ i # 1 => open[i].condPC < Len(sequence)
           /\ \A i \in 1 .. Len(open') :
                 /\ open'[i].condPC \in Nat /\ open'[i].elsePC \in Nat
                 /\ open'[i].part \in {"func", "body", "then", "else"}
           /\ \A c \in closed' :
                 c.condPC \in Nat /\ c.endPC \in Nat /\ c.kind \in {"for", "if"}
           /\ \A p, q : Goes(sequence, p, q) =>
                 p \in 0 .. Len(sequence) - 1 /\ q \in 0 .. Len(sequence)
<1>1. /\ open' \in Seq(Frame) /\ sequence' \in Seq(Instruction)
      /\ closed' \subseteq Construct
  BY DEF IInv, TypeOK
<1>2. /\ Len(open') \in Nat /\ Len(sequence') \in Nat
      /\ \A i \in 1 .. Len(open') : open'[i] \in Frame
  BY <1>1, LenProperties, ElementOfSeq
<1>3. \A i \in 1 .. Len(open') :
         /\ open'[i].condPC \in Nat /\ open'[i].elsePC \in Nat
         /\ open'[i].part \in {"func", "body", "then", "else"}
  BY <1>2 DEF Frame
<1>4. \A c \in closed' :
         c.condPC \in Nat /\ c.endPC \in Nat /\ c.kind \in {"for", "if"}
  BY <1>1 DEF Construct
<1> QED BY <1>2, <1>3, <1>4, BuildTypes, GoesInside

\* The old frames are still there, unless the function ends.
LEMMA GoesOnFrames ==
    ASSUME IInv, IInv', FramesNest, GoesOn
    PROVE  FramesNest'
<1>1. \A i \in 1 .. Len(open') : FrameStays(i) \/ FrameBegins(i)
  BY DEF GoesOn
<1>2. \A i, j \in 1 .. Len(open') : i < j =>
         /\ open'[i].condPC <= open'[j].condPC
         /\ i # 1 => open'[i].condPC < open'[j].condPC
         /\ open'[i].part = "else" => open'[i].elsePC <= open'[j].condPC
  <2> SUFFICES ASSUME NEW i \in 1 .. Len(open'), NEW j \in 1 .. Len(open'), i < j
               PROVE  /\ open'[i].condPC <= open'[j].condPC
                      /\ i # 1 => open'[i].condPC < open'[j].condPC
                      /\ open'[i].part = "else" => open'[i].elsePC <= open'[j].condPC
    OBVIOUS
  <2>1. FrameStays(i)
    <3>1. j \in 1 .. Len(open) + 1 /\ Len(open) \in Nat
      BY <1>1, StepTypes, SMTT(30) DEF FrameStays, FrameBegins
    <3>2. i # Len(open) + 1
      BY <3>1
    <3> QED BY <1>1, <3>2 DEF FrameBegins
  <2>2. CASE FrameStays(j)
    BY <2>1, <2>2, StepTypes, SMTT(30) DEF FrameStays, FramesNest
  <2>3. CASE FrameBegins(j)
    BY <2>1, <2>3, StepTypes, SMTT(30) DEF FrameStays, FrameBegins
  <2> QED BY <1>1, <2>2, <2>3
<1>3. ASSUME NEW i \in 1 .. Len(open')
      PROVE  /\ open'[i].part = "func" <=> i = 1
             /\ i = 1 => open'[i].iterArgs = <<>> /\ open'[i].condPC <= Len(sequence')
             /\ open'[i].part \in {"then", "else"} =>
                   open'[i].iterArgs = open'[i - 1].iterArgs
  <2>1. i # 1 => i - 1 \in 1 .. Len(open') /\ FrameStays(i - 1)
    BY <1>1, StepTypes DEF FrameStays, FrameBegins
  <2>2. CASE FrameStays(i)
    BY <2>1, <2>2, StepTypes, SMTT(30) DEF FrameStays, FramesNest, GoesOn
  <2>3. CASE FrameBegins(i)
    BY <2>1, <2>3, StepTypes DEF FrameStays, FrameBegins, FramesNest
  <2> QED BY <1>1, <2>2, <2>3
<1> QED BY <1>2, <1>3 DEF FramesNest

\* Frames behind the first stay or begin a construct in the new code.
LEMMA GoesOnFrame ==
    ASSUME IInv, IInv', FramesNest, GoesOn, NEW i \in 2 .. Len(open')
    PROVE  \/ i \in 2 .. Len(open) /\ FrameStays(i)
           \/ /\ FrameBegins(i) /\ i = Len(open')
              /\ open'[i].part \in {"body", "then"}
              /\ Len(sequence) <= open'[i].condPC /\ open'[i].condPC < Len(sequence')
<1>1. FrameStays(i) \/ FrameBegins(i)
  BY StepTypes DEF GoesOn
<1>2. CASE FrameStays(i)
  BY <1>2, StepTypes DEF FrameStays
<1>3. CASE FrameBegins(i)
  <2>1. i = Len(open') /\ i # 1 /\ i \in 1 .. Len(open')
    <3>1. Len(open') = Len(open) + 1
      BY <1>3, StepTypes, \A j \in 1 .. Len(open') : FrameStays(j) \/ FrameBegins(j), SMTT(30)
        DEF GoesOn, FrameStays, FrameBegins
    <3> QED BY <3>1, <1>3, StepTypes DEF FrameBegins
  <2>2. open'[i].part # "func" /\ open'[i].part \in {"body", "then"}
    BY <2>1, <1>3 DEF FrameBegins
  <2>3. open'[i].condPC + 1 <= Len(sequence')
    BY <2>1, <2>2 DEF IInv, FramesFit
  <2>4. open'[i].condPC < Len(sequence')
    BY <2>1, <2>3, StepTypes
  <2> QED BY <1>3, <2>1, <2>2, <2>4 DEF FrameBegins
<1> QED BY <1>1, <1>2, <1>3

LEMMA GoesOnHeads ==
    ASSUME IInv, IInv', FramesNest, HeadsBuilt, GoesOn
    PROVE  HeadsBuilt'
<1> SUFFICES ASSUME NEW i \in 2 .. Len(open')
             PROVE  /\ open'[i].part = "body" =>
                         /\ open'[i].condPC >= 1
                         /\ LoopHead(sequence'[open'[i].condPC - 1 + 1],
                                     sequence'[open'[i].condPC + 1], open'[i])
                    /\ open'[i].part # "body" =>
                          sequence'[open'[i].condPC + 1].isaName = "IfCondition"
                    /\ open'[i].part = "else" => open'[i].condPC < open'[i].elsePC
  BY DEF HeadsBuilt, At
<1>0. open'[i].condPC \in Nat /\ open'[i].condPC - 1 + 1 = open'[i].condPC
  BY StepTypes
<1>1. CASE i \in 2 .. Len(open) /\ FrameStays(i)
  <2>1. /\ open[i].condPC \in Nat /\ open[i].condPC < Len(sequence)
        /\ Len(sequence) <= Len(sequence')
        /\ sequence'[open[i].condPC + 1] = sequence[open[i].condPC + 1]
    <3>1. open[i].condPC \in Nat /\ open[i].condPC < Len(sequence)
      BY <1>1, StepTypes
    <3>2. open[i].condPC \in 0 .. Len(sequence) - 1
      BY <3>1, StepTypes
    <3> QED BY <3>1, <3>2 DEF GoesOn
  <2>2. open[i].condPC >= 1 =>
           sequence'[open[i].condPC] = sequence[open[i].condPC]
    <3> SUFFICES ASSUME open[i].condPC >= 1
                 PROVE  sequence'[open[i].condPC] = sequence[open[i].condPC]
      OBVIOUS
    <3>1. open[i].condPC - 1 \in 0 .. Len(sequence) - 1
      BY <2>1, StepTypes
    <3>2. sequence'[open[i].condPC - 1 + 1] = sequence[open[i].condPC - 1 + 1]
      BY <3>1 DEF GoesOn
    <3> QED BY <3>2, <2>1
  <2>3. /\ open[i].part = "body" =>
             /\ open[i].condPC >= 1
             /\ LoopHead(sequence[open[i].condPC], sequence[open[i].condPC + 1], open[i])
        /\ open[i].part # "body" => sequence[open[i].condPC + 1].isaName = "IfCondition"
        /\ open[i].part = "else" => open[i].condPC < open[i].elsePC
    <3>1. open[i].condPC - 1 + 1 = open[i].condPC
      BY <2>1
    <3> QED BY <1>1, <3>1 DEF HeadsBuilt, At
  <2>4. open'[i].part = "else" => open'[i].condPC < open'[i].elsePC
    BY <1>1, <2>1, <2>3, StepTypes DEF FrameStays
  <2> QED BY <1>0, <1>1, <2>1, <2>2, <2>3, <2>4 DEF FrameStays, LoopHead
<1>2. CASE FrameBegins(i) /\ open'[i].part \in {"body", "then"}
  BY <1>0, <1>2 DEF FrameBegins
<1> QED BY <1>1, <1>2, GoesOnFrame

\* The code of complete constructs stays where it is.
LEMMA GoesOnClosed ==
    ASSUME IInv, IInv', FramesNest, ClosedLie, LoopsClosed, ClosedApart,
           ClosedNest, GoesOn
    PROVE  ClosedLie' /\ LoopsClosed' /\ ClosedApart' /\ ClosedNest'
<1>0. /\ closed' = closed /\ Len(sequence) <= Len(sequence')
      /\ \A p \in 0 .. Len(sequence) - 1 : sequence'[p + 1] = sequence[p + 1]
  BY DEF GoesOn
<1>1. ClosedLie'
  BY <1>0, StepTypes DEF ClosedLie
<1>2. LoopsClosed'
  <2> SUFFICES ASSUME NEW c \in closed, c.kind = "for"
               PROVE  /\ At(c.condPC - 1)' = At(c.condPC - 1)
                      /\ At(c.condPC)' = At(c.condPC)
                      /\ At(c.endPC - 2)' = At(c.endPC - 2)
                      /\ At(c.endPC - 1)' = At(c.endPC - 1)
    BY <1>0, SMTT(30) DEF LoopsClosed, At
  <2>1. /\ c.condPC - 1 \in 0 .. Len(sequence) - 1
        /\ c.condPC \in 0 .. Len(sequence) - 1
        /\ c.endPC - 2 \in 0 .. Len(sequence) - 1
        /\ c.endPC - 1 \in 0 .. Len(sequence) - 1
    <3>1. c.condPC \in Nat /\ c.endPC \in Nat /\ Len(sequence) \in Nat
      BY <1>0, StepTypes
    <3>2. /\ c.endPC <= Len(sequence)
          /\ 1 <= c.condPC /\ c.condPC + 3 <= c.endPC
      BY DEF ClosedLie
    <3>3. /\ c.condPC - 1 \in Nat /\ c.condPC < Len(sequence)
          /\ c.endPC - 2 \in Nat /\ c.endPC - 1 < Len(sequence)
      BY <3>1, <3>2
    <3> QED BY <3>1, <3>3, SMTT(30)
  <2> QED BY <2>1, <1>0 DEF At
<1>3. ClosedApart'
  <2> SUFFICES ASSUME NEW c \in closed, NEW i \in 2 .. Len(open')
               PROVE  /\ c.endPC <= open'[i].condPC \/ open'[i].condPC < c.condPC
                      /\ open'[i].part = "else" =>
                            c.endPC <= open'[i].elsePC \/ open'[i].elsePC <= c.condPC
    BY <1>0 DEF ClosedApart
  <2>0. c.endPC <= Len(sequence) /\ c.endPC \in Nat
    BY <1>0, StepTypes DEF ClosedLie
  <2>1. CASE i \in 2 .. Len(open) /\ FrameStays(i)
    <3>1. /\ c.endPC <= open[i].condPC \/ open[i].condPC < c.condPC
          /\ open[i].part = "else" =>
                c.endPC <= open[i].elsePC \/ open[i].elsePC <= c.condPC
      BY <2>1 DEF ClosedApart
    <3>2. c.endPC <= Len(sequence')
      BY <1>0, <2>0, StepTypes
    <3> QED BY <2>1, <3>1, <3>2 DEF FrameStays
  <2>2. CASE open'[i].part \in {"body", "then"} /\ Len(sequence) <= open'[i].condPC
    BY <2>0, <2>2, StepTypes
  <2> QED BY <2>1, <2>2, GoesOnFrame
<1>4. ClosedNest'
  BY <1>0 DEF ClosedNest, Inside
<1> QED BY <1>1, <1>2, <1>3, <1>4

LEMMA GoesOnControl ==
    ASSUME IInv, IInv', FramesNest, ClosedLie, ControlEntersOpen,
           ControlEntersClosed, GoesOn
    PROVE  ControlEntersOpen' /\ ControlEntersClosed'
<1>0. /\ closed' = closed /\ Len(sequence) <= Len(sequence')
      /\ Len(open') = 0 \/ Len(open) <= Len(open')
      /\ \A i \in 1 .. Len(open') : FrameStays(i) \/ FrameBegins(i)
  BY DEF GoesOn
<1>1. ASSUME NEW p \in 0 .. Len(sequence'), NEW q \in 0 .. Len(sequence'),
             Goes(sequence', p, q)
      PROVE  \/ Goes(sequence, p, q)
             \/ Len(sequence) <= p /\ q = p + 1
             \/ Len(sequence) <= p /\ q = 0 /\ OpenCondition(p)'
  <2>1. 2 <= Len(open') => Len(open') \in 2 .. Len(open')
    BY StepTypes
  <2> QED BY <1>1, <2>1, StepTypes DEF GoesOn, OpenCondition
<1>2. ControlEntersOpen'
  <2> SUFFICES ASSUME NEW i \in 2 .. Len(open'),
                      NEW p \in 0 .. Len(sequence'), NEW q \in 0 .. Len(sequence'),
                      Goes(sequence', p, q)
               PROVE  /\ p < open'[i].condPC => q <= open'[i].condPC
                      /\ open'[i].condPC < p /\ ~ OpenCondition(p)' => open'[i].condPC <= q
    BY DEF ControlEntersOpen
  <2>0. open'[i].condPC \in Nat
    BY StepTypes
  <2>1. CASE i \in 2 .. Len(open) /\ FrameStays(i)
    <3>1. open'[i].condPC = open[i].condPC /\ open[i].condPC < Len(sequence)
      BY <2>1, StepTypes DEF FrameStays
    <3>2. OpenCondition(p) => OpenCondition(p)'
      <4> SUFFICES ASSUME NEW j \in 2 .. Len(open), open[j].condPC = p
                   PROVE  OpenCondition(p)'
        BY DEF OpenCondition
      <4>1. j \in 2 .. Len(open') /\ FrameStays(j)
        BY <1>0, StepTypes DEF FrameBegins
      <4> QED BY <4>1 DEF OpenCondition, FrameStays
    <3>3. CASE Goes(sequence, p, q)
      BY <2>1, <3>1, <3>2, <3>3, StepTypes DEF ControlEntersOpen
    <3> QED BY <1>1, <2>0, <3>1, <3>3, StepTypes
  <2>2. CASE Len(sequence) <= open'[i].condPC
    BY <1>1, <2>0, <2>2, StepTypes
  <2> QED BY <2>1, <2>2, GoesOnFrame
<1>3. ControlEntersClosed'
  <2> SUFFICES ASSUME NEW c \in closed,
                      NEW p \in 0 .. Len(sequence'), NEW q \in 0 .. Len(sequence'),
                      Goes(sequence', p, q)
               PROVE  /\ Inside(q, c) /\ ~ Inside(p, c) => q = c.condPC
                      /\ Inside(p, c) /\ ~ Inside(q, c) => q = c.endPC
    BY <1>0 DEF ControlEntersClosed, Inside
  <2>1. c.condPC \in Nat /\ c.endPC \in Nat /\ c.endPC <= Len(sequence)
    BY <1>0, StepTypes DEF ClosedLie
  <2>2. CASE Goes(sequence, p, q)
    BY <2>2, StepTypes DEF ControlEntersClosed
  <2> QED BY <1>1, <2>1, <2>2, StepTypes DEF Inside
<1> QED BY <1>2, <1>3

LEMMA GoesOnBack ==
    ASSUME IInv, IInv', FramesNest, BackAtLoopEnds, GoesOn
    PROVE  BackAtLoopEnds'
<1> SUFFICES ASSUME NEW p, NEW q, Goes(sequence', p, q)
             PROVE  p < q \/ OpenCondition(p)' \/ LoopsBack(p, q)'
  BY DEF BackAtLoopEnds
<1>0. /\ closed' = closed
      /\ (Len(open') = 0 /\ Len(open) <= 1) \/ Len(open) <= Len(open')
      /\ \A i \in 1 .. Len(open') : FrameStays(i) \/ FrameBegins(i)
      /\ Len(open) \in Nat /\ Len(open') \in Nat /\ Len(sequence) \in Nat
  BY StepTypes DEF GoesOn
<1>1. CASE Goes(sequence, p, q)
  <2>1. p < q \/ OpenCondition(p) \/ LoopsBack(p, q)
    BY <1>1 DEF BackAtLoopEnds
  <2>2. ASSUME NEW j \in 2 .. Len(open), open[j].condPC = p
        PROVE  OpenCondition(p)'
    <3>1. j \in 2 .. Len(open') /\ FrameStays(j)
      BY <1>0 DEF FrameBegins
    <3> QED BY <2>2, <3>1 DEF OpenCondition, FrameStays
  <2>3. LoopsBack(p, q) => LoopsBack(p, q)'
    BY <1>0 DEF LoopsBack
  <2> QED BY <2>1, <2>2, <2>3 DEF OpenCondition
<1>2. CASE Len(sequence) <= p /\ q = p + 1
  <2>1. p \in Nat
    BY StepTypes DEF Goes
  <2> QED BY <1>2, <2>1
<1>3. CASE Len(open') >= 2 /\ open'[Len(open')].condPC = p
  <2>1. Len(open') \in 2 .. Len(open')
    BY <1>0, <1>3
  <2> QED BY <1>3, <2>1 DEF OpenCondition
<1> QED BY <1>1, <1>2, <1>3 DEF GoesOn

LEMMA GoesOnYields ==
    ASSUME IInv, IInv', FramesNest, ClosedLie, YieldsAssignOpen,
           YieldsAssignClosed, GoesOn
    PROVE  YieldsAssignOpen' /\ YieldsAssignClosed'
<1>0. /\ closed' = closed /\ Len(sequence) <= Len(sequence')
      /\ Len(open') = 0 \/ Len(open) <= Len(open')
      /\ \A i \in 1 .. Len(open') : FrameStays(i) \/ FrameBegins(i)
  BY DEF GoesOn
<1>1. ASSUME NEW p \in 0 .. Len(sequence'), NEW v \in Value, Assigns(sequence', p, v)
      PROVE  \/ Assigns(sequence, p, v) /\ p \in 0 .. Len(sequence) - 1
             \/ /\ Len(sequence) <= p /\ Len(open) > 0 /\ Len(open') = Len(open)
                /\ v \in Args(open[Len(open)].iterArgs)
  BY <1>1 DEF GoesOn, Assigns
<1>2. YieldsAssignOpen'
  <2> SUFFICES ASSUME NEW p \in 0 .. Len(sequence'), NEW v \in Value,
                      NEW i \in 1 .. Len(open'),
                      Assigns(sequence', p, v), ~ InClosedLoop(p)',
                      open'[i].condPC <= p,
                      \A j \in i + 1 .. Len(open') : p < open'[j].condPC
               PROVE  v \in Args(open'[i].iterArgs)
    BY DEF YieldsAssignOpen
  <2>1. CASE Assigns(sequence, p, v) /\ p \in 0 .. Len(sequence) - 1
    <3>1. CASE FrameStays(i)
      <4>1. ~ InClosedLoop(p)
        BY <1>0 DEF InClosedLoop, Inside
      <4>2. \A j \in i + 1 .. Len(open) : p < open[j].condPC
        <5> TAKE j \in i + 1 .. Len(open)
        <5>1. j \in i + 1 .. Len(open') /\ j \in 1 .. Len(open')
          BY <1>0, StepTypes
        <5>2. FrameStays(j)
          BY <1>0, <5>1, StepTypes DEF FrameBegins
        <5> QED BY <5>1, <5>2 DEF FrameStays
      <4>3. i \in 1 .. Len(open) /\ open[i].condPC <= p
        BY <3>1 DEF FrameStays
      <4>4. p \in 0 .. Len(sequence)
        BY <2>1, StepTypes
      <4> QED BY <2>1, <3>1, <4>1, <4>2, <4>3, <4>4 DEF YieldsAssignOpen, FrameStays
    <3>2. CASE FrameBegins(i)
      BY <2>1, <3>2, StepTypes DEF FrameBegins
    <3> QED BY <1>0, <3>1, <3>2
  <2>2. CASE /\ Len(sequence) <= p /\ Len(open) > 0 /\ Len(open') = Len(open)
             /\ v \in Args(open[Len(open)].iterArgs)
    <3>1. FrameStays(Len(open)) /\ FrameStays(i)
      BY <1>0, <2>2, StepTypes DEF FrameBegins
    <3>2. open'[Len(open)].condPC <= Len(sequence)
      BY <2>2, <3>1, StepTypes DEF FrameStays
    <3>3. i = Len(open)
      BY <2>2, <3>2, StepTypes
    <3> QED BY <2>2, <3>1, <3>3 DEF FrameStays
  <2> QED BY <1>1, <2>1, <2>2
<1>3. YieldsAssignClosed'
  <2> SUFFICES ASSUME NEW p \in 0 .. Len(sequence'), NEW v \in Value, NEW c \in closed,
                      Assigns(sequence', p, v), c.kind = "for", Inside(p, c),
                      \A d \in closed : d.kind = "for" /\ Inside(p, d) => d.condPC <= c.condPC
               PROVE  v \in Args(sequence'[c.condPC - 1 + 1].iterArgs)
    BY <1>0 DEF YieldsAssignClosed, Inside, At
  <2>1. /\ c.condPC \in Nat /\ c.endPC \in Nat /\ c.endPC <= Len(sequence)
        /\ 1 <= c.condPC /\ c.condPC < c.endPC
    BY <1>0, StepTypes DEF ClosedLie
  <2>2. Assigns(sequence, p, v) /\ p \in 0 .. Len(sequence)
    BY <1>1, <2>1, StepTypes DEF Inside
  <2>3. c.condPC - 1 \in 0 .. Len(sequence) - 1
    BY <2>1, StepTypes
  <2>4. sequence'[c.condPC - 1 + 1] = sequence[c.condPC - 1 + 1]
    BY <2>3 DEF GoesOn
  <2> QED BY <2>2, <2>4 DEF YieldsAssignClosed, At
<1> QED BY <1>2, <1>3

LEMMA GoesOnStep ==
    ASSUME IInv, IInv', StructureInv, GoesOn
    PROVE  StructureInv'
BY GoesOnFrames, GoesOnHeads, GoesOnClosed, GoesOnControl, GoesOnBack, GoesOnYields
  DEF StructureInv

-----------------------------------------------------------------------------
\* Where the construct that ends lies.
LEMMA ClosesTypes ==
    ASSUME IInv, IInv', FramesNest, HeadsBuilt,
           NEW kind, NEW top, NEW head, NEW falsePC, Closes(kind, top, head, falsePC)
    PROVE  /\ Len(open) \in 2 .. Len(open)
           /\ head \in Nat /\ head < Len(sequence) /\ Len(sequence) <= Len(sequence')
           /\ falsePC \in Nat /\ head < falsePC /\ falsePC <= Len(sequence')
           /\ \A i \in 1 .. Len(open') :
                 /\ i \in 1 .. Len(open) - 1 /\ open'[i] = open[i]
                 /\ open[i].condPC \in Nat /\ open[i].condPC <= head
                 /\ i # 1 => open[i].condPC < head
           /\ \A p \in 0 .. Len(sequence) - 1 :
                 /\ SameHead(sequence'[p + 1], sequence[p + 1])
                 /\ p # head => sequence'[p + 1] = sequence[p + 1]
<1>1. Len(open) \in 2 .. Len(open) /\ Len(open') = Len(open) - 1 /\ head = open[Len(open)].condPC
  BY StepTypes DEF Closes
<1>2. head \in Nat /\ head < Len(sequence) /\ Len(sequence) <= Len(sequence')
  BY <1>1, StepTypes DEF Closes
<1>3. falsePC \in Nat /\ head < falsePC /\ falsePC <= Len(sequence')
  <2>1. CASE falsePC = Len(sequence')
    BY <1>2, <2>1, StepTypes
  <2>2. CASE top.part = "else" /\ falsePC = top.elsePC
    <3>1. top = open[Len(open)]
      BY DEF Closes
    <3>2. head < falsePC
      BY <1>1, <2>2, <3>1 DEF HeadsBuilt
    <3>3. falsePC \in Nat /\ falsePC <= Len(sequence)
      BY <1>1, <2>2, <3>1, StepTypes
    <3> QED BY <1>2, <3>2, <3>3, StepTypes
  <2> QED BY <2>1, <2>2 DEF Closes
<1>4. ASSUME NEW i \in 1 .. Len(open')
      PROVE  /\ i \in 1 .. Len(open) - 1 /\ open'[i] = open[i]
             /\ open[i].condPC \in Nat /\ open[i].condPC <= head
             /\ i # 1 => open[i].condPC < head
  <2>1. i \in 1 .. Len(open) - 1 /\ i \in 1 .. Len(open) /\ i < Len(open)
    BY <1>1, StepTypes
  <2>2. open'[i] = open[i]
    BY DEF Closes
  <2> DEFINE inner == Len(open)
  <2>3. inner \in 1 .. Len(open)
    BY <2>1
  <2> HIDE DEF inner
  <2>4. i < inner => /\ open[i].condPC <= open[inner].condPC
                     /\ i # 1 => open[i].condPC < open[inner].condPC
    BY <2>1, <2>3 DEF FramesNest
  <2>5. open[i].condPC \in Nat
    BY <2>1, StepTypes
  <2> QED BY <1>1, <2>1, <2>2, <2>4, <2>5 DEF inner
<1>5. ASSUME NEW p \in 0 .. Len(sequence) - 1
      PROVE  /\ SameHead(sequence'[p + 1], sequence[p + 1])
             /\ p # head => sequence'[p + 1] = sequence[p + 1]
  BY <1>1 DEF Closes, SameHead
<1> QED BY <1>1, <1>2, <1>3, <1>4, <1>5

LEMMA ClosesFrames ==
    ASSUME IInv, IInv', FramesNest, HeadsBuilt,
           NEW kind, NEW top, NEW head, NEW falsePC, Closes(kind, top, head, falsePC)
    PROVE  FramesNest' /\ HeadsBuilt'
<1>1. \A i \in 1 .. Len(open') : i \in 1 .. Len(open) /\ open'[i] = open[i]
  BY ClosesTypes, StepTypes
<1>2. FramesNest'
  <2>1. \A i \in 1 .. Len(open') : i # 1 => i - 1 \in 1 .. Len(open')
    BY StepTypes
  <2>2. open[1].condPC <= Len(sequence')
    BY ClosesTypes, StepTypes
  <2> QED BY <1>1, <2>1, <2>2 DEF FramesNest
<1>3. HeadsBuilt'
  <2> SUFFICES ASSUME NEW i \in 2 .. Len(open')
               PROVE  /\ open[i].part = "body" =>
                           /\ open[i].condPC >= 1
                           /\ LoopHead(sequence'[open[i].condPC - 1 + 1],
                                       sequence'[open[i].condPC + 1], open[i])
                      /\ open[i].part # "body" =>
                            sequence'[open[i].condPC + 1].isaName = "IfCondition"
                      /\ open[i].part = "else" => open[i].condPC < open[i].elsePC
    <3>1. \A i \in 2 .. Len(open') : open'[i] = open[i]
      BY <1>1, StepTypes
    <3> QED BY <3>1 DEF HeadsBuilt, At
  <2>1. i \in 2 .. Len(open) /\ open[i].condPC \in Nat /\ open[i].condPC < Len(sequence)
    BY <1>1, StepTypes, SMTT(30)
  <2>2. open[i].condPC \in 0 .. Len(sequence) - 1
    BY <2>1, StepTypes
  <2>3. open[i].condPC >= 1 => open[i].condPC - 1 \in 0 .. Len(sequence) - 1
    BY <2>1, StepTypes
  <2>4. /\ SameHead(sequence'[open[i].condPC + 1], sequence[open[i].condPC + 1])
        /\ open[i].condPC >= 1 =>
             SameHead(sequence'[open[i].condPC - 1 + 1], sequence[open[i].condPC - 1 + 1])
    BY <2>2, <2>3, ClosesTypes
  <2>5. /\ open[i].part = "body" =>
             /\ open[i].condPC >= 1
             /\ LoopHead(sequence[open[i].condPC - 1 + 1], sequence[open[i].condPC + 1], open[i])
        /\ open[i].part # "body" => sequence[open[i].condPC + 1].isaName = "IfCondition"
        /\ open[i].part = "else" => open[i].condPC < open[i].elsePC
    BY <2>1 DEF HeadsBuilt, At
  <2> QED BY <2>4, <2>5 DEF SameHead, LoopHead
<1> QED BY <1>2, <1>3

LEMMA ClosesClosed ==
    ASSUME IInv, IInv', FramesNest, HeadsBuilt, ClosedLie, LoopsClosed, ClosedApart,
           ClosedNest,
           NEW kind, NEW top, NEW head, NEW falsePC, Closes(kind, top, head, falsePC)
    PROVE  ClosedLie' /\ LoopsClosed' /\ ClosedApart' /\ ClosedNest'
<1> DEFINE n    == Len(sequence)
           end  == Len(sequence')
           last == [kind |-> kind, condPC |-> head, elsePC |-> falsePC, endPC |-> end]
<1>0. /\ closed' = closed \cup {last}
      /\ n \in Nat /\ end \in Nat /\ n <= end
      /\ head \in Nat /\ head < n
      /\ last.kind = kind /\ last.condPC = head /\ last.endPC = end
  BY ClosesTypes, StepTypes DEF Closes
<1>1. \A c \in closed : /\ c.condPC \in Nat /\ c.endPC \in Nat
                        /\ c.condPC < c.endPC /\ c.endPC <= n
                        /\ c.endPC <= head \/ head < c.condPC
  <2>1. Len(open) \in 2 .. Len(open) /\ head = open[Len(open)].condPC
    BY ClosesTypes DEF Closes
  <2> QED BY <1>0, <2>1, StepTypes DEF ClosedLie, ClosedApart
<1>2. kind = "for" => /\ head >= 1 /\ n + 2 <= end
                      /\ LoopHead(sequence[head - 1 + 1], sequence[head + 1], top)
  <2>1. Len(open) \in 2 .. Len(open) /\ top = open[Len(open)] /\ head = top.condPC
    BY ClosesTypes DEF Closes
  <2> QED BY <2>1 DEF Closes, HeadsBuilt, At
<1> HIDE DEF n, end, last
<1>3. ClosedLie'
  <2>1. last.condPC < last.endPC /\ last.endPC <= end
    BY <1>0
  <2>2. last.kind = "for" => 1 <= last.condPC /\ last.condPC + 3 <= last.endPC
    BY <1>0, <1>2
  <2>3. \A c \in closed : c.endPC <= end
    BY <1>0, <1>1
  <2> QED BY <1>0, <2>1, <2>2, <2>3 DEF ClosedLie, end
<1>4. ClosedNest'
  <2>1. \A c \in closed : \/ Inside(c.condPC, last) /\ c.endPC <= last.endPC
                          \/ c.endPC <= last.condPC
    BY <1>0, <1>1 DEF Inside
  <2>2. Inside(last.condPC, last) /\ last.endPC <= last.endPC
    BY <1>0 DEF Inside
  <2> QED BY <1>0, <2>1, <2>2 DEF ClosedNest, Inside
<1>5. ClosedApart'
  <2> SUFFICES ASSUME NEW c \in closed', NEW i \in 2 .. Len(open')
               PROVE  /\ c.endPC <= open'[i].condPC \/ open'[i].condPC < c.condPC
                      /\ open'[i].part = "else" =>
                            c.endPC <= open'[i].elsePC \/ open'[i].elsePC <= c.condPC
    BY DEF ClosedApart
  <2>1. i \in 2 .. Len(open) /\ i \in 1 .. Len(open') /\ open'[i] = open[i] /\ i # 1
    BY ClosesTypes, StepTypes
  <2>2. CASE c \in closed
    BY <2>1, <2>2 DEF ClosedApart
  <2>3. CASE c = last
    <3>1. open[i].condPC < head
      BY <2>1, ClosesTypes
    <3>2. open[i].part = "else" => open[i].elsePC <= head
      <4>1. Len(open) \in 1 .. Len(open) /\ i \in 1 .. Len(open) /\ i < Len(open)
        BY <2>1, ClosesTypes, StepTypes
      <4>2. head = open[Len(open)].condPC
        BY DEF Closes
      <4> QED BY <4>1, <4>2 DEF FramesNest
    <3> QED BY <1>0, <2>1, <2>3, <3>1, <3>2
  <2> QED BY <1>0, <2>2, <2>3
<1>6. LoopsClosed'
  <2> SUFFICES ASSUME NEW c \in closed', c.kind = "for"
               PROVE  LET init == sequence'[c.condPC - 1 + 1]
                          cond == sequence'[c.condPC + 1]
                          inc  == sequence'[c.endPC - 2 + 1]
                          back == sequence'[c.endPC - 1 + 1]
                      IN
                      /\ init.isaName = "ForInit" /\ cond.isaName = "ForCondition"
                      /\ inc.isaName = "ForIncrement" /\ back.isaName = "Jump"
                      /\ init.forIV = cond.forIV /\ inc.forIV = cond.forIV
                      /\ init.forUB = cond.forUB /\ init.forStep = inc.forStep
                      /\ cond.jumpTarget = c.condPC + 1 /\ cond.fallthroughPC = c.endPC
                      /\ back.jumpTarget = c.condPC
    BY DEF LoopsClosed, At
  <2>1. CASE c \in closed
    <3>1. /\ c.condPC - 1 \in 0 .. n - 1
          /\ c.condPC \in 0 .. n - 1 /\ c.condPC # head
          /\ c.endPC - 2 \in 0 .. n - 1 /\ c.endPC - 2 # head
          /\ c.endPC - 1 \in 0 .. n - 1 /\ c.endPC - 1 # head
      <4>1. 1 <= c.condPC /\ c.condPC + 3 <= c.endPC
        BY <2>1 DEF ClosedLie
      <4> QED BY <4>1, <2>1, <1>0, <1>1
    <3>2. /\ SameHead(sequence'[c.condPC - 1 + 1], sequence[c.condPC - 1 + 1])
          /\ sequence'[c.condPC + 1] = sequence[c.condPC + 1]
          /\ sequence'[c.endPC - 2 + 1] = sequence[c.endPC - 2 + 1]
          /\ sequence'[c.endPC - 1 + 1] = sequence[c.endPC - 1 + 1]
      <4>1. \A p \in 0 .. n - 1 :
               /\ SameHead(sequence'[p + 1], sequence[p + 1])
               /\ p # head => sequence'[p + 1] = sequence[p + 1]
        BY ClosesTypes DEF n
      <4> QED BY <3>1, <4>1
    <3> QED BY <2>1, <3>2 DEF LoopsClosed, At, SameHead
  <2>2. CASE c = last
    <3>1. kind = "for"
      BY <1>0, <2>2
    <3>2. /\ head - 1 \in 0 .. n - 1 /\ head \in 0 .. n - 1
          /\ end - 2 + 1 = end - 1 /\ end - 1 + 1 = end
      BY <1>0, <1>2, <3>1
    <3>3. /\ SameHead(sequence'[head - 1 + 1], sequence[head - 1 + 1])
          /\ SameHead(sequence'[head + 1], sequence[head + 1])
      BY <3>2, ClosesTypes DEF n
    <3>4. /\ sequence'[end - 1].isaName = "ForIncrement"
          /\ sequence'[end - 1].forIV = top.iv
          /\ sequence'[end - 1].forStep = top.step
          /\ sequence'[end].isaName = "Jump" /\ sequence'[end].jumpTarget = head
          /\ sequence'[head + 1].jumpTarget = head + 1
          /\ sequence'[head + 1].fallthroughPC = end
      BY <3>1 DEF Closes, end
    <3> QED BY <1>0, <1>2, <2>2, <3>1, <3>2, <3>3, <3>4 DEF SameHead, LoopHead
  <2> QED BY <1>0, <2>1, <2>2
<1> QED BY <1>3, <1>4, <1>5, <1>6

LEMMA ClosesControl ==
    ASSUME IInv, IInv', FramesNest, HeadsBuilt, ClosedLie, ClosedApart,
           ControlEntersOpen, ControlEntersClosed,
           NEW kind, NEW top, NEW head, NEW falsePC, Closes(kind, top, head, falsePC)
    PROVE  ControlEntersOpen' /\ ControlEntersClosed'
<1> DEFINE n    == Len(sequence)
           end  == Len(sequence')
           last == [kind |-> kind, condPC |-> head, elsePC |-> falsePC, endPC |-> end]
<1>0. /\ closed' = closed \cup {last}
      /\ n \in Nat /\ end \in Nat /\ n <= end
      /\ head \in Nat /\ head < n /\ last.condPC = head /\ last.endPC = end
      /\ falsePC \in Nat /\ head < falsePC /\ falsePC <= end
      /\ Len(open) \in 2 .. Len(open) /\ head = open[Len(open)].condPC
  <2>1. /\ closed' = closed \cup {last} /\ head = open[Len(open)].condPC
        /\ last.condPC = head /\ last.endPC = end
    BY DEF Closes
  <2> HIDE DEF last
  <2> QED BY <2>1, ClosesTypes, StepTypes
<1>1. ASSUME NEW p \in 0 .. end, NEW q \in 0 .. end, Goes(sequence', p, q)
      PROVE  \/ /\ Goes(sequence, p, q) /\ p # head
                /\ p \in 0 .. n - 1 /\ q \in 0 .. n
             \/ p = head /\ q \in {head + 1, falsePC}
             \/ n <= p /\ (q = p + 1 \/ q = head)
  BY <1>1, StepTypes DEF Closes
<1>2. \A c \in closed : /\ c.condPC \in Nat /\ c.endPC \in Nat
                        /\ c.condPC < c.endPC /\ c.endPC <= n
                        /\ c.endPC <= head \/ head < c.condPC
                        /\ \/ falsePC = end
                           \/ c.endPC <= falsePC \/ falsePC <= c.condPC
  <2>1. falsePC = end \/ (open[Len(open)].part = "else" /\ falsePC = open[Len(open)].elsePC)
    BY DEF Closes
  <2>2. \A c \in closed : c.condPC \in Nat /\ c.endPC \in Nat
    BY <1>0, StepTypes
  <2>3. \A c \in closed : c.condPC < c.endPC /\ c.endPC <= n
    BY DEF ClosedLie
  <2> DEFINE inner == Len(open)
  <2>4. inner \in 2 .. Len(open)
    BY <1>0
  <2> HIDE DEF n, end, last
  <2>5. \A c \in closed :
           /\ c.endPC <= open[inner].condPC \/ open[inner].condPC < c.condPC
           /\ open[inner].part = "else" =>
                 c.endPC <= open[inner].elsePC \/ open[inner].elsePC <= c.condPC
    <3> HIDE DEF inner
    <3> QED BY <2>4 DEF ClosedApart
  <2> QED BY <1>0, <2>1, <2>2, <2>3, <2>5
<1>3. ControlEntersOpen'
  <2> SUFFICES ASSUME NEW i \in 2 .. Len(open'),
                      NEW p \in 0 .. end, NEW q \in 0 .. end, Goes(sequence', p, q)
               PROVE  /\ p < open'[i].condPC => q <= open'[i].condPC
                      /\ open'[i].condPC < p /\ ~ OpenCondition(p)' => open'[i].condPC <= q
    BY DEF ControlEntersOpen
  <2>1. /\ i \in 2 .. Len(open) /\ open'[i] = open[i]
        /\ open[i].condPC \in Nat /\ open[i].condPC < head
    <3>1. i \in 1 .. Len(open') /\ i # 1
      BY StepTypes
    <3> QED BY <3>1, ClosesTypes, StepTypes, SMTT(30)
  <2>2. p # head /\ OpenCondition(p) => OpenCondition(p)'
    <3> SUFFICES ASSUME NEW j \in 2 .. Len(open), open[j].condPC = p, p # head
                 PROVE  OpenCondition(p)'
      BY DEF OpenCondition
    <3>1. j # Len(open)
      BY <1>0
    <3>2. j \in 2 .. Len(open') /\ open'[j] = open[j]
      BY <3>1, StepTypes DEF Closes
    <3> QED BY <3>2 DEF OpenCondition
  <2>3. CASE Goes(sequence, p, q) /\ p # head /\ p \in 0 .. n - 1 /\ q \in 0 .. n
    <3>1. p \in 0 .. Len(sequence) /\ q \in 0 .. Len(sequence)
      BY <1>0, <2>3
    <3>2. /\ p < open[i].condPC => q <= open[i].condPC
          /\ open[i].condPC < p /\ ~ OpenCondition(p) => open[i].condPC <= q
      BY <2>1, <2>3, <3>1 DEF ControlEntersOpen
    <3> QED BY <2>1, <2>2, <2>3, <3>2
  <2> HIDE DEF n, end, last
  <2>4. CASE p = head /\ q \in {head + 1, falsePC}
    BY <1>0, <2>1, <2>4, SMTT(30)
  <2>5. CASE n <= p /\ (q = p + 1 \/ q = head)
    BY <1>0, <2>1, <2>5, SMTT(30)
  <2> QED BY <1>1, <2>3, <2>4, <2>5
<1>4. ControlEntersClosed'
  <2> SUFFICES ASSUME NEW c \in closed',
                      NEW p \in 0 .. end, NEW q \in 0 .. end, Goes(sequence', p, q)
               PROVE  /\ Inside(q, c) /\ ~ Inside(p, c) => q = c.condPC
                      /\ Inside(p, c) /\ ~ Inside(q, c) => q = c.endPC
    BY DEF ControlEntersClosed, Inside
  <2>1. CASE c \in closed
    <3>1. CASE Goes(sequence, p, q) /\ p # head /\ p \in 0 .. n - 1 /\ q \in 0 .. n
      BY <2>1, <3>1, <1>0, SMTT(30) DEF ControlEntersClosed
    <3> HIDE DEF n, end, last
    <3>2. /\ c.condPC \in Nat /\ c.endPC \in Nat
          /\ c.condPC < c.endPC /\ c.endPC <= n
          /\ c.endPC <= head \/ head < c.condPC
          /\ falsePC = end \/ c.endPC <= falsePC \/ falsePC <= c.condPC
      BY <1>2, <2>1
    <3>3. CASE p = head /\ q \in {head + 1, falsePC}
      BY <1>0, <3>2, <3>3, SMTT(30) DEF Inside
    <3>4. CASE n <= p /\ (q = p + 1 \/ q = head)
      BY <1>0, <3>2, <3>4, SMTT(30) DEF Inside
    <3> QED BY <1>1, <3>1, <3>3, <3>4
  <2>2. CASE c = last
    <3>1. CASE Goes(sequence, p, q) /\ p # head /\ p \in 0 .. n - 1 /\ q \in 0 .. n
      <4>1. p < head => q <= head
        BY <1>0, <3>1 DEF ControlEntersOpen
      <4>2. head < p => ~ OpenCondition(p)
        <5> SUFFICES ASSUME head < p, NEW j \in 2 .. Len(open), open[j].condPC = p
                     PROVE  FALSE
          BY DEF OpenCondition
        <5>1. open[j].condPC <= head
          BY <1>0, StepTypes, SMTT(30) DEF FramesNest
        <5> QED BY <1>0, <5>1, <3>1
      <4>3. head < p => head <= q
        BY <1>0, <3>1, <4>2 DEF ControlEntersOpen
      <4> HIDE DEF n, end, last
      <4> QED BY <1>0, <2>2, <3>1, <4>1, <4>3, SMTT(30) DEF Inside
    <3> HIDE DEF n, end, last
    <3>2. CASE p = head /\ q \in {head + 1, falsePC}
      BY <1>0, <2>2, <3>2, SMTT(30) DEF Inside
    <3>3. CASE n <= p /\ (q = p + 1 \/ q = head)
      BY <1>0, <2>2, <3>3, SMTT(30) DEF Inside
    <3> QED BY <1>1, <3>1, <3>2, <3>3
  <2> QED BY <1>0, <2>1, <2>2
<1> QED BY <1>3, <1>4

LEMMA ClosesBack ==
    ASSUME IInv, IInv', FramesNest, HeadsBuilt, BackAtLoopEnds,
           NEW kind, NEW top, NEW head, NEW falsePC, Closes(kind, top, head, falsePC)
    PROVE  BackAtLoopEnds'
<1> SUFFICES ASSUME NEW p, NEW q, Goes(sequence', p, q)
             PROVE  p < q \/ OpenCondition(p)' \/ LoopsBack(p, q)'
  BY DEF BackAtLoopEnds
<1> DEFINE last == [kind |-> kind, condPC |-> head,
                    elsePC |-> falsePC, endPC |-> Len(sequence')]
<1>0. /\ closed' = closed \cup {last} /\ last \in closed'
      /\ last.kind = kind /\ last.condPC = head /\ last.endPC = Len(sequence')
  BY DEF Closes
<1> HIDE DEF last
<1>1. CASE Goes(sequence, p, q) /\ p # head
  <2>1. p < q \/ OpenCondition(p) \/ LoopsBack(p, q)
    BY <1>1 DEF BackAtLoopEnds
  <2>2. ASSUME NEW j \in 2 .. Len(open), open[j].condPC = p
        PROVE  OpenCondition(p)'
    <3>1. j # Len(open)
      BY <1>1, <2>2 DEF Closes
    <3>2. j \in 2 .. Len(open') /\ open'[j] = open[j]
      BY <3>1, StepTypes DEF Closes
    <3> QED BY <2>2, <3>2 DEF OpenCondition
  <2>3. LoopsBack(p, q) => LoopsBack(p, q)'
    BY <1>0 DEF LoopsBack
  <2> QED BY <2>1, <2>2, <2>3 DEF OpenCondition
<1>2. CASE p = head /\ q \in {head + 1, falsePC}
  <2>1. head \in Nat /\ head < falsePC
    BY ClosesTypes
  <2> QED BY <1>2, <2>1
<1>3. CASE Len(sequence) <= p /\ q = p + 1
  <2>1. p \in Nat
    BY StepTypes DEF Goes
  <2> QED BY <1>3, <2>1
<1>4. CASE kind = "for" /\ p = Len(sequence') - 1 /\ q = head
  BY <1>0, <1>4 DEF LoopsBack
<1> QED BY <1>1, <1>2, <1>3, <1>4 DEF Closes

LEMMA ClosesYields ==
    ASSUME IInv, IInv', FramesNest, HeadsBuilt, ClosedLie, ClosedApart,
           YieldsAssignOpen, YieldsAssignClosed,
           NEW kind, NEW top, NEW head, NEW falsePC, Closes(kind, top, head, falsePC)
    PROVE  YieldsAssignOpen' /\ YieldsAssignClosed'
<1> DEFINE n    == Len(sequence)
           end  == Len(sequence')
           last == [kind |-> kind, condPC |-> head, elsePC |-> falsePC, endPC |-> end]
<1>0. /\ closed' = closed \cup {last} /\ last.kind = kind
      /\ n \in Nat /\ end \in Nat /\ n <= end
      /\ head \in Nat /\ head < n /\ last.condPC = head /\ last.endPC = end
      /\ Len(open) \in 2 .. Len(open) /\ head = open[Len(open)].condPC
      /\ Len(open') = Len(open) - 1 /\ top = open[Len(open)]
  BY ClosesTypes, StepTypes DEF Closes
<1>1. ASSUME NEW p \in 0 .. end, NEW v \in Value, Assigns(sequence', p, v)
      PROVE  \/ Assigns(sequence, p, v) /\ p \in 0 .. n - 1
             \/ n <= p /\ v \in Args(top.iterArgs)
  BY <1>1 DEF Closes, Assigns
<1>2. ASSUME NEW p \in 0 .. end, NEW v \in Value, Assigns(sequence', p, v),
             ~ InClosedLoop(p), head <= p
      PROVE  v \in Args(top.iterArgs)
  <2>1. CASE Assigns(sequence, p, v) /\ p \in 0 .. n - 1
    <3>1. Len(open) \in 1 .. Len(open) /\ p \in 0 .. Len(sequence)
      BY <1>0, <2>1
    <3>2. \A j \in Len(open) + 1 .. Len(open) : p < open[j].condPC
      BY <1>0
    <3> QED BY <1>0, <1>2, <2>1, <3>1, <3>2 DEF YieldsAssignOpen
  <2> QED BY <1>1, <1>2, <2>1
<1>3. YieldsAssignOpen'
  <2> SUFFICES ASSUME NEW p \in 0 .. end, NEW v \in Value, NEW i \in 1 .. Len(open'),
                      Assigns(sequence', p, v), ~ InClosedLoop(p)',
                      open'[i].condPC <= p,
                      \A j \in i + 1 .. Len(open') : p < open'[j].condPC
               PROVE  v \in Args(open'[i].iterArgs)
    BY DEF YieldsAssignOpen
  <2>1. /\ i \in 1 .. Len(open) - 1 /\ open'[i] = open[i]
        /\ open[i].condPC \in Nat
    BY ClosesTypes
  <2>2. ~ InClosedLoop(p)
    BY <1>0 DEF InClosedLoop, Inside
  <2>3. CASE p < head
    <3>1. Assigns(sequence, p, v) /\ p \in 0 .. Len(sequence)
      BY <1>0, <1>1, <2>3
    <3>2. \A j \in i + 1 .. Len(open) : p < open[j].condPC
      <4> TAKE j \in i + 1 .. Len(open)
      <4>1. CASE j = Len(open)
        BY <1>0, <2>3, <4>1
      <4>2. CASE j # Len(open)
        <5>1. j \in i + 1 .. Len(open') /\ j \in 1 .. Len(open')
          BY <1>0, <2>1, <4>2
        <5>2. open'[j] = open[j]
          BY <5>1, ClosesTypes
        <5> QED BY <5>1, <5>2
      <4> QED BY <4>1, <4>2
    <3>3. i \in 1 .. Len(open)
      BY <1>0, <2>1
    <3> QED BY <2>1, <2>2, <3>1, <3>2, <3>3 DEF YieldsAssignOpen
  <2>4. CASE head <= p
    <3>1. v \in Args(top.iterArgs)
      BY <1>2, <2>2, <2>4
    <3>2. i = Len(open) - 1
      <4> SUFFICES ASSUME i # Len(open) - 1
                   PROVE  FALSE
        OBVIOUS
      <4>1. Len(open) - 1 \in i + 1 .. Len(open') /\ Len(open) - 1 \in 1 .. Len(open')
        BY <1>0, <2>1
      <4>2. open'[Len(open) - 1].condPC \in Nat /\ open'[Len(open) - 1].condPC <= head
        BY <4>1, ClosesTypes
      <4>3. p < open'[Len(open) - 1].condPC
        BY <4>1
      <4>4. p \in Int /\ head \in Int
        BY <1>0
      <4> HIDE DEF n, end, last
      <4> QED BY <2>4, <4>2, <4>3, <4>4
    <3>3. CASE top.part \in {"then", "else"}
      <4>1. Len(open) \in 1 .. Len(open)
        BY <1>0
      <4>2. top.iterArgs = open[Len(open) - 1].iterArgs
        BY <1>0, <3>3, <4>1 DEF FramesNest
      <4> QED BY <2>1, <3>1, <3>2, <4>2
    <3>4. CASE top.part = "body"
      <4>1. kind = "for"
        BY <3>4 DEF Closes
      <4>2. p < end
        BY <1>0 DEF Assigns
      <4>3. InClosedLoop(p)'
        BY <1>0, <2>4, <4>1, <4>2 DEF InClosedLoop, Inside
      <4> QED BY <4>3
    <3>5. top.part \in {"body", "then", "else"}
      <4>1. Len(open) \in 1 .. Len(open) /\ Len(open) # 1
        BY <1>0, SMTT(30)
      <4>2. open[Len(open)] \in Frame
        BY <4>1, OpenType
      <4> QED BY <1>0, <4>1, <4>2 DEF FramesNest, Frame
    <3> QED BY <3>3, <3>4, <3>5
  <2> QED BY <1>0, <2>3, <2>4
<1>4. YieldsAssignClosed'
  <2> SUFFICES ASSUME NEW p \in 0 .. end, NEW v \in Value, NEW c \in closed',
                      Assigns(sequence', p, v), c.kind = "for", Inside(p, c),
                      \A d \in closed' : d.kind = "for" /\ Inside(p, d) => d.condPC <= c.condPC
               PROVE  v \in Args(sequence'[c.condPC - 1 + 1].iterArgs)
    BY DEF YieldsAssignClosed, Inside, At
  <2>1. CASE c \in closed
    <3>1. /\ c.condPC \in Nat /\ c.endPC \in Nat /\ c.endPC <= n
          /\ 1 <= c.condPC /\ c.condPC < c.endPC
      BY <1>0, <2>1, StepTypes DEF ClosedLie
    <3>2. Assigns(sequence, p, v) /\ p \in 0 .. Len(sequence)
      BY <1>0, <1>1, <3>1 DEF Inside
    <3>3. c.condPC - 1 \in 0 .. n - 1
      BY <3>1, <1>0
    <3>4. sequence'[c.condPC - 1 + 1].iterArgs = sequence[c.condPC - 1 + 1].iterArgs
      BY <3>3, ClosesTypes DEF SameHead
    <3> QED BY <1>0, <2>1, <3>2, <3>4 DEF YieldsAssignClosed, At
  <2>2. CASE c = last
    <3>1. kind = "for" /\ head <= p
      BY <1>0, <2>2 DEF Inside
    <3>2. ~ InClosedLoop(p)
      <4> SUFFICES ASSUME NEW d \in closed, d.kind = "for", Inside(p, d)
                   PROVE  FALSE
        BY DEF InClosedLoop
      <4>1. d.condPC <= head /\ d \in closed'
        BY <1>0, <2>2
      <4>2. d.endPC <= head \/ head < d.condPC
        BY <1>0 DEF ClosedApart
      <4>3. d.condPC \in Nat /\ d.endPC \in Nat
        BY <4>1, StepTypes
      <4> QED BY <1>0, <3>1, <4>1, <4>2, <4>3, SMTT(30) DEF Inside
    <3>3. v \in Args(top.iterArgs)
      BY <1>2, <3>1, <3>2
    <3>4. sequence'[head - 1 + 1].iterArgs = top.iterArgs
      <4>1. /\ head >= 1 /\ sequence[head - 1 + 1].iterArgs = top.iterArgs
        BY <1>0, <3>1 DEF Closes, HeadsBuilt, LoopHead, At
      <4>2. head - 1 \in 0 .. n - 1
        BY <1>0, <4>1, SMTT(30)
      <4> QED BY <4>1, <4>2, ClosesTypes DEF SameHead
    <3> QED BY <1>0, <2>2, <3>3, <3>4
  <2> QED BY <1>0, <2>1, <2>2
<1> QED BY <1>3, <1>4

LEMMA ClosesStep ==
    ASSUME IInv, IInv', StructureInv,
           NEW kind, NEW top, NEW head, NEW falsePC, Closes(kind, top, head, falsePC)
    PROVE  StructureInv'
BY ClosesFrames, ClosesClosed, ClosesControl, ClosesBack, ClosesYields DEF StructureInv

-----------------------------------------------------------------------------
(***************************************************************************)
(* The code that the actions emit: where control goes from it, and what    *)
(* its yields assign to.                                                   *)
(***************************************************************************)
LEMMA SuccessorsAt ==
    ASSUME NEW isa \in Instruction, NEW p \in Nat, NEW q,
           q \in Successors([isa EXCEPT !.pc = p])
    PROVE  /\ isa.isaName \notin {"Jump", "ConditionalJump", "ForCondition", "IfCondition"} =>
                 q = p + 1
           /\ isa.isaName = "Jump" => q = isa.jumpTarget
           /\ isa.isaName \in {"ForCondition", "IfCondition"} =>
                 q = isa.jumpTarget \/ q = isa.fallthroughPC
<1> DEFINE placed == [isa EXCEPT !.pc = p]
<1>1. /\ placed.isaName = isa.isaName /\ placed.pc = p
      /\ placed.jumpTarget = isa.jumpTarget
      /\ placed.fallthroughPC = isa.fallthroughPC
  BY DEF Instruction
<1>2. q \in Successors(placed)
  OBVIOUS
<1> HIDE DEF placed
<1> QED BY <1>1, <1>2 DEF Successors

\* Control and yields of a program with some code added.
LEMMA AddedCode ==
    ASSUME IInv, NEW isas \in Seq(Instruction)
    PROVE  /\ Len(sequence) \in Nat /\ Len(isas) \in Nat
           /\ Len(With(isas)) = Len(sequence) + Len(isas)
           /\ \A p \in 0 .. Len(sequence) - 1 : With(isas)[p + 1] = sequence[p + 1]
           /\ \A p \in 0 .. Len(With(isas)) - 1 :
                 \/ p \in 0 .. Len(sequence) - 1
                 \/ \E i \in 1 .. Len(isas) :
                       /\ p = Len(sequence) + i - 1
                       /\ With(isas)[p + 1] = [isas[i] EXCEPT !.pc = p]
           /\ \A p, q : Goes(With(isas), p, q) =>
                 \/ Goes(sequence, p, q)
                 \/ \E i \in 1 .. Len(isas) :
                       /\ p = Len(sequence) + i - 1
                       /\ q \in Successors([isas[i] EXCEPT !.pc = p])
           /\ \A p, v : Assigns(With(isas), p, v) =>
                 \/ Assigns(sequence, p, v)
                 \/ \E i \in 1 .. Len(isas) :
                       /\ p = Len(sequence) + i - 1
                       /\ isas[i].isaName = "YieldAssign" /\ isas[i].forIV = v
<1> DEFINE n == Len(sequence)
           code == With(isas)
<1>1. /\ n \in Nat /\ Len(isas) \in Nat /\ Len(code) = n + Len(isas)
      /\ \A i \in 1 .. n : code[i] = sequence[i]
      /\ \A i \in 1 .. Len(isas) : code[n + i] = [isas[i] EXCEPT !.pc = n + i - 1]
  BY WithProperties, OpenType, LenProperties DEF IInv
<1>2. \A i \in 1 .. Len(isas) : isas[i] \in Instruction
  BY ElementOfSeq
<1> HIDE DEF n, code
<1>3. \A p \in 0 .. n - 1 : p + 1 \in 1 .. n /\ code[p + 1] = sequence[p + 1]
  BY <1>1
<1>4. \A p \in 0 .. Len(code) - 1 :
         p \notin 0 .. n - 1 => /\ p + 1 - n \in 1 .. Len(isas)
                                /\ n + (p + 1 - n) = p + 1
                                /\ p = n + (p + 1 - n) - 1
  BY <1>1
<1>5. ASSUME NEW p \in 0 .. Len(code) - 1, p \notin 0 .. n - 1
      PROVE  \E i \in 1 .. Len(isas) :
                p = n + i - 1 /\ code[p + 1] = [isas[i] EXCEPT !.pc = p]
  <2> DEFINE i == p + 1 - n
  <2>1. i \in 1 .. Len(isas) /\ n + i = p + 1 /\ n + i - 1 = p
    BY <1>4, <1>5
  <2> HIDE DEF i
  <2>2. code[n + i] = [isas[i] EXCEPT !.pc = n + i - 1]
    BY <1>1, <2>1
  <2>3. code[p + 1] = [isas[i] EXCEPT !.pc = p]
    BY <2>1, <2>2, Zenon
  <2> QED BY <2>1, <2>3
<1>6. ASSUME NEW p, NEW q, Goes(code, p, q)
      PROVE  \/ Goes(sequence, p, q)
             \/ \E i \in 1 .. Len(isas) :
                   p = n + i - 1 /\ q \in Successors([isas[i] EXCEPT !.pc = p])
  <2>1. p \in 0 .. Len(code) - 1 /\ q \in Successors(code[p + 1])
    BY <1>6 DEF Goes
  <2>2. CASE p \in 0 .. n - 1
    BY <1>3, <2>1, <2>2 DEF Goes, n
  <2>3. CASE p \notin 0 .. n - 1
    BY <1>5, <2>1, <2>3
  <2> QED BY <2>2, <2>3
<1>7. ASSUME NEW p, NEW v, Assigns(code, p, v)
      PROVE  \/ Assigns(sequence, p, v)
             \/ \E i \in 1 .. Len(isas) :
                   /\ p = n + i - 1
                   /\ isas[i].isaName = "YieldAssign" /\ isas[i].forIV = v
  <2>1. /\ p \in 0 .. Len(code) - 1
        /\ code[p + 1].isaName = "YieldAssign" /\ code[p + 1].forIV = v
    BY <1>7 DEF Assigns
  <2>2. CASE p \in 0 .. n - 1
    BY <1>3, <2>1, <2>2 DEF Assigns, n
  <2>3. CASE p \notin 0 .. n - 1
    <3>1. PICK i \in 1 .. Len(isas) :
             p = n + i - 1 /\ code[p + 1] = [isas[i] EXCEPT !.pc = p]
      BY <1>5, <2>1, <2>3
    <3>2. isas[i].isaName = "YieldAssign" /\ isas[i].forIV = v
      BY <1>2, <2>1, <3>1 DEF Instruction
    <3> QED BY <3>1, <3>2
  <2> QED BY <2>2, <2>3
<1> QED BY <1>1, <1>3, <1>5, <1>6, <1>7 DEF n, code

(***************************************************************************)
(* Code that control goes through in order, and whose yields assign to the *)
(* iteration arguments of the innermost construct.                         *)
(***************************************************************************)
Straight(isas) ==
    \A i \in 1 .. Len(isas) :
        /\ isas[i].isaName \notin {"Jump", "ConditionalJump", "ForCondition", "IfCondition"}
        /\ isas[i].isaName = "YieldAssign" => isas[i].forIV \in Args(Top.iterArgs)

\* Code without calls, and a program whose calls are the ones it had.
NoCalls(isas) == \A i \in 1 .. Len(isas) : isas[i].isaName # "FuncCall"

OldCalls(code) ==
    \A p \in 0 .. Len(code) - 1 :
        code[p + 1].isaName = "FuncCall" =>
            p \in 0 .. Len(sequence) - 1 /\ code[p + 1] = sequence[p + 1]

LEMMA StraightConcat ==
    ASSUME NEW s \in Seq(Instruction), NEW t \in Seq(Instruction),
           Straight(s), Straight(t)
    PROVE  /\ s \o t \in Seq(Instruction) /\ Straight(s \o t)
           /\ NoCalls(s) /\ NoCalls(t) => NoCalls(s \o t)
<1> DEFINE u == s \o t
<1>1. /\ u \in Seq(Instruction) /\ Len(s) \in Nat /\ Len(t) \in Nat
      /\ Len(u) = Len(s) + Len(t)
      /\ \A i \in 1 .. Len(s) + Len(t) :
            u[i] = IF i <= Len(s) THEN s[i] ELSE t[i - Len(s)]
  BY ConcatCode
<1> HIDE DEF u
<1>2. \A i \in 1 .. Len(u) :
         \/ i \in 1 .. Len(s) /\ u[i] = s[i]
         \/ i - Len(s) \in 1 .. Len(t) /\ u[i] = t[i - Len(s)]
  BY <1>1
<1>3. Straight(u)
  BY <1>2 DEF Straight
<1>4. NoCalls(s) /\ NoCalls(t) => NoCalls(u)
  BY <1>2 DEF NoCalls
<1> QED BY <1>1, <1>3, <1>4 DEF u

LEMMA StraightYields ==
    ASSUME IInv, open # <<>>, NEW operands \in Seq(Value)
    PROVE  /\ Straight(YieldAssigns(operands)) /\ NoCalls(YieldAssigns(operands))
           /\ Straight(IfYields(operands)) /\ NoCalls(IfYields(operands))
<1> DEFINE args == Top.iterArgs
           m == IF Len(operands) < Len(args) THEN Len(operands) ELSE Len(args)
           assign(i) == [NewInstruction("YieldAssign") EXCEPT
                            !.condition = operands[i], !.forIV = args[i]]
           code == [i \in 1 .. m |-> assign(i)]
<1>1. args \in Seq(Value)
  BY TopType DEF IInv
<1> HIDE DEF args
<1>2. m \in Nat /\ \A i \in 1 .. m : i \in DOMAIN args
  BY <1>1, LenProperties
<1> HIDE DEF m
<1>3. /\ NewInstruction("YieldAssign") \in Instruction
      /\ NewInstruction("YieldAssign").isaName = "YieldAssign"
  BY NewInstructionType DEF IsaName
<1>4. \A i \in 1 .. m :
         assign(i).isaName = "YieldAssign" /\ assign(i).forIV = args[i]
  BY <1>3 DEF Instruction
<1> HIDE DEF assign
<1>5. Len(code) = m /\ \A i \in 1 .. m : code[i] = assign(i)
  BY <1>2
<1> HIDE DEF code
<1>6. Straight(code)
  <2> SUFFICES ASSUME NEW i \in 1 .. m
               PROVE  /\ code[i].isaName = "YieldAssign"
                      /\ code[i].forIV \in Args(args)
    BY <1>5 DEF Straight, args
  <2> QED BY <1>2, <1>4, <1>5 DEF Args
<1>7. Straight(YieldAssigns(operands)) /\ NoCalls(YieldAssigns(operands))
  <2>1. YieldAssigns(operands) = code
    BY DEF YieldAssigns, code, m, args, assign
  <2>2. NoCalls(code)
    BY <1>4, <1>5 DEF NoCalls
  <2> QED BY <1>6, <2>1, <2>2
<1> DEFINE last == IF Top.iterArgs = <<>> /\ operands # <<>>
                   THEN <<NewInstruction("IfYield")>> ELSE <<>>
<1>8. last \in Seq(Instruction) /\ Straight(last) /\ NoCalls(last)
  <2>1. NewInstruction("IfYield") \in Instruction /\ NewInstruction("IfYield").isaName = "IfYield"
    BY NewInstructionType DEF IsaName
  <2>2. /\ <<NewInstruction("IfYield")>> \in Seq(Instruction)
        /\ Straight(<<NewInstruction("IfYield")>>)
        /\ NoCalls(<<NewInstruction("IfYield")>>)
    BY <2>1 DEF Straight, NoCalls
  <2>3. <<>> \in Seq(Instruction) /\ Straight(<<>>) /\ NoCalls(<<>>)
    BY EmptySeq DEF Straight, NoCalls
  <2> QED BY <2>2, <2>3
<1>9. YieldAssigns(operands) \in Seq(Instruction)
  BY YieldAssignsType DEF IInv
<1>10. IfYields(operands) = YieldAssigns(operands) \o last
  BY DEF IfYields
<1> HIDE DEF last
<1> QED BY <1>7, <1>8, <1>9, <1>10, StraightConcat

LEMMA AddedCalls ==
    ASSUME IInv, NEW isas \in Seq(Instruction), NoCalls(isas)
    PROVE  OldCalls(With(isas))
<1> SUFFICES ASSUME NEW p \in 0 .. Len(With(isas)) - 1,
                    With(isas)[p + 1].isaName = "FuncCall"
             PROVE  p \in 0 .. Len(sequence) - 1 /\ With(isas)[p + 1] = sequence[p + 1]
  BY DEF OldCalls
<1>1. CASE p \in 0 .. Len(sequence) - 1
  BY <1>1, AddedCode
<1>2. CASE p \notin 0 .. Len(sequence) - 1
  <2>1. PICK i \in 1 .. Len(isas) : With(isas)[p + 1] = [isas[i] EXCEPT !.pc = p]
    BY <1>2, AddedCode, SMTT(30)
  <2>2. isas[i] \in Instruction
    BY ElementOfSeq
  <2>3. isas[i].isaName = "FuncCall"
    BY <2>1, <2>2 DEF Instruction
  <2> QED BY <2>3 DEF NoCalls
<1> QED BY <1>1, <1>2

\* Where control goes, and what yields assign to, once straight code is added.
LEMMA StraightAdded ==
    ASSUME IInv, NEW isas \in Seq(Instruction), Straight(isas)
    PROVE  /\ \A p, q : Goes(With(isas), p, q) =>
                 Goes(sequence, p, q) \/ (Len(sequence) <= p /\ q = p + 1)
           /\ \A p, v : Assigns(With(isas), p, v) =>
                 \/ Assigns(sequence, p, v)
                 \/ Len(sequence) <= p /\ v \in Args(Top.iterArgs)
<1>1. /\ Len(sequence) \in Nat /\ Len(isas) \in Nat
      /\ \A i \in 1 .. Len(isas) : isas[i] \in Instruction
  BY AddedCode, ElementOfSeq
<1>2. ASSUME NEW p, NEW q, Goes(With(isas), p, q), ~ Goes(sequence, p, q)
      PROVE  Len(sequence) <= p /\ q = p + 1
  <2>1. PICK i \in 1 .. Len(isas) :
           p = Len(sequence) + i - 1 /\ q \in Successors([isas[i] EXCEPT !.pc = p])
    BY <1>2, AddedCode
  <2>2. p \in Nat /\ Len(sequence) <= p /\ isas[i] \in Instruction
    BY <1>1, <2>1
  <2>3. isas[i].isaName \notin {"Jump", "ConditionalJump", "ForCondition", "IfCondition"}
    BY DEF Straight
  <2> QED BY <2>1, <2>2, <2>3, SuccessorsAt
<1>3. ASSUME NEW p, NEW v, Assigns(With(isas), p, v), ~ Assigns(sequence, p, v)
      PROVE  Len(sequence) <= p /\ v \in Args(Top.iterArgs)
  <2>1. PICK i \in 1 .. Len(isas) :
           /\ p = Len(sequence) + i - 1
           /\ isas[i].isaName = "YieldAssign" /\ isas[i].forIV = v
    BY <1>3, AddedCode
  <2>2. Len(sequence) <= p
    BY <1>1, <2>1
  <2> QED BY <2>1, <2>2 DEF Straight
<1> QED BY <1>2, <1>3

-----------------------------------------------------------------------------
(***************************************************************************)
(* Each action is a step of one of the two kinds.                          *)
(***************************************************************************)
\* Straight code inside a construct or function goes on.
LEMMA StraightGoesOn ==
    ASSUME IInv, NEW isas \in Seq(Instruction), Straight(isas), Emit(isas),
           open # <<>>, closed' = closed, Len(open') = Len(open),
           \A i \in 1 .. Len(open') : FrameStays(i)
    PROVE  GoesOn
<1>1. sequence' = With(isas) /\ Top = open[Len(open)]
  BY DEF Emit, Top
<1>2. Len(open) \in Nat \ {0}
  BY TopType DEF IInv
<1>3. /\ Len(sequence) <= Len(sequence')
      /\ \A p \in 0 .. Len(sequence) - 1 : sequence'[p + 1] = sequence[p + 1]
  BY <1>1, AddedCode
<1>4. /\ \A p, q : Goes(sequence', p, q) =>
            Goes(sequence, p, q) \/ (Len(sequence) <= p /\ q = p + 1)
      /\ \A p, v : Assigns(sequence', p, v) =>
            \/ Assigns(sequence, p, v)
            \/ Len(sequence) <= p /\ v \in Args(open[Len(open)].iterArgs)
  BY <1>1, StraightAdded
<1> QED BY <1>2, <1>3, <1>4 DEF GoesOn

LEMMA UnchangedGoesOn ==
    ASSUME IInv, UNCHANGED vars
    PROVE  GoesOn /\ OldCalls(sequence')
<1>1. sequence' = sequence /\ open' = open /\ closed' = closed
  BY DEF vars
<1>2. Len(sequence) \in Nat /\ Len(open) \in Nat
  BY OpenType
<1>3. OldCalls(sequence')
  BY <1>1 DEF OldCalls
<1> QED BY <1>1, <1>2, <1>3 DEF GoesOn, FrameStays

LEMMA FlattenFuncOpGoesOn ==
    ASSUME IInv, NEW function \in Functions, FlattenFuncOp(function)
    PROVE  GoesOn /\ OldCalls(sequence')
<1> DEFINE frame == FuncFrame(nextPC)
<1>1. /\ sequence' = sequence /\ closed' = closed /\ open = <<>> /\ open' = <<frame>>
      /\ Len(sequence) \in Nat /\ nextPC = Len(sequence)
  BY OpenType DEF FlattenFuncOp, IInv, CounterIsSize
<1>2. frame.part = "func" /\ frame.condPC = nextPC /\ frame.iterArgs = <<>>
  BY DEF FuncFrame
<1> HIDE DEF frame
<1>3. Len(open) = 0 /\ Len(open') = 1 /\ open'[1] = frame
  BY <1>1
<1>4. FrameBegins(1)
  BY <1>1, <1>2, <1>3 DEF FrameBegins
<1>5. \A i \in 1 .. Len(open') : FrameBegins(i)
  BY <1>3, <1>4
<1>6. OldCalls(sequence')
  BY <1>1 DEF OldCalls
<1> QED BY <1>1, <1>3, <1>5, <1>6 DEF GoesOn

LEMMA AddNormalOpGoesOn ==
    ASSUME IInv, NEW op \in Ops, AddNormalOp(op)
    PROVE  GoesOn /\ OldCalls(sequence')
<1>1. op \in Instruction /\ op.isaName = "Operation"
  BY InputsAssumption
<1>2. <<op>> \in Seq(Instruction) /\ Straight(<<op>>) /\ NoCalls(<<op>>)
  BY <1>1 DEF Straight, NoCalls
<1>3. /\ Emit(<<op>>) /\ open # <<>> /\ closed' = closed /\ open' = open
      /\ \A i \in 1 .. Len(open') : FrameStays(i)
  BY DEF AddNormalOp, Reading, FrameStays
<1>4. OldCalls(sequence')
  BY <1>2, <1>3, AddedCalls DEF Emit
<1> QED BY <1>2, <1>3, <1>4, StraightGoesOn

LEMMA AddCallGoesOn ==
    ASSUME IInv, NEW callee \in Functions \cup Externals, AddCall(callee)
    PROVE  GoesOn
<1> DEFINE call == FuncCall(callee)
<1>1. call \in Instruction /\ call.isaName = "FuncCall"
  <2>1. /\ NewInstruction("FuncCall") \in Instruction
        /\ NewInstruction("FuncCall").isaName = "FuncCall"
    BY NewInstructionType DEF IsaName
  <2>2. callee \in Externals =>
           /\ ExternalInfo[callee].unit \in ExecutionUnitType
           /\ ExternalInfo[callee].latency \in Nat
    BY InputsAssumption
  <2> QED BY <2>1, <2>2 DEF FuncCall, Instruction
<1>2. Emit(<<call>>)
  BY DEF AddCall
<1> HIDE DEF call
<1>3. <<call>> \in Seq(Instruction) /\ Straight(<<call>>)
  BY <1>1 DEF Straight
<1>4. /\ open # <<>> /\ closed' = closed /\ open' = open
      /\ \A i \in 1 .. Len(open') : FrameStays(i)
  BY DEF AddCall, Reading, FrameStays
<1> QED BY <1>2, <1>3, <1>4, StraightGoesOn

\* The return ends the only construct left, the function.
LEMMA AddReturnGoesOn ==
    ASSUME IInv, FramesNest, AddReturn
    PROVE  GoesOn /\ OldCalls(sequence')
<1> DEFINE isa  == NewInstruction("FuncReturn")
           isas == <<isa>>
<1>1. isa \in Instruction /\ isa.isaName = "FuncReturn"
  BY NewInstructionType DEF IsaName
<1>2. sequence' = With(isas) /\ open' = Pop /\ closed' = closed
  BY DEF AddReturn, Emit
<1>3. Len(open') = 0 /\ Len(open) <= 1
  <2>1. Len(open) \in Nat \ {0} /\ Len(Pop) = Len(open) - 1 /\ Top.part = "func"
    BY TopType DEF AddReturn, InPart, IInv
  <2>2. Len(open) = 1
    BY <2>1 DEF FramesNest, Top
  <2> QED BY <1>2, <2>1, <2>2
<1> HIDE DEF isa
<1>4. /\ isas \in Seq(Instruction) /\ Len(isas) = 1 /\ Straight(isas)
      /\ \A i \in 1 .. Len(isas) : isas[i].isaName # "YieldAssign"
  BY <1>1 DEF Straight
<1>7. NoCalls(isas)
  BY <1>1 DEF NoCalls
<1> HIDE DEF isas
<1>5. /\ Len(sequence) <= Len(sequence')
      /\ \A p \in 0 .. Len(sequence) - 1 : sequence'[p + 1] = sequence[p + 1]
      /\ \A p, v : Assigns(sequence', p, v) => Assigns(sequence, p, v)
  BY <1>2, <1>4, AddedCode
<1>6. \A p, q : Goes(sequence', p, q) =>
         Goes(sequence, p, q) \/ (Len(sequence) <= p /\ q = p + 1)
  BY <1>2, <1>4, StraightAdded
<1>8. OldCalls(sequence')
  BY <1>2, <1>4, <1>7, AddedCalls
<1> QED BY <1>2, <1>3, <1>5, <1>6, <1>8 DEF GoesOn

LEMMA EndThenGoesOn ==
    ASSUME IInv, NEW operands \in YieldOperands, EndThen(operands)
    PROVE  GoesOn /\ OldCalls(sequence')
<1> DEFINE n     == Len(open)
           frame == [open[n] EXCEPT !.part = "else",
                        !.elsePC = nextPC + Len(IfYields(operands))]
<1>1. operands \in Seq(Value) /\ open # <<>> /\ open[n].part = "then"
  BY InputsAssumption DEF EndThen, InPart, Top
<1>2. /\ IfYields(operands) \in Seq(Instruction) /\ Straight(IfYields(operands))
      /\ NoCalls(IfYields(operands))
      /\ Emit(IfYields(operands)) /\ closed' = closed
  BY <1>1, IfYieldsType, StraightYields DEF EndThen, IInv
<1>3. n \in Nat \ {0} /\ open \in Seq(Frame) /\ open[n] \in Frame
  BY <1>1, TopType DEF IInv, TypeOK, Top
<1>4. nextPC + Len(IfYields(operands)) = Len(sequence')
  BY <1>2, AddedCode DEF Emit, IInv, CounterIsSize
<1>5. Len(sequence') \in Nat
  BY <1>2, AddedCode DEF Emit
<1>6. /\ frame \in Frame /\ frame.part = "else" /\ frame.elsePC = Len(sequence')
      /\ frame.condPC = open[n].condPC /\ frame.iv = open[n].iv
      /\ frame.step = open[n].step /\ frame.iterArgs = open[n].iterArgs
  BY <1>3, <1>4, <1>5 DEF Frame
<1>7. open' = [open EXCEPT ![n] = frame]
  BY DEF EndThen
<1> HIDE DEF frame
<1>8. /\ Len(open') = n
      /\ \A i \in 1 .. n : open'[i] = IF i = n THEN frame ELSE open[i]
  BY <1>3, <1>6, <1>7, ExceptSeq
<1>9. \A i \in 1 .. Len(open') : FrameStays(i)
  BY <1>1, <1>6, <1>8 DEF FrameStays
<1>10. OldCalls(sequence')
  BY <1>2, AddedCalls DEF Emit
<1> QED BY <1>1, <1>2, <1>8, <1>9, <1>10, StraightGoesOn

(***************************************************************************)
(* Code that begins a construct ends in a condition that is not patched    *)
(* yet, and has neither jumps nor yields.                                  *)
(***************************************************************************)
Opening(isas, frame) ==
    LET n == Len(isas) IN
    /\ n >= 1
    /\ \A i \in 1 .. n : isas[i].isaName \notin {"Jump", "ConditionalJump", "YieldAssign"}
    /\ \A i \in 1 .. n :
          i # n => isas[i].isaName \notin {"ForCondition", "IfCondition"}
    /\ isas[n].isaName \in {"ForCondition", "IfCondition"}
    /\ isas[n].jumpTarget = 0 /\ isas[n].fallthroughPC = 0
    /\ frame.part \in {"body", "then"}
    /\ frame.condPC = Len(sequence) + n - 1
    /\ frame.part = "body" => n = 2 /\ LoopHead(isas[1], isas[2], frame)
    /\ frame.part = "then" =>
          isas[n].isaName = "IfCondition" /\ frame.iterArgs = Top.iterArgs

LEMMA OpeningGoesOn ==
    ASSUME IInv, NEW isas \in Seq(Instruction), NEW frame \in Frame,
           Opening(isas, frame), Emit(isas), open # <<>>,
           open' = Append(open, frame), closed' = closed
    PROVE  GoesOn
<1> DEFINE n == Len(sequence)
           m == Len(isas)
           k == Len(open)
<1>1. /\ n \in Nat /\ m \in Nat \ {0} /\ k \in Nat \ {0}
      /\ Len(sequence') = n + m
      /\ \A p \in 0 .. n - 1 : sequence'[p + 1] = sequence[p + 1]
      /\ frame.condPC = n + m - 1
      /\ \A i \in 1 .. m : isas[i] \in Instruction
  <2>1. /\ n \in Nat /\ m \in Nat /\ Len(With(isas)) = n + m
        /\ \A p \in 0 .. n - 1 : With(isas)[p + 1] = sequence[p + 1]
    BY AddedCode, SMTT(30)
  <2>2. k \in Nat \ {0}
    BY TopType DEF IInv
  <2>3. \A i \in 1 .. m : isas[i] \in Instruction
    BY ElementOfSeq
  <2>4. m >= 1 /\ frame.condPC = n + m - 1
    BY DEF Opening
  <2>5. m \in Nat \ {0}
    BY <2>1, <2>4
  <2>6. sequence' = With(isas)
    BY DEF Emit
  <2> HIDE DEF n, m, k
  <2>7. /\ Len(sequence') = n + m
        /\ \A p \in 0 .. n - 1 : sequence'[p + 1] = sequence[p + 1]
    BY <2>1, <2>6
  <2> QED BY <2>1, <2>2, <2>3, <2>4, <2>5, <2>7
<1>2. /\ Len(open') = k + 1 /\ open'[k + 1] = frame
      /\ \A i \in 1 .. k : open'[i] = open[i]
  BY OpenType, AppendProperties
<1>3. \A i \in 1 .. m : sequence'[n + i] = [isas[i] EXCEPT !.pc = n + i - 1]
  BY WithProperties DEF Emit, IInv
<1>4. \A i \in 1 .. m :
         LET placed == [isas[i] EXCEPT !.pc = n + i - 1] IN
         /\ placed.isaName = isas[i].isaName
         /\ placed.forIV = isas[i].forIV /\ placed.forUB = isas[i].forUB
         /\ placed.forStep = isas[i].forStep /\ placed.iterArgs = isas[i].iterArgs
  BY <1>1 DEF Instruction
<1>5. \A i \in 1 .. m :
         /\ sequence'[n + i].isaName = isas[i].isaName
         /\ sequence'[n + i].forIV = isas[i].forIV
         /\ sequence'[n + i].forUB = isas[i].forUB
         /\ sequence'[n + i].forStep = isas[i].forStep
         /\ sequence'[n + i].iterArgs = isas[i].iterArgs
  BY <1>3, <1>4
<1> HIDE DEF n, m, k
<1>6. FrameBegins(k + 1)
  <2>1. k + 1 # 1 /\ frame.part \in {"body", "then"}
    BY <1>1 DEF Opening
  <2>2. n <= frame.condPC /\ frame.condPC <= Len(sequence')
    BY <1>1
  <2>3. ASSUME frame.part = "body"
        PROVE  /\ frame.condPC >= 1
               /\ LoopHead(sequence'[frame.condPC], sequence'[frame.condPC + 1], frame)
    <3>1. m = 2 /\ LoopHead(isas[1], isas[2], frame)
      BY <2>3 DEF Opening, m
    <3>2. /\ frame.condPC = n + 1 /\ frame.condPC + 1 = n + 2
          /\ 1 \in 1 .. m /\ 2 \in 1 .. m
      BY <1>1, <3>1
    <3>3. LoopHead(sequence'[n + 1], sequence'[n + 2], frame)
      BY <1>5, <3>1, <3>2 DEF LoopHead
    <3> QED BY <1>1, <3>2, <3>3
  <2>4. ASSUME frame.part = "then"
        PROVE  /\ sequence'[frame.condPC + 1].isaName = "IfCondition"
               /\ frame.iterArgs = open[k].iterArgs
    <3>1. isas[m].isaName = "IfCondition" /\ frame.iterArgs = open[k].iterArgs
      BY <2>4 DEF Opening, m, k, Top
    <3>2. frame.condPC + 1 = n + m /\ m \in 1 .. m
      BY <1>1
    <3> QED BY <1>5, <3>1, <3>2
  <2>5. k + 1 - 1 = k /\ frame.part # "func"
    BY <1>1, <2>1
  <2> QED BY <1>2, <2>1, <2>2, <2>3, <2>4, <2>5 DEF FrameBegins, n, k
<1>7. \A i \in 1 .. k + 1 : FrameStays(i) \/ FrameBegins(i)
  <2>1. \A i \in 1 .. k : FrameStays(i)
    BY <1>1, <1>2 DEF FrameStays, k
  <2> QED BY <1>1, <1>6, <2>1
<1>8. ASSUME NEW p, NEW q, Goes(sequence', p, q), ~ Goes(sequence, p, q)
      PROVE  n <= p /\ (q = p + 1 \/ (q = 0 /\ p = frame.condPC))
  <2>1. PICK i \in 1 .. m : p = n + i - 1 /\ q \in Successors([isas[i] EXCEPT !.pc = p])
    BY <1>8, AddedCode DEF Emit, n, m
  <2>2. p \in Nat /\ n <= p /\ isas[i] \in Instruction
    BY <1>1, <2>1, SMTT(30)
  <2>3. CASE i # m
    <3>1. isas[i].isaName \notin {"Jump", "ConditionalJump", "ForCondition", "IfCondition"}
      BY <2>3 DEF Opening, m
    <3>2. q = p + 1
      BY <2>1, <2>2, <3>1, SuccessorsAt
    <3> QED BY <2>2, <3>2
  <2>4. CASE i = m
    <3>1. /\ isas[i].isaName \in {"ForCondition", "IfCondition"}
          /\ isas[i].jumpTarget = 0 /\ isas[i].fallthroughPC = 0
      BY <2>4 DEF Opening, m
    <3>2. q = 0
      BY <2>1, <2>2, <3>1, SuccessorsAt
    <3> QED BY <1>1, <2>1, <2>2, <2>4, <3>2
  <2> QED BY <2>3, <2>4
<1>9. ASSUME NEW p, NEW v, Assigns(sequence', p, v)
      PROVE  Assigns(sequence, p, v)
  <2>1. sequence' = With(isas)
    BY DEF Emit
  <2>2. \A i \in 1 .. Len(isas) : isas[i].isaName # "YieldAssign"
    BY DEF Opening
  <2>3. Assigns(With(isas), p, v)
    BY <1>9, <2>1
  <2>4. \/ Assigns(sequence, p, v)
        \/ \E i \in 1 .. Len(isas) :
              isas[i].isaName = "YieldAssign" /\ isas[i].forIV = v
    BY <2>3, AddedCode, SMTT(30)
  <2> QED BY <2>2, <2>4
<1>10. k + 1 >= 2 /\ n <= Len(sequence') /\ k <= k + 1
  BY <1>1
<1> QED BY <1>1, <1>2, <1>7, <1>8, <1>9, <1>10 DEF GoesOn, n, k

LEMMA BeginForGoesOn ==
    ASSUME IInv, NEW loop \in Loops, BeginFor(loop)
    PROVE  GoesOn /\ OldCalls(sequence')
<1> DEFINE init  == ForInit(loop)
           cond  == ForCondition(loop)
           isas  == <<init, cond>>
           frame == BodyFrame(loop)
<1>1. /\ loop.iv \in Value /\ loop.lb \in Value /\ loop.ub \in Value
      /\ loop.step \in Value
      /\ loop.iterArgs \in Seq(Value) /\ loop.iterArgInits \in Seq(Value)
  BY InputsAssumption DEF LoopHeader
<1>2. /\ init \in Instruction /\ init.isaName = "ForInit"
      /\ init.forIV = loop.iv /\ init.forUB = loop.ub /\ init.forStep = loop.step
      /\ init.iterArgs = loop.iterArgs
  <2>1. NewInstruction("ForInit") \in Instruction /\ NewInstruction("ForInit").isaName = "ForInit"
    BY NewInstructionType DEF IsaName
  <2> QED BY <1>1, <2>1 DEF ForInit, Instruction
<1>3. /\ cond \in Instruction /\ cond.isaName = "ForCondition"
      /\ cond.forIV = loop.iv /\ cond.forUB = loop.ub
      /\ cond.jumpTarget = 0 /\ cond.fallthroughPC = 0
  <2> DEFINE new == NewInstruction("ForCondition")
  <2>1. new \in Instruction /\ new.isaName = "ForCondition"
    BY NewInstructionType DEF IsaName
  <2>2. new.jumpTarget = 0 /\ new.fallthroughPC = 0
    BY DEF NewInstruction
  <2>3. cond = [new EXCEPT !.forIV = loop.iv, !.forUB = loop.ub, !.forStep = loop.step]
    BY DEF ForCondition
  <2> HIDE DEF new, cond
  <2> QED BY <1>1, <2>1, <2>2, <2>3 DEF Instruction
<1>4. Emit(isas) /\ open' = Append(open, frame) /\ open # <<>> /\ closed' = closed
  BY DEF BeginFor, Reading
<1> HIDE DEF init, cond
<1>5. /\ isas \in Seq(Instruction) /\ Len(isas) = 2
      /\ isas[1] = init /\ isas[2] = cond
  BY <1>2, <1>3
<1> HIDE DEF isas
<1>9. OldCalls(sequence')
  <2>1. NoCalls(isas)
    BY <1>2, <1>3, <1>5 DEF NoCalls
  <2> QED BY <1>4, <1>5, <2>1, AddedCalls DEF Emit
<1>6. nextPC = Len(sequence) /\ Len(sequence) \in Nat
  BY OpenType DEF IInv, CounterIsSize
<1>7. /\ frame \in Frame /\ frame.part = "body"
      /\ frame.condPC = Len(sequence) + 1
      /\ frame.iv = loop.iv /\ frame.step = loop.step /\ frame.iterArgs = loop.iterArgs
  <2> DEFINE new == FuncFrame(nextPC + 1)
  <2>1. new \in Frame /\ new.condPC = nextPC + 1
    BY <1>6, FuncFrameType
  <2>2. frame = [new EXCEPT !.part = "body", !.iv = loop.iv, !.step = loop.step,
                            !.iterArgs = loop.iterArgs]
    BY DEF BodyFrame
  <2> HIDE DEF new, frame
  <2> QED BY <1>1, <1>6, <2>1, <2>2 DEF Frame
<1> HIDE DEF frame
<1>8. Opening(isas, frame)
  <2>1. \A i \in 1 .. 2 : i = 1 \/ i = 2
    OBVIOUS
  <2>2. /\ \A i \in 1 .. 2 : isas[i].isaName \notin {"Jump", "ConditionalJump", "YieldAssign"}
        /\ \A i \in 1 .. 2 :
              i # 2 => isas[i].isaName \notin {"ForCondition", "IfCondition"}
        /\ isas[2].isaName \in {"ForCondition", "IfCondition"}
    BY <2>1, <1>2, <1>3, <1>5
  <2>3. LoopHead(isas[1], isas[2], frame)
    BY <1>2, <1>3, <1>5, <1>7 DEF LoopHead
  <2>4. frame.condPC = Len(sequence) + 2 - 1
    BY <1>6, <1>7
  <2> QED BY <1>3, <1>5, <1>7, <2>2, <2>3, <2>4 DEF Opening
<1> QED BY <1>4, <1>5, <1>7, <1>8, <1>9, OpeningGoesOn

LEMMA BeginIfGoesOn ==
    ASSUME IInv, NEW condition \in Conditions, NEW hasElse \in BOOLEAN,
           NEW results \in Nat, BeginIf(condition, hasElse, results)
    PROVE  GoesOn /\ OldCalls(sequence')
<1> DEFINE cond  == [NewInstruction("IfCondition") EXCEPT !.condition = condition]
           isas  == <<cond>>
           frame == [FuncFrame(nextPC) EXCEPT
                        !.part = "then", !.hasElse = hasElse,
                        !.results = results, !.iterArgs = Top.iterArgs]
<1>1. /\ cond \in Instruction /\ cond.isaName = "IfCondition"
      /\ cond.jumpTarget = 0 /\ cond.fallthroughPC = 0
  <2> DEFINE new == NewInstruction("IfCondition")
  <2>1. new \in Instruction /\ new.isaName = "IfCondition"
    BY NewInstructionType DEF IsaName
  <2>2. new.jumpTarget = 0 /\ new.fallthroughPC = 0
    BY DEF NewInstruction
  <2>3. cond = [new EXCEPT !.condition = condition] /\ condition \in Value
    BY InputsAssumption
  <2> HIDE DEF new, cond
  <2> QED BY <2>1, <2>2, <2>3 DEF Instruction
<1>2. Emit(isas) /\ open' = Append(open, frame) /\ open # <<>> /\ closed' = closed
  BY DEF BeginIf, Reading
<1> HIDE DEF cond
<1>3. isas \in Seq(Instruction) /\ Len(isas) = 1 /\ isas[1] = cond
  BY <1>1
<1> HIDE DEF isas
<1>7. OldCalls(sequence')
  <2>1. NoCalls(isas)
    BY <1>1, <1>3 DEF NoCalls
  <2> QED BY <1>2, <1>3, <2>1, AddedCalls DEF Emit
<1>4. nextPC = Len(sequence) /\ Len(sequence) \in Nat
  BY OpenType DEF IInv, CounterIsSize
<1>5. /\ frame \in Frame /\ frame.part = "then"
      /\ frame.condPC = Len(sequence) /\ frame.iterArgs = Top.iterArgs
  <2> DEFINE new == FuncFrame(nextPC)
  <2>1. new \in Frame /\ new.condPC = nextPC
    BY <1>4, FuncFrameType
  <2>2. Top.iterArgs \in Seq(Value)
    BY <1>2, TopType DEF IInv
  <2>3. frame = [new EXCEPT !.part = "then", !.hasElse = hasElse,
                            !.results = results, !.iterArgs = Top.iterArgs]
    OBVIOUS
  <2> HIDE DEF new, frame
  <2> QED BY <1>4, <2>1, <2>2, <2>3 DEF Frame
<1> HIDE DEF frame
<1>6. Opening(isas, frame)
  <2>1. \A i \in 1 .. 1 : i = 1
    OBVIOUS
  <2>2. frame.condPC = Len(sequence) + 1 - 1
    BY <1>4, <1>5
  <2> QED BY <1>1, <1>3, <1>5, <2>1, <2>2 DEF Opening
<1> QED BY <1>2, <1>3, <1>5, <1>6, <1>7, OpeningGoesOn

(***************************************************************************)
(* Code that ends a construct: straight up to a jump at its end.           *)
(***************************************************************************)
JumpsAtEnd(isas) ==
    /\ Len(isas) >= 1 /\ isas[Len(isas)].isaName = "Jump"
    /\ \A i \in 1 .. Len(isas) : i # Len(isas) =>
          /\ isas[i].isaName \notin {"Jump", "ConditionalJump", "ForCondition", "IfCondition"}
          /\ isas[i].isaName = "YieldAssign" => isas[i].forIV \in Args(Top.iterArgs)

LEMMA JumpAdded ==
    ASSUME IInv, NEW isas \in Seq(Instruction), JumpsAtEnd(isas)
    PROVE  /\ \A p, q : Goes(With(isas), p, q) =>
                 \/ Goes(sequence, p, q)
                 \/ /\ Len(sequence) <= p
                    /\ \/ q = p + 1
                       \/ /\ p = Len(sequence) + Len(isas) - 1
                          /\ q = isas[Len(isas)].jumpTarget
           /\ \A p, v : Assigns(With(isas), p, v) =>
                 \/ Assigns(sequence, p, v)
                 \/ Len(sequence) <= p /\ v \in Args(Top.iterArgs)
<1> DEFINE m == Len(isas)
<1>1. /\ Len(sequence) \in Nat /\ m \in Nat
      /\ \A i \in 1 .. m : isas[i] \in Instruction
  BY AddedCode, ElementOfSeq
<1>2. ASSUME NEW p, NEW q, Goes(With(isas), p, q), ~ Goes(sequence, p, q)
      PROVE  /\ Len(sequence) <= p
             /\ q = p + 1 \/ (p = Len(sequence) + m - 1 /\ q = isas[m].jumpTarget)
  <2>1. PICK i \in 1 .. m :
           p = Len(sequence) + i - 1 /\ q \in Successors([isas[i] EXCEPT !.pc = p])
    BY <1>2, AddedCode
  <2>2. p \in Nat /\ Len(sequence) <= p /\ isas[i] \in Instruction
    BY <1>1, <2>1
  <2>3. CASE i # m
    <3>1. isas[i].isaName \notin {"Jump", "ConditionalJump", "ForCondition", "IfCondition"}
      BY <2>3 DEF JumpsAtEnd
    <3>2. q = p + 1
      BY <2>1, <2>2, <3>1, SuccessorsAt
    <3> QED BY <2>2, <3>2
  <2>4. CASE i = m
    <3>1. isas[i].isaName = "Jump"
      BY <2>4 DEF JumpsAtEnd
    <3>2. q = isas[i].jumpTarget
      BY <2>1, <2>2, <3>1, SuccessorsAt
    <3> QED BY <2>1, <2>2, <2>4, <3>2
  <2> QED BY <2>3, <2>4
<1>3. ASSUME NEW p, NEW v, Assigns(With(isas), p, v), ~ Assigns(sequence, p, v)
      PROVE  Len(sequence) <= p /\ v \in Args(Top.iterArgs)
  <2>1. PICK i \in 1 .. m :
           /\ p = Len(sequence) + i - 1
           /\ isas[i].isaName = "YieldAssign" /\ isas[i].forIV = v
    BY <1>3, AddedCode
  <2>2. Len(sequence) <= p
    BY <1>1, <2>1
  <2>3. i # m
    BY <2>1 DEF JumpsAtEnd
  <2> QED BY <2>1, <2>2, <2>3 DEF JumpsAtEnd
<1> QED BY <1>2, <1>3

LEMMA LoopEndCode ==
    ASSUME IInv, open # <<>>, NEW operands \in Seq(Value)
    PROVE  LET isas == LoopEnd(operands)
               m    == Len(isas)
           IN  /\ isas \in Seq(Instruction) /\ JumpsAtEnd(isas) /\ NoCalls(isas)
               /\ m \in Nat /\ m >= 2
               /\ isas[m - 1].isaName = "ForIncrement"
               /\ isas[m - 1].forIV = Top.iv /\ isas[m - 1].forStep = Top.step
               /\ isas[m].isaName = "Jump" /\ isas[m].jumpTarget = Top.condPC
<1> DEFINE inc  == [NewInstruction("ForIncrement") EXCEPT
                       !.forIV = Top.iv, !.forStep = Top.step]
           back == [NewInstruction("Jump") EXCEPT !.jumpTarget = Top.condPC]
           body == YieldAssigns(operands)
           tail == <<inc, back>>
           isas == body \o tail
<1>1. /\ NewInstruction("ForIncrement") \in Instruction
      /\ NewInstruction("ForIncrement").isaName = "ForIncrement"
      /\ NewInstruction("Jump") \in Instruction
      /\ NewInstruction("Jump").isaName = "Jump"
  BY NewInstructionType DEF IsaName
<1>2. /\ inc \in Instruction /\ inc.isaName = "ForIncrement"
      /\ inc.forIV = Top.iv /\ inc.forStep = Top.step
      /\ back \in Instruction /\ back.isaName = "Jump" /\ back.jumpTarget = Top.condPC
  BY <1>1, TopType DEF Instruction, IInv
<1>3. LoopEnd(operands) = isas
  BY DEF LoopEnd
<1> HIDE DEF inc, back
<1>4. /\ tail \in Seq(Instruction) /\ Len(tail) = 2 /\ tail[1] = inc /\ tail[2] = back
  BY <1>2
<1>5. body \in Seq(Instruction) /\ Straight(body) /\ NoCalls(body)
  BY YieldAssignsType, StraightYields DEF IInv
<1> HIDE DEF body, tail
<1> DEFINE k == Len(body)
<1>6. /\ isas \in Seq(Instruction) /\ k \in Nat /\ Len(isas) = k + 2
      /\ \A i \in 1 .. k + 2 : isas[i] = IF i <= k THEN body[i] ELSE tail[i - k]
  <2>1. /\ isas \in Seq(Instruction) /\ Len(body) \in Nat
        /\ Len(isas) = Len(body) + Len(tail)
        /\ \A i \in 1 .. Len(body) + Len(tail) :
              isas[i] = IF i <= Len(body) THEN body[i] ELSE tail[i - Len(body)]
    BY <1>4, <1>5, ConcatCode, Zenon
  <2> HIDE DEF isas
  <2> QED BY <1>4, <2>1
<1> HIDE DEF isas, k
<1>7. /\ \A i \in 1 .. k : isas[i] = body[i]
      /\ isas[k + 1] = inc /\ isas[k + 2] = back
  <2>1. /\ k + 1 \in 1 .. k + 2 /\ k + 2 \in 1 .. k + 2
        /\ ~ (k + 1 <= k) /\ ~ (k + 2 <= k) /\ k + 1 - k = 1 /\ k + 2 - k = 2
        /\ \A i \in 1 .. k : i \in 1 .. k + 2 /\ i <= k
    BY <1>6
  <2> QED BY <1>4, <1>6, <2>1
<1>8. JumpsAtEnd(isas) /\ NoCalls(isas)
  <2> SUFFICES ASSUME NEW i \in 1 .. k + 2, i # k + 2
               PROVE  /\ isas[i].isaName \notin
                            {"Jump", "ConditionalJump", "ForCondition", "IfCondition", "FuncCall"}
                      /\ isas[i].isaName = "YieldAssign" =>
                            isas[i].forIV \in Args(Top.iterArgs)
    BY <1>2, <1>6, <1>7 DEF JumpsAtEnd, NoCalls
  <2>1. CASE i \in 1 .. k
    BY <1>5, <1>7, <2>1 DEF Straight, NoCalls, k
  <2>2. CASE i = k + 1
    BY <1>2, <1>7, <2>2
  <2> QED BY <1>6, <2>1, <2>2
<1>9. k + 2 - 1 = k + 1 /\ k + 2 >= 2
  BY <1>6
<1> QED BY <1>2, <1>3, <1>6, <1>7, <1>8, <1>9

LEMMA ElseEndCode ==
    ASSUME IInv, open # <<>>, NEW operands \in Seq(Value)
    PROVE  /\ ElseEnd(operands) \in Seq(Instruction)
           /\ JumpsAtEnd(ElseEnd(operands)) /\ NoCalls(ElseEnd(operands))
<1> DEFINE jump == NewInstruction("Jump")
           body == IfYields(operands)
           tail == <<jump>>
           isas == body \o tail
<1>1. jump \in Instruction /\ jump.isaName = "Jump"
  BY NewInstructionType DEF IsaName
<1>2. ElseEnd(operands) = isas
  BY DEF ElseEnd
<1> HIDE DEF jump
<1>3. tail \in Seq(Instruction) /\ Len(tail) = 1 /\ tail[1] = jump
  BY <1>1
<1>4. body \in Seq(Instruction) /\ Straight(body) /\ NoCalls(body)
  BY IfYieldsType, StraightYields DEF IInv
<1> HIDE DEF body, tail
<1> DEFINE k == Len(body)
<1>5. /\ isas \in Seq(Instruction) /\ k \in Nat /\ Len(isas) = k + 1
      /\ \A i \in 1 .. k + 1 : isas[i] = IF i <= k THEN body[i] ELSE tail[i - k]
  <2>1. /\ isas \in Seq(Instruction) /\ Len(body) \in Nat
        /\ Len(isas) = Len(body) + Len(tail)
        /\ \A i \in 1 .. Len(body) + Len(tail) :
              isas[i] = IF i <= Len(body) THEN body[i] ELSE tail[i - Len(body)]
    BY <1>3, <1>4, ConcatCode, Zenon
  <2> HIDE DEF isas
  <2> QED BY <1>3, <2>1
<1> HIDE DEF isas, k
<1>6. (\A i \in 1 .. k : isas[i] = body[i]) /\ isas[k + 1] = jump
  <2>1. /\ k + 1 \in 1 .. k + 1 /\ ~ (k + 1 <= k) /\ k + 1 - k = 1
        /\ \A i \in 1 .. k : i \in 1 .. k + 1 /\ i <= k
    BY <1>5
  <2> QED BY <1>3, <1>5, <2>1
<1>7. JumpsAtEnd(isas) /\ NoCalls(isas)
  <2> SUFFICES ASSUME NEW i \in 1 .. k + 1, i # k + 1
               PROVE  /\ isas[i].isaName \notin
                            {"Jump", "ConditionalJump", "ForCondition", "IfCondition", "FuncCall"}
                      /\ isas[i].isaName = "YieldAssign" =>
                            isas[i].forIV \in Args(Top.iterArgs)
    BY <1>1, <1>5, <1>6 DEF JumpsAtEnd, NoCalls
  <2>1. i \in 1 .. k
    BY <1>5
  <2> QED BY <1>4, <1>6, <2>1 DEF Straight, NoCalls, k
<1> QED BY <1>2, <1>5, <1>7

LEMMA InnermostConstruct ==
    ASSUME IInv, FramesNest, HeadsBuilt,
           InPart("body") \/ InPart("then") \/ InPart("else")
    PROVE  /\ Len(open) \in Nat \ {0} /\ Top = open[Len(open)] /\ Len(open) >= 2
           /\ Len(sequence) \in Nat
           /\ Top.condPC \in Nat /\ Top.condPC < Len(sequence)
           /\ Top.elsePC \in Nat /\ Top.elsePC <= Len(sequence)
           /\ sequence[Top.condPC + 1].isaName \in {"ForCondition", "IfCondition"}
<1>1. /\ Len(open) \in Nat \ {0} /\ Top = open[Len(open)] /\ Top.part # "func"
      /\ Top.condPC \in Nat /\ Top.elsePC \in Nat
  BY TopType DEF InPart, Top, IInv
<1>2. Len(open) # 1
  BY <1>1 DEF FramesNest
<1>3. Len(open) \in 2 .. Len(open) /\ Len(open) \in 1 .. Len(open) /\ Len(open) >= 2
  <2> DEFINE k == Len(open)
  <2>1. k \in Nat \ {0} /\ k # 1
    BY <1>1, <1>2
  <2> HIDE DEF k
  <2>2. k \in 2 .. k /\ k \in 1 .. k /\ k >= 2
    BY <2>1
  <2> QED BY <2>2 DEF k
<1>4. /\ Len(sequence) \in Nat /\ open[Len(open)].condPC < Len(sequence)
      /\ open[Len(open)].elsePC <= Len(sequence)
  <2> DEFINE k == Len(open)
  <2>1. k \in 1 .. Len(open) /\ k # 1
    BY <1>2, <1>3
  <2> HIDE DEF k
  <2>2. /\ Len(sequence) \in Nat /\ open[k].condPC < Len(sequence)
        /\ open[k].elsePC <= Len(sequence)
    BY <2>1, BuildTypes
  <2> QED BY <2>2 DEF k
<1>5. sequence[Top.condPC + 1].isaName \in {"ForCondition", "IfCondition"}
  BY <1>1, <1>3 DEF HeadsBuilt, LoopHead, At
<1> QED BY <1>1, <1>3, <1>4, <1>5

(***************************************************************************)
(* A construct is closed over code that ends it: what the code says of the *)
(* step once the condition is patched.                                     *)
(***************************************************************************)
CodeAdded(code) ==
    /\ Len(sequence) <= Len(code)
    /\ \A p \in 0 .. Len(sequence) - 1 : code[p + 1] = sequence[p + 1]
    /\ \A p, q : Goes(code, p, q) =>
          \/ Goes(sequence, p, q)
          \/ Len(sequence) <= p /\ q = p + 1
          \/ /\ Top.part = "body" /\ Len(sequence) <= p
             /\ p = Len(code) - 1 /\ q = Top.condPC
    /\ \A p, v : Assigns(code, p, v) =>
          \/ Assigns(sequence, p, v)
          \/ Len(sequence) <= p /\ v \in Args(Top.iterArgs)

LoopAdded(code, end) ==
    /\ Len(sequence) + 2 <= end
    /\ code[end - 1].isaName = "ForIncrement"
    /\ code[end - 1].forIV = Top.iv /\ code[end - 1].forStep = Top.step
    /\ code[end].isaName = "Jump" /\ code[end].jumpTarget = Top.condPC

LEMMA PatchCloses ==
    ASSUME IInv, FramesNest, HeadsBuilt,
           InPart("body") \/ InPart("then") \/ InPart("else"),
           NEW kind \in {"for", "if"}, NEW code \in Seq(Instruction),
           NEW falsePC \in Nat, NEW end \in Nat, end = Len(code),
           DensePCs(code), CodeAdded(code), OldCalls(code),
           Close(kind, code, falsePC, end),
           falsePC = end \/ (Top.part = "else" /\ falsePC = Top.elsePC),
           kind = "for" <=> Top.part = "body",
           kind = "for" => falsePC = end /\ LoopAdded(code, end)
    PROVE  Closes(kind, Top, Top.condPC, falsePC) /\ OldCalls(sequence')
<1> DEFINE n    == Len(sequence)
           head == Top.condPC
<1>1. /\ Len(open) \in Nat \ {0} /\ Top = open[Len(open)] /\ Len(open) >= 2
      /\ n \in Nat /\ head \in Nat /\ head < n /\ n <= end
  BY InnermostConstruct DEF CodeAdded
<1>2. code[head + 1] = sequence[head + 1]
  BY <1>1 DEF CodeAdded
<1>3. sequence[head + 1].isaName \in {"ForCondition", "IfCondition"}
  BY InnermostConstruct
<1>4. /\ Len(sequence') = end
      /\ \A i \in 1 .. end : i # head + 1 => sequence'[i] = code[i]
      /\ SameButTargets(sequence'[head + 1], code[head + 1])
      /\ sequence'[head + 1].jumpTarget = head + 1
      /\ sequence'[head + 1].fallthroughPC = falsePC
      /\ sequence'[head + 1] = Retarget(code[head + 1], head + 1, falsePC)
  <2>1. head \in Nat /\ head < end /\ head + 1 \in Nat
    BY <1>1
  <2>2. sequence' = UpdateConditionalJump(code, head, head + 1, falsePC)
    BY DEF Close
  <2>3. head < Len(code) /\ code[head + 1].isaName \in {"ForCondition", "IfCondition"}
    BY <1>2, <1>3, <2>1
  <2> DEFINE next == head + 1
             after == sequence'
  <2> HIDE DEF head, next, after
  <2>4. next \in Nat /\ after = UpdateConditionalJump(code, head, next, falsePC)
    BY <2>1, <2>2 DEF next, after
  <2>5. /\ after \in Seq(Instruction) /\ Len(after) = Len(code)
        /\ \A i \in 1 .. Len(code) : i # head + 1 => after[i] = code[i]
        /\ SameButTargets(after[head + 1], code[head + 1])
        /\ after[head + 1].jumpTarget = next
        /\ after[head + 1].fallthroughPC = falsePC
        /\ after[head + 1] = Patched(code[head + 1], next, falsePC)
    BY <2>1, <2>3, <2>4, PatchedCondition, SMTT(30)
  <2>6. Patched(code[head + 1], next, falsePC) = Retarget(code[head + 1], next, falsePC)
    BY DEF Patched, Retarget
  <2> QED BY <2>5, <2>6 DEF next, after
<1>6. /\ SameHead(sequence'[head + 1], sequence[head + 1])
      /\ sequence'[head + 1].jumpTarget = head + 1
      /\ sequence'[head + 1].fallthroughPC = falsePC
      /\ sequence'[head + 1] = Retarget(sequence[head + 1], head + 1, falsePC)
  BY <1>2, <1>4 DEF SameButTargets, SameHead
<1>7. /\ Len(open') = Len(open) - 1 /\ \A i \in 1 .. Len(open') : open'[i] = open[i]
      /\ closed' = closed \cup {[kind |-> kind, condPC |-> head,
                                 elsePC |-> falsePC, endPC |-> Len(sequence')]}
  BY <1>1, <1>4, TopType, SMTT(30) DEF Close, IInv
<1> HIDE DEF n, head
<1>8. \A p \in 0 .. n - 1 : p # head => sequence'[p + 1] = sequence[p + 1]
  <2> SUFFICES ASSUME NEW p \in 0 .. n - 1, p # head
               PROVE  sequence'[p + 1] = sequence[p + 1]
    OBVIOUS
  <2>1. p + 1 \in 1 .. end /\ p + 1 # head + 1
    BY <1>1 DEF n
  <2> QED BY <1>4, <2>1 DEF CodeAdded, n
<1>9. kind = "for" =>
         /\ falsePC = Len(sequence') /\ n + 2 <= Len(sequence')
         /\ sequence'[Len(sequence') - 1].isaName = "ForIncrement"
         /\ sequence'[Len(sequence') - 1].forIV = Top.iv
         /\ sequence'[Len(sequence') - 1].forStep = Top.step
         /\ sequence'[Len(sequence')].isaName = "Jump"
         /\ sequence'[Len(sequence')].jumpTarget = head
  <2> SUFFICES ASSUME n + 2 <= end
               PROVE  /\ sequence'[end - 1] = code[end - 1]
                      /\ sequence'[end] = code[end]
    BY <1>4 DEF n, head, LoopAdded
  <2>1. /\ end - 1 \in 1 .. end /\ end \in 1 .. end
        /\ end - 1 # head + 1 /\ end # head + 1
    BY <1>1
  <2> QED BY <1>4, <2>1
<1>10. ASSUME NEW p \in 0 .. end - 1, p # head
       PROVE  sequence'[p + 1] = code[p + 1]
  <2>1. p + 1 \in 1 .. end /\ p + 1 # head + 1
    BY <1>1, <1>10
  <2> QED BY <1>4, <2>1
<1>11. ASSUME NEW p, NEW q, Goes(sequence', p, q)
       PROVE  \/ Goes(sequence, p, q) /\ p # head
              \/ p = head /\ q \in {head + 1, falsePC}
              \/ n <= p /\ q = p + 1
              \/ kind = "for" /\ n <= p /\ p = Len(sequence') - 1 /\ q = head
  <2>1. p \in 0 .. end - 1 /\ q \in Successors(sequence'[p + 1])
    BY <1>4, <1>11 DEF Goes
  <2>2. CASE p = head
    <3>1. sequence'[head + 1].isaName \in {"ForCondition", "IfCondition"}
      BY <1>3, <1>6 DEF SameHead, head
    <3>2. q \in {head + 1, falsePC}
      BY <2>1, <2>2, <3>1, <1>6 DEF Successors, head
    <3> QED BY <2>2, <3>2
  <2>3. CASE p # head
    <3>1. Goes(code, p, q)
      BY <1>10, <2>1, <2>3 DEF Goes
    <3> QED BY <1>4, <2>3, <3>1 DEF CodeAdded, n, head
  <2> QED BY <2>2, <2>3
<1>12. ASSUME NEW p, NEW v, Assigns(sequence', p, v)
       PROVE  \/ Assigns(sequence, p, v)
              \/ n <= p /\ v \in Args(Top.iterArgs)
  <2>1. /\ p \in 0 .. end - 1 /\ sequence'[p + 1].isaName = "YieldAssign"
        /\ sequence'[p + 1].forIV = v
    BY <1>4, <1>12 DEF Assigns
  <2>2. p # head
    BY <1>3, <1>6, <2>1 DEF SameHead, head
  <2>3. Assigns(code, p, v)
    BY <1>10, <2>1, <2>2 DEF Assigns
  <2> QED BY <2>3 DEF CodeAdded, n
<1>13. n <= Len(sequence') /\ head = Top.condPC
  BY <1>1, <1>4, SMTT(30) DEF n, head
<1>14. Closes(kind, Top, Top.condPC, falsePC)
  BY <1>1, <1>4, <1>6, <1>7, <1>8, <1>9, <1>11, <1>12, <1>13 DEF Closes, n, head
<1>15. ASSUME NEW p \in 0 .. Len(sequence') - 1, sequence'[p + 1].isaName = "FuncCall"
       PROVE  p \in 0 .. n - 1 /\ sequence'[p + 1] = sequence[p + 1]
  <2>1. p # head
    BY <1>3, <1>6, <1>15 DEF SameHead, head
  <2>2. p \in 0 .. end - 1 /\ sequence'[p + 1] = code[p + 1]
    BY <1>4, <1>10, <2>1
  <2> QED BY <1>15, <2>2 DEF OldCalls, n
<1> QED BY <1>14, <1>15 DEF OldCalls, n

LEMMA EndForCloses ==
    ASSUME IInv, FramesNest, HeadsBuilt, NEW operands \in YieldOperands, EndFor(operands)
    PROVE  /\ Closes("for", Top, Top.condPC, nextPC + Len(LoopEnd(operands)))
           /\ OldCalls(sequence')
<1> DEFINE isas == LoopEnd(operands)
           m    == Len(isas)
           n    == Len(sequence)
           code == With(isas)
           end  == nextPC + m
<1>1. operands \in Seq(Value) /\ open # <<>> /\ InPart("body") /\ Top.part = "body"
  BY InputsAssumption DEF EndFor, InPart
<1>2. /\ isas \in Seq(Instruction) /\ JumpsAtEnd(isas) /\ NoCalls(isas)
      /\ m \in Nat /\ m >= 2
      /\ isas[m - 1].isaName = "ForIncrement"
      /\ isas[m - 1].forIV = Top.iv /\ isas[m - 1].forStep = Top.step
      /\ isas[m].isaName = "Jump" /\ isas[m].jumpTarget = Top.condPC
  BY <1>1, LoopEndCode
<1>3. Close("for", code, end, end)
  BY DEF EndFor
<1>4. nextPC = n /\ n \in Nat
  BY OpenType DEF IInv, CounterIsSize
<1> HIDE DEF isas
<1>5. /\ code \in Seq(Instruction) /\ DensePCs(code) /\ Len(code) = n + m
      /\ \A i \in 1 .. m : code[n + i] = [isas[i] EXCEPT !.pc = n + i - 1]
  BY <1>2, WithProperties DEF IInv
<1>6. end \in Nat /\ end = Len(code) /\ n <= end
  BY <1>2, <1>4, <1>5
<1>7. CodeAdded(code)
  <2>1. \A p \in 0 .. n - 1 : code[p + 1] = sequence[p + 1]
    BY <1>2, AddedCode
  <2>2. /\ \A p, q : Goes(code, p, q) =>
              \/ Goes(sequence, p, q)
              \/ n <= p /\ q = p + 1
              \/ n <= p /\ p = n + m - 1 /\ q = Top.condPC
        /\ \A p, v : Assigns(code, p, v) =>
              \/ Assigns(sequence, p, v)
              \/ n <= p /\ v \in Args(Top.iterArgs)
    BY <1>2, JumpAdded
  <2>3. n + m - 1 = Len(code) - 1 /\ Top.part = "body"
    BY <1>1, <1>5
  <2> QED BY <1>6, <2>1, <2>2, <2>3 DEF CodeAdded
<1>8. LoopAdded(code, end)
  <2>1. /\ m - 1 \in 1 .. m /\ m \in 1 .. m
        /\ n + (m - 1) = end - 1 /\ n + m = end /\ n + 2 <= end
    BY <1>2, <1>4
  <2>2. \A i \in 1 .. m :
           /\ code[n + i].isaName = isas[i].isaName
           /\ code[n + i].forIV = isas[i].forIV
           /\ code[n + i].forStep = isas[i].forStep
           /\ code[n + i].jumpTarget = isas[i].jumpTarget
    <3> TAKE i \in 1 .. m
    <3>1. isas[i] \in Instruction
      BY <1>2, ElementOfSeq
    <3>2. code[n + i] = [isas[i] EXCEPT !.pc = n + i - 1]
      BY <1>5
    <3> QED BY <3>1, <3>2 DEF Instruction
  <2> HIDE DEF m, n, code, end
  <2>3. /\ code[end - 1].isaName = "ForIncrement"
        /\ code[end - 1].forIV = Top.iv /\ code[end - 1].forStep = Top.step
    <3> DEFINE j == m - 1
    <3>1. j \in 1 .. m /\ n + j = end - 1 /\ j = m - 1
      BY <2>1
    <3> HIDE DEF j
    <3>2. /\ code[n + j].isaName = isas[j].isaName
          /\ code[n + j].forIV = isas[j].forIV
          /\ code[n + j].forStep = isas[j].forStep
      BY <2>2, <3>1
    <3> QED BY <1>2, <3>1, <3>2
  <2>4. code[end].isaName = "Jump" /\ code[end].jumpTarget = Top.condPC
    BY <1>2, <2>1, <2>2
  <2> QED BY <2>1, <2>3, <2>4 DEF LoopAdded, n
<1>9. OldCalls(code)
  BY <1>2, AddedCalls
<1> HIDE DEF code, end
<1>10. Closes("for", Top, Top.condPC, end) /\ OldCalls(sequence')
  BY <1>1, <1>3, <1>5, <1>6, <1>7, <1>8, <1>9, PatchCloses
<1> QED BY <1>10 DEF end, isas

LEMMA EndIfCloses ==
    ASSUME IInv, FramesNest, HeadsBuilt, EndIf
    PROVE  Closes("if", Top, Top.condPC, nextPC) /\ OldCalls(sequence')
<1>1. InPart("then") /\ Top.part = "then" /\ Close("if", sequence, nextPC, nextPC)
  BY DEF EndIf, InPart
<1>2. /\ sequence \in Seq(Instruction) /\ DensePCs(sequence)
      /\ nextPC \in Nat /\ nextPC = Len(sequence)
  BY DEF IInv, TypeOK, CounterIsSize
<1>3. CodeAdded(sequence) /\ OldCalls(sequence)
  BY <1>2 DEF CodeAdded, OldCalls
<1> QED BY <1>1, <1>2, <1>3, PatchCloses

LEMMA EndElseCloses ==
    ASSUME IInv, FramesNest, HeadsBuilt, NEW operands \in YieldOperands, EndElse(operands)
    PROVE  Closes("if", Top, Top.condPC, Top.elsePC) /\ OldCalls(sequence')
<1> DEFINE isas  == ElseEnd(operands)
           m     == Len(isas)
           n     == Len(sequence)
           added == With(isas)
           end   == nextPC + m
           code  == UpdateJumpTarget(added, end - 1, end)
<1>1. operands \in Seq(Value) /\ open # <<>> /\ InPart("else") /\ Top.part = "else"
  BY InputsAssumption DEF EndElse, InPart
<1>2. isas \in Seq(Instruction) /\ JumpsAtEnd(isas) /\ NoCalls(isas)
  BY <1>1, ElseEndCode
<1>3. Close("if", code, Top.elsePC, end)
  BY DEF EndElse
<1>4. nextPC = n /\ n \in Nat /\ m \in Nat /\ m >= 1 /\ Top.elsePC \in Nat
  BY <1>1, <1>2, OpenType, LenProperties, TopType DEF IInv, CounterIsSize, JumpsAtEnd
<1> HIDE DEF isas
<1>5. /\ added \in Seq(Instruction) /\ DensePCs(added) /\ Len(added) = n + m
      /\ added[n + m].isaName = "Jump"
  <2>1. /\ added \in Seq(Instruction) /\ DensePCs(added) /\ Len(added) = n + m
        /\ m > 0 => added[Len(added)].isaName = isas[m].isaName
    BY <1>2, WithProperties DEF IInv
  <2>2. isas[m].isaName = "Jump" /\ m > 0
    BY <1>2, <1>4 DEF JumpsAtEnd
  <2> HIDE DEF added
  <2> QED BY <2>1, <2>2
<1>6. end \in Nat /\ end = n + m /\ end - 1 \in Nat /\ end - 1 + 1 = end /\ n <= end - 1
  BY <1>4
<1> HIDE DEF n, m, end
<1>7. /\ \A p \in 0 .. n - 1 : added[p + 1] = sequence[p + 1]
      /\ \A p, q : Goes(added, p, q) =>
            \/ Goes(sequence, p, q)
            \/ n <= p /\ (q = p + 1 \/ p = n + m - 1)
      /\ \A p, v : Assigns(added, p, v) =>
            \/ Assigns(sequence, p, v)
            \/ n <= p /\ v \in Args(Top.iterArgs)
  BY <1>2, AddedCode, JumpAdded DEF n, m
<1>14. OldCalls(added)
  BY <1>2, AddedCalls
<1> HIDE DEF added
<1>8. /\ code \in Seq(Instruction) /\ Len(code) = end
      /\ \A i \in 1 .. end : i # end => code[i] = added[i]
      /\ SameButTargets(code[end], added[end]) /\ code[end].jumpTarget = end
  <2> DEFINE p == end - 1
  <2>1. /\ p \in Nat /\ p + 1 = end /\ p < Len(added) /\ added[p + 1].isaName = "Jump"
        /\ Len(added) = end
    BY <1>5, <1>6
  <2>2. code = UpdateJumpTarget(added, p, end)
    OBVIOUS
  <2> HIDE DEF p, code
  <2>3. /\ code \in Seq(Instruction) /\ Len(code) = Len(added)
        /\ \A i \in 1 .. Len(added) : i # p + 1 => code[i] = added[i]
        /\ SameButTargets(code[p + 1], added[p + 1])
        /\ code[p + 1].jumpTarget = end
    BY <1>5, <1>6, <2>1, <2>2, PatchedJump
  <2> QED BY <2>1, <2>3
<1> HIDE DEF code
<1>9. DensePCs(code)
  <2> SUFFICES ASSUME NEW i \in 1 .. end
               PROVE  code[i].pc = i - 1
    BY <1>8, LenProperties DEF DensePCs
  <2>1. added[i].pc = i - 1
    BY <1>5, <1>6, LenProperties DEF DensePCs
  <2>2. CASE i = end
    BY <1>8, <2>1, <2>2 DEF SameButTargets
  <2>3. CASE i # end
    BY <1>8, <2>1, <2>3
  <2> QED BY <2>2, <2>3
<1>10. \A p \in 0 .. end - 1 :
          p # end - 1 => p + 1 \in 1 .. end /\ p + 1 # end
  BY <1>6
<1>11. code[end].isaName = "Jump"
  BY <1>5, <1>6, <1>8 DEF SameButTargets
<1>12. CodeAdded(code)
  <2>1. ASSUME NEW p \in 0 .. n - 1
        PROVE  code[p + 1] = sequence[p + 1]
    <3>1. p \in 0 .. end - 1 /\ p # end - 1
      BY <1>4, <1>6
    <3>2. code[p + 1] = added[p + 1]
      BY <1>8, <1>10, <3>1
    <3> QED BY <1>7, <3>2
  <2>2. ASSUME NEW p, NEW q, Goes(code, p, q)
        PROVE  Goes(sequence, p, q) \/ (n <= p /\ q = p + 1)
    <3>1. p \in 0 .. end - 1 /\ q \in Successors(code[p + 1])
      BY <1>8, <2>2 DEF Goes
    <3>2. CASE p = end - 1
      <4>1. q \in Successors(code[end])
        BY <1>6, <3>1, <3>2
      <4>2. q = end
        BY <4>1, <1>8, <1>11 DEF Successors
      <4> QED BY <1>6, <3>2, <4>2
    <3>3. CASE p # end - 1
      <4>1. code[p + 1] = added[p + 1]
        BY <1>8, <1>10, <3>1, <3>3
      <4>2. Goes(added, p, q)
        BY <1>5, <1>6, <3>1, <4>1 DEF Goes
      <4>3. p # n + m - 1
        BY <1>4, <1>6, <3>3
      <4> QED BY <1>7, <4>2, <4>3
    <3> QED BY <3>2, <3>3
  <2>3. ASSUME NEW p, NEW v, Assigns(code, p, v)
        PROVE  Assigns(sequence, p, v) \/ (n <= p /\ v \in Args(Top.iterArgs))
    <3>1. /\ p \in 0 .. end - 1
          /\ code[p + 1].isaName = "YieldAssign" /\ code[p + 1].forIV = v
      BY <1>8, <2>3 DEF Assigns
    <3>2. p # end - 1
      BY <1>6, <1>11, <3>1
    <3>3. code[p + 1] = added[p + 1]
      BY <1>8, <1>10, <3>1, <3>2
    <3>4. Assigns(added, p, v)
      BY <1>5, <1>6, <3>1, <3>3 DEF Assigns
    <3> QED BY <1>7, <3>4
  <2>4. n <= Len(code)
    BY <1>4, <1>6, <1>8
  <2> QED BY <2>1, <2>2, <2>3, <2>4 DEF CodeAdded, n
<1>13. OldCalls(code)
  <2> SUFFICES ASSUME NEW p \in 0 .. end - 1, code[p + 1].isaName = "FuncCall"
               PROVE  p \in 0 .. n - 1 /\ code[p + 1] = sequence[p + 1]
    BY <1>8 DEF OldCalls, n
  <2>1. p # end - 1
    BY <1>6, <1>11
  <2>2. code[p + 1] = added[p + 1] /\ p \in 0 .. Len(added) - 1
    BY <1>5, <1>6, <1>8, <1>10, <2>1
  <2> QED BY <1>14, <2>2 DEF OldCalls, n
<1> QED BY <1>1, <1>3, <1>4, <1>6, <1>8, <1>9, <1>12, <1>13, PatchCloses

-----------------------------------------------------------------------------
(***************************************************************************)
(* StructureInv is inductive.                                              *)
(***************************************************************************)
LEMMA StructureInvInit == Init => StructureInv
<1> SUFFICES ASSUME Init
             PROVE  StructureInv
  OBVIOUS
<1>1. open = <<>> /\ closed = {} /\ sequence = <<>>
  BY DEF Init
<1>2. Len(open) = 0 /\ Len(sequence) = 0
  BY <1>1
<1>3. \A p, v : ~ Assigns(sequence, p, v) /\ ~ Goes(sequence, p, v)
  BY <1>2 DEF Assigns, Goes
<1> QED
  BY <1>1, <1>2, <1>3
  DEF StructureInv, FramesNest, HeadsBuilt, ClosedLie, LoopsClosed, ClosedApart,
      ClosedNest, ControlEntersOpen, ControlEntersClosed, BackAtLoopEnds,
      YieldsAssignOpen, YieldsAssignClosed

AnyCloses == \E kind, top, head, falsePC : Closes(kind, top, head, falsePC)

LEMMA StepKinds ==
    ASSUME IInv, IInv', StructureInv, [Next]_vars
    PROVE  GoesOn \/ AnyCloses
<1>0. FramesNest /\ HeadsBuilt
  BY DEF StructureInv
<1>1. ASSUME NEW function \in Functions, FlattenFuncOp(function)
      PROVE  GoesOn \/ AnyCloses
  BY <1>1, FlattenFuncOpGoesOn
<1>2. ASSUME NEW op \in Ops, AddNormalOp(op)
      PROVE  GoesOn \/ AnyCloses
  BY <1>2, AddNormalOpGoesOn
<1>3. ASSUME NEW callee \in Functions \cup Externals, AddCall(callee)
      PROVE  GoesOn \/ AnyCloses
  BY <1>3, AddCallGoesOn
<1>4. CASE AddReturn
  BY <1>0, <1>4, AddReturnGoesOn
<1>5. ASSUME NEW loop \in Loops, BeginFor(loop)
      PROVE  GoesOn \/ AnyCloses
  BY <1>5, BeginForGoesOn
<1>6. ASSUME NEW condition \in Conditions, NEW hasElse \in BOOLEAN,
             NEW operands \in YieldOperands, BeginIf(condition, hasElse, Len(operands))
      PROVE  GoesOn \/ AnyCloses
  <2>1. Len(operands) \in Nat
    BY InputsAssumption, LenProperties
  <2> QED BY <1>6, <2>1, BeginIfGoesOn
<1>7. ASSUME NEW operands \in YieldOperands, EndFor(operands)
      PROVE  GoesOn \/ AnyCloses
  BY <1>0, <1>7, EndForCloses DEF AnyCloses
<1>8. ASSUME NEW operands \in YieldOperands, EndThen(operands)
      PROVE  GoesOn \/ AnyCloses
  BY <1>8, EndThenGoesOn
<1>9. ASSUME NEW operands \in YieldOperands, EndElse(operands)
      PROVE  GoesOn \/ AnyCloses
  BY <1>0, <1>9, EndElseCloses DEF AnyCloses
<1>10. CASE EndIf
  BY <1>0, <1>10, EndIfCloses DEF AnyCloses
<1>11. CASE UNCHANGED vars
  BY <1>11, UnchangedGoesOn
<1> QED
  BY <1>1, <1>2, <1>3, <1>4, <1>5, <1>6, <1>7, <1>8, <1>9, <1>10, <1>11 DEF Next

LEMMA StructureInvStep ==
    IInv /\ IInv' /\ StructureInv /\ [Next]_vars => StructureInv'
<1> SUFFICES ASSUME IInv, IInv', StructureInv, [Next]_vars
             PROVE  StructureInv'
  OBVIOUS
<1>1. CASE GoesOn
  BY <1>1, GoesOnStep
<1>2. CASE AnyCloses
  BY <1>2, ClosesStep DEF AnyCloses
<1> QED BY <1>1, <1>2, StepKinds

LEMMA StructureInvariant == Spec => []StructureInv
<1>1. Init => StructureInv
  BY StructureInvInit
<1>2. IInv /\ IInv' /\ StructureInv /\ [Next]_vars => StructureInv'
  BY StructureInvStep
<1>3. Spec => []IInv
  BY IInvInvariant
<1> QED BY <1>1, <1>2, <1>3, PTL DEF Spec

(***************************************************************************)
(* Loops are closed: for every module the builder can read, every complete *)
(* loop, however deep in others, tests and steps its own variable, enters  *)
(* its body or leaves behind its jump, and jumps back to its condition.    *)
(***************************************************************************)
THEOREM LoopsStayClosed == Spec => []LoopsClosed
<1>1. StructureInv => LoopsClosed
  BY DEF StructureInv
<1> QED BY <1>1, StructureInvariant, PTL

(***************************************************************************)
(* Constructs nest, are entered at their condition only and left for the   *)
(* instruction behind them only, in every program that is built.           *)
(***************************************************************************)
THEOREM ConstructsSingleEntryExit == Spec => []SingleEntryExit
<1>1. ASSUME IInv, StructureInv
      PROVE  SingleEntryExit
  <2>1. FramesNest /\ ClosedNest /\ ControlEntersClosed
    BY <1>1 DEF StructureInv
  <2>2. ASSUME NEW c \in closed, NEW p \in 0 .. Len(sequence) - 1,
               NEW q \in Successors(At(p))
        PROVE  /\ Inside(q, c) /\ ~ Inside(p, c) => q = c.condPC
               /\ Inside(p, c) /\ ~ Inside(q, c) => q = c.endPC
    <3>1. Goes(sequence, p, q)
      BY <2>2 DEF Goes, At
    <3>2. Len(sequence) \in Nat /\ q \in 0 .. Len(sequence)
      BY <1>1, <2>1, <3>1, GoesInside, OpenType
    <3>3. p \in 0 .. Len(sequence)
      BY <3>2
    <3> QED BY <2>1, <3>1, <3>2, <3>3 DEF ControlEntersClosed
  <2> QED BY <2>1, <2>2 DEF SingleEntryExit, ClosedNest
<1> QED BY <1>1, IInvInvariant, StructureInvariant, PTL

(***************************************************************************)
(* Every way back is a loop's: in every program that is built, control     *)
(* goes back from the end of a complete loop to that loop's condition and  *)
(* from nowhere else, unpatched conditions aside.                          *)
(***************************************************************************)
THEOREM OnlyLoopsEverGoBack == Spec => []OnlyLoopsGoBack
<1>1. StructureInv => OnlyLoopsGoBack
  BY DEF StructureInv, BackAtLoopEnds, OnlyLoopsGoBack, Goes, At, OpenCondition, LoopsBack
<1> QED BY <1>1, StructureInvariant, PTL

(***************************************************************************)
(* Yields assign to the innermost loop: each assignment that a yield, of   *)
(* the loop or of an if in it, was turned into is to an iteration argument *)
(* of the innermost complete loop around it.                               *)
(***************************************************************************)
THEOREM YieldsStayInnermost == Spec => []YieldsAssignInnermost
<1>1. ASSUME IInv, StructureInv
      PROVE  YieldsAssignInnermost
  <2>1. FramesNest /\ YieldsAssignClosed
    BY <1>1 DEF StructureInv
  <2> SUFFICES ASSUME NEW p \in 0 .. Len(sequence) - 1, At(p).isaName = "YieldAssign",
                      NEW c \in closed, c.kind = "for", Inside(p, c),
                      \A d \in {e \in closed : e.kind = "for" /\ Inside(p, e)} :
                         d.condPC <= c.condPC
               PROVE  \E i \in DOMAIN At(c.condPC - 1).iterArgs :
                         At(c.condPC - 1).iterArgs[i] = At(p).forIV
    BY DEF YieldsAssignInnermost
  <2>2. At(p) \in Instruction /\ Len(sequence) \in Nat
    BY <1>1, <2>1, BuildTypes DEF At
  <2>3. At(p).forIV \in Value /\ p \in 0 .. Len(sequence)
    BY <2>2 DEF Instruction
  <2>4. Assigns(sequence, p, At(p).forIV)
    BY DEF Assigns, At
  <2>5. At(p).forIV \in Args(At(c.condPC - 1).iterArgs)
    BY <2>1, <2>3, <2>4 DEF YieldsAssignClosed
  <2> QED BY <2>5 DEF Args
<1> QED BY <1>1, IInvInvariant, StructureInvariant, PTL

(***************************************************************************)
(* Emitted code is final: whatever the builder reads next, it never        *)
(* touches an instruction again but the condition of the construct that    *)
(* ends, and of that the targets only.  The construct that ends is one not *)
(* complete before, since complete ones lie apart from the open ones.      *)
(***************************************************************************)
THEOREM EmittedCodeStaysFinal == Spec => EmittedCodeIsFinal
<1> DEFINE Final ==
        /\ Len(sequence) <= Len(sequence')
        /\ \A p \in 0 .. Len(sequence) - 1 :
              \/ sequence'[p + 1] = sequence[p + 1]
              \/ \E c \in closed' \ closed :
                    /\ c.condPC = p
                    /\ sequence'[p + 1] = Retarget(sequence[p + 1], p + 1, c.elsePC)
<1> HIDE DEF Final
<1>1. ASSUME IInv, IInv', StructureInv, [Next]_vars
      PROVE  Final
  <2>0. FramesNest /\ HeadsBuilt /\ ClosedLie /\ ClosedApart
    BY <1>1 DEF StructureInv
  <2>1. CASE GoesOn
    BY <2>1 DEF GoesOn, Final
  <2>2. CASE AnyCloses
    <3>1. PICK kind, top, head, falsePC : Closes(kind, top, head, falsePC)
      BY <2>2 DEF AnyCloses
    <3>2. /\ Len(open) \in 2 .. Len(open) /\ head \in Nat
          /\ head < Len(sequence) /\ Len(sequence) <= Len(sequence')
      <4>1. /\ Len(open) \in 2 .. Len(open)
            /\ head \in Nat /\ head < Len(sequence) /\ Len(sequence) <= Len(sequence')
            /\ falsePC \in Nat /\ head < falsePC /\ falsePC <= Len(sequence')
        BY <1>1, <2>0, <3>1, ClosesTypes, Zenon
      <4> QED BY <4>1
    <3> DEFINE new == [kind |-> kind, condPC |-> head,
                       elsePC |-> falsePC, endPC |-> Len(sequence')]
    <3>3. /\ head = open[Len(open)].condPC /\ new \in closed'
          /\ sequence'[head + 1] = Retarget(sequence[head + 1], head + 1, falsePC)
          /\ \A p \in 0 .. Len(sequence) - 1 :
                p # head => sequence'[p + 1] = sequence[p + 1]
      BY <3>1 DEF Closes
    <3>4. \A c \in closed : c.condPC # head
      <4> SUFFICES ASSUME NEW c \in closed
                   PROVE  c.condPC # head
        OBVIOUS
      <4>1. c.condPC \in Nat /\ c.endPC \in Nat
        BY <1>1, <2>0, BuildTypes
      <4>2. c.condPC < c.endPC
        BY <2>0 DEF ClosedLie
      <4>3. c.endPC <= head \/ head < c.condPC
        BY <2>0, <3>2, <3>3 DEF ClosedApart
      <4> QED BY <3>2, <4>1, <4>2, <4>3
    <3>5. new.condPC = head /\ new.elsePC = falsePC
      OBVIOUS
    <3> HIDE DEF new
    <3>6. new \in closed' \ closed
      BY <3>3, <3>4, <3>5
    <3>7. ASSUME NEW p \in 0 .. Len(sequence) - 1
          PROVE  \/ sequence'[p + 1] = sequence[p + 1]
                 \/ \E c \in closed' \ closed :
                       /\ c.condPC = p
                       /\ sequence'[p + 1] = Retarget(sequence[p + 1], p + 1, c.elsePC)
      <4>1. CASE p = head
        BY <3>3, <3>5, <3>6, <4>1
      <4>2. CASE p # head
        BY <3>3, <4>2
      <4> QED BY <4>1, <4>2
    <3> QED BY <3>2, <3>7 DEF Final
  <2> QED BY <1>1, <2>1, <2>2, StepKinds
<1>2. Final => /\ Len(sequence) <= Len(sequence')
               /\ \A p \in 0 .. Len(sequence) - 1 :
                     \/ At(p)' = At(p)
                     \/ \E c \in closed' \ closed :
                           /\ c.condPC = p
                           /\ At(p)' = Retarget(At(p), p + 1, c.elsePC)
  BY DEF At, Final
<1> QED BY <1>1, <1>2, IInvInvariant, StructureInvariant, PTL DEF Spec, EmittedCodeIsFinal

-----------------------------------------------------------------------------
(***************************************************************************)
(* Every call in the program is one the builder recorded: of a function of *)
(* the module, or of an external with its unit and latency.                *)
(***************************************************************************)
CallRecorded(isa, call) ==
    IF isa.isExternal
    THEN /\ call.callee \in Externals
         /\ ExternalInfo[call.callee] = [unit |-> isa.targetUnit, latency |-> isa.latency]
    ELSE call.callee \in Functions

CallsRecorded ==
    \A p \in 0 .. Len(sequence) - 1 :
        sequence[p + 1].isaName = "FuncCall" =>
            \E call \in calls : call.pc = p /\ CallRecorded(sequence[p + 1], call)

LEMMA AddCallRecords ==
    ASSUME IInv, CallsRecorded, NEW callee \in Functions \cup Externals, AddCall(callee)
    PROVE  CallsRecorded'
<1> DEFINE new  == FuncCall(callee)
           n    == Len(sequence)
           call == [callee |-> callee, pc |-> nextPC]
<1>1. new \in Instruction /\ CallRecorded(new, call)
  <2>1. /\ NewInstruction("FuncCall") \in Instruction
        /\ NewInstruction("FuncCall").isExternal = FALSE
    BY NewInstructionType DEF IsaName, NewInstruction
  <2>2. CASE callee \in Externals
    <3>1. /\ ExternalInfo[callee] \in [unit : ExecutionUnitType, latency : Nat]
      BY <2>2, InputsAssumption
    <3>2. /\ ExternalInfo[callee].unit \in ExecutionUnitType
          /\ ExternalInfo[callee].latency \in Nat
          /\ ExternalInfo[callee] = [unit    |-> ExternalInfo[callee].unit,
                                     latency |-> ExternalInfo[callee].latency]
      BY <3>1
    <3>3. /\ new \in Instruction /\ new.isExternal = TRUE
          /\ new.targetUnit = ExternalInfo[callee].unit
          /\ new.latency = ExternalInfo[callee].latency
      BY <2>1, <2>2, <3>2 DEF FuncCall, Instruction
    <3> QED BY <2>2, <3>2, <3>3 DEF CallRecorded
  <2>3. CASE callee \notin Externals
    <3>1. new \in Instruction /\ new.isExternal = FALSE
      BY <2>1, <2>3 DEF FuncCall, Instruction
    <3> QED BY <2>3, <3>1 DEF CallRecorded
  <2> QED BY <2>2, <2>3
<1>2. sequence' = With(<<new>>) /\ calls' = calls \cup {call} /\ call.pc = nextPC
  BY DEF AddCall, Emit
<1> HIDE DEF new, call
<1>3. <<new>> \in Seq(Instruction) /\ Len(<<new>>) = 1 /\ <<new>>[1] = new
  BY <1>1
<1>4. n \in Nat /\ nextPC = n
  BY OpenType DEF IInv, CounterIsSize
<1> SUFFICES ASSUME NEW p \in 0 .. Len(sequence') - 1,
                    sequence'[p + 1].isaName = "FuncCall"
             PROVE  \E c \in calls' : c.pc = p /\ CallRecorded(sequence'[p + 1], c)
  BY DEF CallsRecorded, CallRecorded
<1>5. CASE p \in 0 .. n - 1
  <2>1. sequence'[p + 1] = sequence[p + 1]
    BY <1>2, <1>3, <1>5, AddedCode
  <2> QED BY <1>2, <1>5, <2>1 DEF CallsRecorded
<1>6. CASE p \notin 0 .. n - 1
  <2>1. PICK i \in 1 .. 1 :
           p = n + i - 1 /\ With(<<new>>)[p + 1] = [<<new>>[i] EXCEPT !.pc = p]
    BY <1>2, <1>3, <1>6, AddedCode
  <2>2. p = n /\ i = 1
    BY <1>4, <2>1
  <2>3. sequence'[p + 1] = [new EXCEPT !.pc = p]
    BY <1>2, <1>3, <2>1, <2>2
  <2>4. CallRecorded(sequence'[p + 1], call)
    BY <1>1, <2>3 DEF CallRecorded, Instruction
  <2> QED BY <1>2, <1>4, <2>2, <2>4
<1> QED BY <1>5, <1>6

LEMMA OldCallsRecorded ==
    ASSUME CallsRecorded, OldCalls(sequence'), calls' = calls
    PROVE  CallsRecorded'
<1> SUFFICES ASSUME NEW p \in 0 .. Len(sequence') - 1,
                    sequence'[p + 1].isaName = "FuncCall"
             PROVE  \E c \in calls' : c.pc = p /\ CallRecorded(sequence'[p + 1], c)
  BY DEF CallsRecorded, CallRecorded
<1>1. p \in 0 .. Len(sequence) - 1 /\ sequence'[p + 1] = sequence[p + 1]
  BY DEF OldCalls
<1>2. sequence[p + 1].isaName = "FuncCall"
  BY <1>1
<1>3. PICK c \in calls : c.pc = p /\ CallRecorded(sequence[p + 1], c)
  BY <1>1, <1>2 DEF CallsRecorded
<1>4. CallRecorded(sequence'[p + 1], c)
  BY <1>1, <1>3, Zenon
<1> QED BY <1>3, <1>4

LEMMA CallsRecordedStep ==
    IInv /\ StructureInv /\ CallsRecorded /\ [Next]_vars => CallsRecorded'
<1> SUFFICES ASSUME IInv, StructureInv, CallsRecorded, [Next]_vars
             PROVE  CallsRecorded'
  OBVIOUS
<1>0. FramesNest /\ HeadsBuilt
  BY DEF StructureInv
<1>1. ASSUME NEW function \in Functions, FlattenFuncOp(function)
      PROVE  CallsRecorded'
  BY <1>1, FlattenFuncOpGoesOn, OldCallsRecorded DEF FlattenFuncOp
<1>2. ASSUME NEW op \in Ops, AddNormalOp(op)
      PROVE  CallsRecorded'
  BY <1>2, AddNormalOpGoesOn, OldCallsRecorded DEF AddNormalOp
<1>3. ASSUME NEW callee \in Functions \cup Externals, AddCall(callee)
      PROVE  CallsRecorded'
  BY <1>3, AddCallRecords
<1>4. CASE AddReturn
  BY <1>0, <1>4, AddReturnGoesOn, OldCallsRecorded DEF AddReturn
<1>5. ASSUME NEW loop \in Loops, BeginFor(loop)
      PROVE  CallsRecorded'
  BY <1>5, BeginForGoesOn, OldCallsRecorded DEF BeginFor
<1>6. ASSUME NEW condition \in Conditions, NEW hasElse \in BOOLEAN,
             NEW operands \in YieldOperands, BeginIf(condition, hasElse, Len(operands))
      PROVE  CallsRecorded'
  <2>1. Len(operands) \in Nat
    BY InputsAssumption, LenProperties
  <2>2. calls' = calls
    BY <1>6 DEF BeginIf
  <2> QED BY <1>6, <2>1, <2>2, BeginIfGoesOn, OldCallsRecorded
<1>7. ASSUME NEW operands \in YieldOperands, EndFor(operands)
      PROVE  CallsRecorded'
  BY <1>0, <1>7, EndForCloses, OldCallsRecorded DEF EndFor, Close
<1>8. ASSUME NEW operands \in YieldOperands, EndThen(operands)
      PROVE  CallsRecorded'
  BY <1>8, EndThenGoesOn, OldCallsRecorded DEF EndThen
<1>9. ASSUME NEW operands \in YieldOperands, EndElse(operands)
      PROVE  CallsRecorded'
  BY <1>0, <1>9, EndElseCloses, OldCallsRecorded DEF EndElse, Close
<1>10. CASE EndIf
  BY <1>0, <1>10, EndIfCloses, OldCallsRecorded DEF EndIf, Close
<1>11. CASE UNCHANGED vars
  BY <1>11, UnchangedGoesOn, OldCallsRecorded DEF vars
<1> QED
  BY <1>1, <1>2, <1>3, <1>4, <1>5, <1>6, <1>7, <1>8, <1>9, <1>10, <1>11 DEF Next

(***************************************************************************)
(* In every program that is built each call is recorded as what it is.     *)
(***************************************************************************)
LEMMA CallsStayRecorded == Spec => []CallsRecorded
<1>1. Init => CallsRecorded
  <2> SUFFICES ASSUME Init
               PROVE  CallsRecorded
    OBVIOUS
  <2>1. Len(sequence) = 0
    BY EmptySeq DEF Init
  <2> QED BY <2>1 DEF CallsRecorded
<1>2. IInv /\ StructureInv /\ CallsRecorded /\ [Next]_vars => CallsRecorded'
  BY CallsRecordedStep
<1> QED BY <1>1, <1>2, IInvInvariant, StructureInvariant, PTL DEF Spec

=============================================================================
