--------------------------- MODULE IsaSequenceProofs ---------------------------
(***************************************************************************)
(* What the operations on a unit return, whatever its queue holds, and     *)
(* what lookup and patching return, for every program.                     *)
(***************************************************************************)
EXTENDS IsaSequence, FiniteSetTheorems, WellFoundedInduction,
        SequenceTheorems, TLAPS

-----------------------------------------------------------------------------
(***************************************************************************)
(* Every non-empty set of natural numbers up to a bound has a least        *)
(* element: the shortest of the intervals that end in the set.             *)
(***************************************************************************)
LEMMA LeastNatural ==
    ASSUME NEW N \in Nat, NEW T \in SUBSET (0 .. N), T # {}
    PROVE  \E n \in T : \A m \in T : n <= m
<1> DEFINE S == 1 .. N
           R == StrictSubsetOrdering(S)
           Intervals == {1 .. n : n \in T}
<1>1. IsFiniteSet(S)
  BY FS_Interval
<1>2. IsWellFoundedOn(R, SUBSET S)
  BY <1>1, FS_StrictSubsetOrderingWellFounded, FS_FiniteSubsetsOfFinite
<1>3. Intervals \subseteq SUBSET S /\ Intervals # {}
  <2>1. \A n \in T : 1 .. n \subseteq S
    OBVIOUS
  <2> HIDE DEF S
  <2> QED BY <2>1
<1>4. PICK I \in Intervals : \A J \in Intervals : ~ (<<J, I>> \in R)
  <2> HIDE DEF R, Intervals, S
  <2> QED BY <1>2, <1>3, WFMin
<1>5. PICK n \in T : I = 1 .. n
  BY <1>4
<1>6. ASSUME NEW m \in T, m < n
      PROVE  FALSE
  <2>1. 1 .. m \subseteq 1 .. n /\ 1 .. m # 1 .. n
    <3>1. n \in 1 .. n /\ n \notin 1 .. m
      BY <1>6
    <3> QED BY <3>1, <1>6
  <2>2. 1 .. m \in SUBSET S /\ 1 .. n \in SUBSET S
    BY <1>6
  <2>3. <<1 .. m, 1 .. n>> \in R
    BY <2>1, <2>2 DEF StrictSubsetOrdering
  <2>4. 1 .. m \in Intervals
    BY <1>6
  <2> QED BY <2>3, <2>4, <1>4, <1>5
<1> QED BY <1>6, <1>5

(***************************************************************************)
(* ExecutionUnit::update pops the longest completed prefix: there is one,  *)
(* all of it is complete, and the next task, if any, is not.               *)
(***************************************************************************)
LEMMA PopCountProperties ==
    ASSUME NEW tasks \in Seq(PendingTask), NEW cycle \in Nat
    PROVE  /\ PopCount(tasks, cycle) \in 0 .. Len(tasks)
           /\ \A i \in 1 .. PopCount(tasks, cycle) : IsComplete(tasks[i], cycle)
           /\ PopCount(tasks, cycle) < Len(tasks)
                => ~ IsComplete(tasks[PopCount(tasks, cycle) + 1], cycle)
<1> DEFINE Stops(n) == n < Len(tasks) => ~ IsComplete(tasks[n + 1], cycle)
           T == {n \in 0 .. Len(tasks) : Stops(n)}
<1>1. PICK n \in T : \A m \in T : n <= m
  <2>1. Len(tasks) \in Nat
    BY LenProperties
  <2>2. Len(tasks) \in T
    BY <2>1
  <2> HIDE DEF Stops
  <2>3. T \in SUBSET (0 .. Len(tasks)) /\ T # {}
    BY <2>2
  <2> HIDE DEF T
  <2> QED BY <2>1, <2>3, LeastNatural
<1>2. \A i \in 1 .. n : IsComplete(tasks[i], cycle)
  <2> SUFFICES ASSUME NEW i \in 1 .. n, ~ IsComplete(tasks[i], cycle)
               PROVE  FALSE
    OBVIOUS
  <2>1. Len(tasks) \in Nat /\ n \in 0 .. Len(tasks)
    BY <1>1, LenProperties
  <2>2. i - 1 \in 0 .. Len(tasks) /\ (i - 1) + 1 = i /\ i - 1 < n
    BY <2>1
  <2>3. Stops(i - 1)
    BY <2>2
  <2> HIDE DEF Stops
  <2>4. n <= i - 1
    BY <1>1, <2>2, <2>3
  <2> QED BY <2>1, <2>2, <2>4
<1>3. n \in 0 .. Len(tasks) /\ Stops(n)
  BY <1>1
<1> QED BY <1>2, <1>3 DEF PopCount

(***************************************************************************)
(* The queue after update is the old one without its first k tasks, all of *)
(* them complete; nothing else of the unit moves but the busy flag.        *)
(***************************************************************************)
LEMMA UpdateUnitProperties ==
    ASSUME NEW unit \in ExecutionUnit, NEW cycle \in Nat
    PROVE  /\ UpdateUnit(unit, cycle) \in ExecutionUnit
           /\ UpdateUnit(unit, cycle).busyUntilCycle = unit.busyUntilCycle
           /\ \E k \in 0 .. Len(unit.pendingTasks) :
                /\ Len(UpdateUnit(unit, cycle).pendingTasks)
                      = Len(unit.pendingTasks) - k
                /\ \A i \in 1 .. Len(unit.pendingTasks) - k :
                      UpdateUnit(unit, cycle).pendingTasks[i]
                          = unit.pendingTasks[k + i]
                /\ \A i \in 1 .. k : IsComplete(unit.pendingTasks[i], cycle)
<1> DEFINE q == unit.pendingTasks
           k == PopCount(q, cycle)
           rest == SubSeq(q, k + 1, Len(q))
<1>1. q \in Seq(PendingTask) /\ unit.busyUntilCycle \in Nat
  BY DEF ExecutionUnit
<1>2. k \in 0 .. Len(q) /\ \A i \in 1 .. k : IsComplete(q[i], cycle)
  BY <1>1, PopCountProperties
<1>3. /\ rest \in Seq(PendingTask)
      /\ Len(rest) = Len(q) - k
      /\ \A i \in 1 .. Len(q) - k : rest[i] = q[k + i]
  <2> HIDE DEF q, k
  <2> QED BY <1>1, <1>2, SubSeqProperties
<1>4. IsBusy(unit, cycle) \in BOOLEAN
  BY DEF IsBusy
<1>5. UpdateUnit(unit, cycle) = [busy |-> IsBusy(unit, cycle),
                                 busyUntilCycle |-> unit.busyUntilCycle,
                                 pendingTasks |-> rest]
  BY DEF UpdateUnit
<1> HIDE DEF k, rest
<1> QED BY <1>1, <1>2, <1>3, <1>4, <1>5 DEF ExecutionUnit

(***************************************************************************)
(* Update loses no unfinished task and invents none.                       *)
(***************************************************************************)
LEMMA UpdateKeepsUnfinished ==
    ASSUME NEW unit \in ExecutionUnit, NEW cycle \in Nat
    PROVE  LET after == UpdateUnit(unit, cycle).pendingTasks IN
           {t \in {after[i] : i \in DOMAIN after} : ~ IsComplete(t, cycle)}
             = {t \in {unit.pendingTasks[i] : i \in DOMAIN unit.pendingTasks} :
                    ~ IsComplete(t, cycle)}
<1> DEFINE q == unit.pendingTasks
           after == UpdateUnit(unit, cycle).pendingTasks
<1>1. q \in Seq(PendingTask) /\ after \in Seq(PendingTask)
  BY UpdateUnitProperties DEF ExecutionUnit
<1>2. PICK k \in 0 .. Len(q) :
        /\ Len(after) = Len(q) - k
        /\ \A i \in 1 .. Len(q) - k : after[i] = q[k + i]
        /\ \A i \in 1 .. k : IsComplete(q[i], cycle)
  BY UpdateUnitProperties
<1> HIDE DEF q, after
<1>3. DOMAIN q = 1 .. Len(q) /\ DOMAIN after = 1 .. Len(after) /\ Len(q) \in Nat
  BY <1>1, LenProperties
<1>4. ASSUME NEW i \in DOMAIN after
      PROVE  \E j \in DOMAIN q : after[i] = q[j]
  <2>1. k + i \in DOMAIN q /\ after[i] = q[k + i]
    BY <1>2, <1>3
  <2> QED BY <2>1
<1>5. ASSUME NEW j \in DOMAIN q, ~ IsComplete(q[j], cycle)
      PROVE  \E i \in DOMAIN after : after[i] = q[j]
  <2>1. j > k
    BY <1>2, <1>3, <1>5
  <2>2. j - k \in DOMAIN after /\ after[j - k] = q[k + (j - k)]
    BY <2>1, <1>2, <1>3
  <2>3. k + (j - k) = j
    BY <1>2, <1>3
  <2> QED BY <2>2, <2>3
<1>6. {t \in {after[i] : i \in DOMAIN after} : ~ IsComplete(t, cycle)}
        = {t \in {q[i] : i \in DOMAIN q} : ~ IsComplete(t, cycle)}
  BY <1>4, <1>5
<1> QED BY <1>6 DEF q, after

(***************************************************************************)
(* Dispatch puts the task at the end of the queue and sets the clock by it.*)
(***************************************************************************)
LEMMA DispatchTaskProperties ==
    ASSUME NEW unit \in ExecutionUnit, NEW task \in PendingTask
    PROVE  /\ DispatchTask(unit, task) \in ExecutionUnit
           /\ DispatchTask(unit, task).busyUntilCycle = CompleteCycle(task)
           /\ LET n == Len(unit.pendingTasks)
                  after == DispatchTask(unit, task).pendingTasks
              IN  /\ Len(after) = n + 1
                  /\ DOMAIN after = 1 .. n + 1
                  /\ after[n + 1] = task
                  /\ \A i \in 1 .. n : after[i] = unit.pendingTasks[i]
<1> DEFINE q == unit.pendingTasks
<1>1. q \in Seq(PendingTask)
  BY DEF ExecutionUnit
<1>2. CompleteCycle(task) \in Nat
  BY DEF PendingTask, CompleteCycle
<1>3. /\ Append(q, task) \in Seq(PendingTask)
      /\ Len(Append(q, task)) = Len(q) + 1
      /\ Append(q, task)[Len(q) + 1] = task
      /\ \A i \in 1 .. Len(q) : Append(q, task)[i] = q[i]
      /\ DOMAIN Append(q, task) = 1 .. Len(q) + 1
  <2> HIDE DEF q
  <2> QED BY <1>1, AppendProperties, LenProperties
<1> QED BY <1>1, <1>2, <1>3 DEF DispatchTask, ExecutionUnit

-----------------------------------------------------------------------------
(***************************************************************************)
(* Fetching: a lookup by a PC that some instruction carries finds one.     *)
(***************************************************************************)
LEMMA PcToIndexInDomain ==
    ASSUME NEW seq \in Seq(Instruction), NEW p \in Nat, HasInstruction(seq, p)
    PROVE  /\ PcToIndex(seq, p) \in DOMAIN seq
           /\ GetInstructionByPC(seq, p) \in Instruction
           /\ GetInstructionByPC(seq, p).pc = p
<1> DEFINE N == Len(seq)
           T == {n \in 0 .. N : N - n \in DOMAIN seq /\ seq[N - n].pc = p}
<1>1. N \in Nat /\ DOMAIN seq = 1 .. N
  BY LenProperties
<1>2. PICK i \in DOMAIN seq : seq[i].pc = p
  BY DEF HasInstruction
<1>3. T # {}
  <2>1. N - i \in 0 .. N /\ N - (N - i) = i
    BY <1>1, <1>2
  <2> QED BY <2>1, <1>2
<1>4. PICK n \in T : \A m \in T : n <= m
  <2> HIDE DEF T
  <2>1. T \in SUBSET (0 .. N)
    BY DEF T
  <2> QED BY <1>1, <1>3, <2>1, LeastNatural
<1>5. ASSUME NEW j \in DOMAIN seq, seq[j].pc = p
      PROVE  j <= N - n
  <2>1. N - j \in 0 .. N /\ N - (N - j) = j
    BY <1>1
  <2>2. N - j \in T
    BY <2>1, <1>5
  <2>3. n <= N - j /\ n \in 0 .. N
    BY <2>2, <1>4
  <2> QED BY <2>3, <1>1
<1>6. N - n \in DOMAIN seq /\ seq[N - n].pc = p
  BY <1>4
<1>7. PcToIndex(seq, p) \in DOMAIN seq /\ seq[PcToIndex(seq, p)].pc = p
  <2> HIDE DEF N, T
  <2> QED BY <1>5, <1>6 DEF PcToIndex
<1> QED BY <1>7, ElementOfSeq, <1>1 DEF GetInstructionByPC

(***************************************************************************)
(* With dense PCs, the lookup by PC is the position.                       *)
(***************************************************************************)
LEMMA DenseLookup ==
    ASSUME NEW seq \in Seq(Instruction), DensePCs(seq),
           NEW p \in Nat, p < Len(seq)
    PROVE  HasInstruction(seq, p) /\ PcToIndex(seq, p) = p + 1
<1>1. Len(seq) \in Nat /\ DOMAIN seq = 1 .. Len(seq)
  BY LenProperties
<1>2. p + 1 \in DOMAIN seq /\ seq[p + 1].pc = p
  BY <1>1 DEF DensePCs
<1>3. HasInstruction(seq, p)
  BY <1>2 DEF HasInstruction
<1>4. PcToIndex(seq, p) \in DOMAIN seq /\ seq[PcToIndex(seq, p)].pc = p
  BY <1>2, <1>3, PcToIndexInDomain DEF GetInstructionByPC
<1>5. seq[PcToIndex(seq, p)].pc = PcToIndex(seq, p) - 1
  BY <1>4 DEF DensePCs
<1> QED BY <1>1, <1>3, <1>4, <1>5

(***************************************************************************)
(* Two programs that differ in targets only; and where patched targets may *)
(* have gone.                                                              *)
(***************************************************************************)
SameShape(s, t) ==
    /\ Len(s) = Len(t)
    /\ \A i \in 1 .. Len(s) : /\ s[i].isaName = t[i].isaName
                              /\ s[i].pc = t[i].pc
                              /\ s[i].isExternal = t[i].isExternal

TargetsFrom(s, t, extra) ==
    \A i \in 1 .. Len(s) : /\ s[i].jumpTarget \in {t[i].jumpTarget} \cup extra
                           /\ s[i].fallthroughPC \in {t[i].fallthroughPC} \cup extra

LEMMA UpdateConditionalJumpProperties ==
    ASSUME NEW seq \in Seq(Instruction), NEW p \in Nat,
           NEW truePC \in Nat, NEW falsePC \in Nat
    PROVE  LET after == UpdateConditionalJump(seq, p, truePC, falsePC) IN
           /\ after \in Seq(Instruction)
           /\ SameShape(after, seq)
           /\ TargetsFrom(after, seq, {truePC, falsePC})
<1> DEFINE after == UpdateConditionalJump(seq, p, truePC, falsePC)
           k == PcToIndex(seq, p)
           patched == [seq[k] EXCEPT !.jumpTarget = truePC, !.fallthroughPC = falsePC]
<1>1. CASE after = seq
  BY <1>1 DEF SameShape, TargetsFrom
<1>2. CASE HasInstruction(seq, p) /\ after = [seq EXCEPT ![k] = patched]
  <2>1. k \in 1 .. Len(seq) /\ seq[k] \in Instruction
    BY <1>2, PcToIndexInDomain, LenProperties, ElementOfSeq
  <2>2. patched \in Instruction
    BY <2>1 DEF Instruction
  <2>3. /\ patched.isaName = seq[k].isaName /\ patched.pc = seq[k].pc
        /\ patched.isExternal = seq[k].isExternal
        /\ patched.jumpTarget = truePC /\ patched.fallthroughPC = falsePC
    BY <2>1 DEF Instruction
  <2> HIDE DEF patched, k
  <2>4. /\ after \in Seq(Instruction)
        /\ Len(after) = Len(seq)
        /\ \A j \in 1 .. Len(seq) : after[j] = IF j = k THEN patched ELSE seq[j]
    BY <1>2, <2>1, <2>2, ExceptSeq
  <2>5. SameShape(after, seq) /\ TargetsFrom(after, seq, {truePC, falsePC})
    <3> HIDE DEF after
    <3> QED BY <2>3, <2>4 DEF SameShape, TargetsFrom
  <2> QED BY <2>4, <2>5
<1>3. after = seq \/ (HasInstruction(seq, p) /\ after = [seq EXCEPT ![k] = patched])
  BY DEF UpdateConditionalJump
<1> QED BY <1>1, <1>2, <1>3

LEMMA UpdateJumpTargetProperties ==
    ASSUME NEW seq \in Seq(Instruction), NEW p \in Nat, NEW targetPC \in Nat
    PROVE  LET after == UpdateJumpTarget(seq, p, targetPC) IN
           /\ after \in Seq(Instruction)
           /\ SameShape(after, seq)
           /\ TargetsFrom(after, seq, {targetPC})
<1> DEFINE after == UpdateJumpTarget(seq, p, targetPC)
           k == PcToIndex(seq, p)
           patched == [seq[k] EXCEPT !.jumpTarget = targetPC]
<1>1. CASE after = seq
  BY <1>1 DEF SameShape, TargetsFrom
<1>2. CASE HasInstruction(seq, p) /\ after = [seq EXCEPT ![k] = patched]
  <2>1. k \in 1 .. Len(seq) /\ seq[k] \in Instruction
    BY <1>2, PcToIndexInDomain, LenProperties, ElementOfSeq
  <2>2. patched \in Instruction
    BY <2>1 DEF Instruction
  <2>3. /\ patched.isaName = seq[k].isaName /\ patched.pc = seq[k].pc
        /\ patched.isExternal = seq[k].isExternal
        /\ patched.jumpTarget = targetPC /\ patched.fallthroughPC = seq[k].fallthroughPC
    BY <2>1 DEF Instruction
  <2> HIDE DEF patched, k
  <2>4. /\ after \in Seq(Instruction)
        /\ Len(after) = Len(seq)
        /\ \A j \in 1 .. Len(seq) : after[j] = IF j = k THEN patched ELSE seq[j]
    BY <1>2, <2>1, <2>2, ExceptSeq
  <2>5. SameShape(after, seq) /\ TargetsFrom(after, seq, {targetPC})
    <3> HIDE DEF after
    <3> QED BY <2>3, <2>4 DEF SameShape, TargetsFrom
  <2> QED BY <2>4, <2>5
<1>3. after = seq \/ (HasInstruction(seq, p) /\ after = [seq EXCEPT ![k] = patched])
  BY DEF UpdateJumpTarget
<1> QED BY <1>1, <1>2, <1>3

(***************************************************************************)
(* With dense PCs, what is patched is the instruction at the position of   *)
(* the PC, and of that its targets and no field that structure is in.      *)
(***************************************************************************)
SameButTargets(a, b) ==
    /\ a.isaName = b.isaName /\ a.pc = b.pc
    /\ a.forIV = b.forIV /\ a.forUB = b.forUB /\ a.forStep = b.forStep
    /\ a.iterArgs = b.iterArgs

Patched(isa, truePC, falsePC) ==
    [isa EXCEPT !.jumpTarget = truePC, !.fallthroughPC = falsePC]

LEMMA PatchedCondition ==
    ASSUME NEW seq \in Seq(Instruction), DensePCs(seq),
           NEW p \in Nat, p < Len(seq),
           seq[p + 1].isaName \in {"ForCondition", "IfCondition"},
           NEW truePC \in Nat, NEW falsePC \in Nat,
           NEW after, after = UpdateConditionalJump(seq, p, truePC, falsePC)
    PROVE  /\ after \in Seq(Instruction) /\ Len(after) = Len(seq)
           /\ \A i \in 1 .. Len(seq) : i # p + 1 => after[i] = seq[i]
           /\ SameButTargets(after[p + 1], seq[p + 1])
           /\ after[p + 1].jumpTarget = truePC
           /\ after[p + 1].fallthroughPC = falsePC
           /\ after[p + 1] = Patched(seq[p + 1], truePC, falsePC)
<1>1. HasInstruction(seq, p) /\ PcToIndex(seq, p) = p + 1
  BY DenseLookup
<1>2. p + 1 \in 1 .. Len(seq) /\ seq[p + 1] \in Instruction
  BY LenProperties, ElementOfSeq
<1>3. Kind(GetInstructionByPC(seq, p)) \in {"ForCondition", "IfCondition"}
  BY <1>1 DEF GetInstructionByPC, Kind
<1> DEFINE patched == [seq[p + 1] EXCEPT !.jumpTarget = truePC, !.fallthroughPC = falsePC]
<1>4. /\ patched \in Instruction /\ SameButTargets(patched, seq[p + 1])
      /\ patched.jumpTarget = truePC /\ patched.fallthroughPC = falsePC
  BY <1>2 DEF Instruction, SameButTargets
<1>5. UpdateConditionalJump(seq, p, truePC, falsePC) = [seq EXCEPT ![p + 1] = patched]
  BY <1>1, <1>3 DEF UpdateConditionalJump
<1> HIDE DEF patched
<1>6. /\ [seq EXCEPT ![p + 1] = patched] \in Seq(Instruction)
      /\ Len([seq EXCEPT ![p + 1] = patched]) = Len(seq)
      /\ \A i \in 1 .. Len(seq) :
            [seq EXCEPT ![p + 1] = patched][i] = IF i = p + 1 THEN patched ELSE seq[i]
  BY <1>2, <1>4, ExceptSeq
<1>7. after[p + 1] = patched
  BY <1>2, <1>5, <1>6
<1>8. /\ SameButTargets(after[p + 1], seq[p + 1])
      /\ after[p + 1].jumpTarget = truePC /\ after[p + 1].fallthroughPC = falsePC
  BY <1>4, <1>7
<1>9. patched = Patched(seq[p + 1], truePC, falsePC)
  BY DEF patched, Patched
<1> QED BY <1>5, <1>6, <1>7, <1>8, <1>9

LEMMA PatchedJump ==
    ASSUME NEW seq \in Seq(Instruction), DensePCs(seq),
           NEW p \in Nat, p < Len(seq), seq[p + 1].isaName = "Jump",
           NEW targetPC \in Nat,
           NEW after, after = UpdateJumpTarget(seq, p, targetPC)
    PROVE  /\ after \in Seq(Instruction) /\ Len(after) = Len(seq)
           /\ \A i \in 1 .. Len(seq) : i # p + 1 => after[i] = seq[i]
           /\ SameButTargets(after[p + 1], seq[p + 1])
           /\ after[p + 1].jumpTarget = targetPC
<1>1. HasInstruction(seq, p) /\ PcToIndex(seq, p) = p + 1
  BY DenseLookup
<1>2. p + 1 \in 1 .. Len(seq) /\ seq[p + 1] \in Instruction
  BY LenProperties, ElementOfSeq
<1>3. Kind(GetInstructionByPC(seq, p)) = "Jump"
  BY <1>1 DEF GetInstructionByPC, Kind
<1> DEFINE patched == [seq[p + 1] EXCEPT !.jumpTarget = targetPC]
<1>4. /\ patched \in Instruction /\ SameButTargets(patched, seq[p + 1])
      /\ patched.jumpTarget = targetPC
  BY <1>2 DEF Instruction, SameButTargets
<1>5. UpdateJumpTarget(seq, p, targetPC) = [seq EXCEPT ![p + 1] = patched]
  BY <1>1, <1>3 DEF UpdateJumpTarget
<1> HIDE DEF patched
<1>6. /\ [seq EXCEPT ![p + 1] = patched] \in Seq(Instruction)
      /\ Len([seq EXCEPT ![p + 1] = patched]) = Len(seq)
      /\ \A i \in 1 .. Len(seq) :
            [seq EXCEPT ![p + 1] = patched][i] = IF i = p + 1 THEN patched ELSE seq[i]
  BY <1>2, <1>4, ExceptSeq
<1> QED BY <1>2, <1>4, <1>5, <1>6

=============================================================================
