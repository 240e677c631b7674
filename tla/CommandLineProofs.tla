-------------------------- MODULE CommandLineProofs --------------------------
(***************************************************************************)
(* The configuration is layered: what main() makes of its options and of   *)
(* the configuration file, for every command line and every file.          *)
(***************************************************************************)
EXTENDS CommandLine, SequenceTheorems, TLAPS

-----------------------------------------------------------------------------
(***************************************************************************)
(* How far each stage is.  Every set of positions is that of a property,   *)
(* cut off before a position k.                                            *)
(***************************************************************************)
Before(indices, k) == {j \in indices : j < k}

Configs == Positions("--func-config")

\* The positions of a name among the pairs that were read.
Pairs(name) == {j \in DOMAIN funcCycles : funcCycles[j].name = name}

Word(digits) == digits % (MaxLatency + 1)

\* The options before k have been read, and nothing of the others is known.
ReadBefore(k) ==
    /\ configFile = IF Before(Configs, k) = {} THEN Absent
                    ELSE commandLine[LastOf(Before(Configs, k))].file
    /\ \A name \in Names :
          /\ Before(CyclesOf(name), k) = {} <=> Pairs(name) = {}
          /\ Pairs(name) # {} =>
                /\ LastOf(Pairs(name)) \in Pairs(name)
                /\ funcCycles[LastOf(Pairs(name))].latency
                      = Word(commandLine[LastOf(Before(CyclesOf(name), k))].digits)

OptionsRead ==
    /\ stage = "options" =>
          at \in 1 .. Len(commandLine) + 1 /\ ReadBefore(at)
    /\ stage \in {"load", "cycles", "parse"} => ReadBefore(Len(commandLine) + 1)

EntriesNamed(file, name) == {j \in DOMAIN file.entries : file.entries[j].name = name}

\* The entries before k have been stored, each over those of its name before.
StoredBefore(file, k) ==
    /\ k \in 1 .. Len(file.entries) + 2
    /\ ~ file.readable => k = 1
    /\ \A j \in DOMAIN file.entries : j < k => Converts(file.entries[j])
    /\ \A name \in Names :
          LET earlier == Before(EntriesNamed(file, name), k) IN
          /\ name \in DOMAIN functions <=> earlier # {}
          /\ earlier # {} =>
                LET entry == file.entries[LastOf(earlier)] IN
                functions[name] = Overlay(NewInfo, entry.latency, entry.unit)

\* Behind the entries and the default latency, that latency has been stored.
DefaultBefore(file, k) ==
    /\ k = Len(file.entries) + 2 =>
          /\ file.defaultLatency # Bad
          /\ defaultInfo = Overlay(NewInfo, file.defaultLatency, Absent)
    /\ k # Len(file.entries) + 2 => defaultInfo = NewInfo

FileStored ==
    /\ stage = "options" => DOMAIN functions = {} /\ defaultInfo = NewInfo
    /\ stage = "load" =>
          /\ configFile # Absent
          /\ StoredBefore(Files[configFile], at)
          /\ DefaultBefore(Files[configFile], at)

\* The pairs before k have been put over what the file says.
AppliedBefore(k) ==
    \A name \in Names :
        /\ Before(Pairs(name), k) # {} =>
              /\ name \in DOMAIN functions
              /\ functions[name] = [FileInfo(name) EXCEPT !.latency =
                                       funcCycles[LastOf(Before(Pairs(name), k))].latency]
        /\ Before(Pairs(name), k) = {} =>
              /\ name \in DOMAIN functions <=> EntriesOf(name) # {}
              /\ name \in DOMAIN functions => functions[name] = FileInfo(name)

DefaultLoaded == defaultInfo = FileDefault

CyclesApplied ==
    /\ stage \in {"cycles", "parse"} => DefaultLoaded
    /\ stage = "cycles" =>
          at \in 1 .. Len(funcCycles) + 1 /\ AppliedBefore(at)
    /\ stage = "parse" => AppliedBefore(Len(funcCycles) + 1)

(***************************************************************************)
(* The inductive invariant: ConfigIsLayered speaks of the end only, where  *)
(* the layers are on top of each other, and each of them is put on by one  *)
(* stage, an item at a time.                                               *)
(***************************************************************************)
IInv == TypeOK /\ OptionsRead /\ FileStored /\ CyclesApplied

-----------------------------------------------------------------------------
(***************************************************************************)
(* Options, files and the last position of a set.                          *)
(***************************************************************************)
\* The greatest position that a set of positions has is its last one.
LEMMA LastIs ==
    ASSUME NEW S \in SUBSET Nat, NEW k \in S, \A j \in S : j <= k
    PROVE  LastOf(S) = k
<1>1. \A j \in S : (\A i \in S : i <= j) => j = k
  OBVIOUS
<1> QED BY <1>1 DEF LastOf

\* Going past a position takes it in, as the last one, or changes nothing.
LEMMA BeforeNext ==
    ASSUME NEW S \in SUBSET Nat, NEW k \in Nat
    PROVE  /\ k \in S => /\ Before(S, k + 1) # {}
                        /\ LastOf(Before(S, k + 1)) = k
           /\ k \notin S => Before(S, k + 1) = Before(S, k)
<1>1. \A j \in S : j < k + 1 <=> j <= k
  OBVIOUS
<1>2. ASSUME k \in S
      PROVE  Before(S, k + 1) # {} /\ LastOf(Before(S, k + 1)) = k
  <2> DEFINE T == Before(S, k + 1)
  <2>1. T \in SUBSET Nat /\ k \in T /\ \A j \in T : j <= k
    <3>1. k < k + 1
      OBVIOUS
    <3>2. T = {j \in S : j < k + 1}
      BY DEF Before
    <3> HIDE DEF T
    <3> QED BY <1>1, <1>2, <3>1, <3>2
  <2> HIDE DEF T
  <2>2. LastOf(T) = k
    BY <2>1, LastIs
  <2> QED BY <2>1, <2>2 DEF T
<1>3. ASSUME k \notin S
      PROVE  Before(S, k + 1) = Before(S, k)
  <2>1. \A j \in S : j < k + 1 <=> j < k
    BY <1>3
  <2> QED BY <2>1 DEF Before
<1> QED BY <1>2, <1>3

LEMMA BeforeEnds ==
    ASSUME NEW n \in Nat, NEW S \in SUBSET (1 .. n)
    PROVE  /\ Before(S, 1) = {}
           /\ Before(S, n + 1) = S
<1>1. \A j \in S : ~ (j < 1) /\ j < n + 1
  OBVIOUS
<1> QED BY <1>1 DEF Before

\* The fields of an option follow from its kind.
LEMMA OptionFields ==
    ASSUME NEW o \in Option
    PROVE  /\ o.kind = "--func-config" => o.file \in DOMAIN Files \cup {Absent}
           /\ o.kind = "--func-cycle" => o.name \in Names /\ o.digits \in Nat
           /\ o.kind \in {"--func-config", "--func-cycle", "--dump-config",
                          "--help", "input", "empty", "other", "invalid"}
BY DEF Option

LEMMA WordFits ==
    ASSUME NEW digits \in Nat
    PROVE  Word(digits) \in Latency
BY DefaultFits DEF Word, Latency

\* What an entry or a default puts over an info is an info.
LEMMA OverlayType ==
    ASSUME NEW info \in ExternalFunctionInfo,
           NEW latency \in Latency \cup {Absent, Bad}, latency # Bad,
           NEW unit \in ExecutionUnitType \cup {Absent, Unknown, Bad}, unit # Bad
    PROVE  Overlay(info, latency, unit) \in ExternalFunctionInfo
BY DEF Overlay, ExternalFunctionInfo, ParseExecutionUnit, ExecutionUnitType

LEMMA NewInfoType == NewInfo \in ExternalFunctionInfo
BY DefaultFits DEF NewInfo, ExternalFunctionInfo, ExecutionUnitType

LEMMA FileFields ==
    ASSUME NEW name \in DOMAIN Files
    PROVE  /\ Files[name].readable \in BOOLEAN
           /\ Files[name].entries \in Seq(Entry)
           /\ Files[name].defaultLatency \in Latency \cup {Absent, Bad}
           /\ Files[name].defaultUnit \in ExecutionUnitType \cup {Absent, Unknown, Bad}
BY CommandLineAssumption DEF File

\* The option that the loop over argv is at.
LEMMA ReadsOption ==
    ASSUME TypeOK, NEW kinds, Reads(kinds)
    PROVE  /\ Len(commandLine) \in Nat /\ at \in 1 .. Len(commandLine)
           /\ DOMAIN commandLine = 1 .. Len(commandLine)
           /\ commandLine[at] \in Option /\ commandLine[at].kind \in kinds
<1>1. commandLine \in Seq(Option) /\ at \in Nat \ {0} /\ at <= Len(commandLine)
  BY DEF TypeOK, Reads
<1> QED BY <1>1, LenProperties, ElementOfSeq DEF Reads

\* An entry of the file that is being loaded, and its place.
LEMMA FileEntry ==
    ASSUME NEW name \in DOMAIN Files, NEW j \in DOMAIN Files[name].entries
    PROVE  /\ Files[name].entries[j].name \in Names
           /\ Files[name].entries[j].latency \in Latency \cup {Absent, Bad}
           /\ Files[name].entries[j].unit \in ExecutionUnitType \cup {Absent, Unknown, Bad}
<1>1. Files[name].entries \in Seq(Entry)
  BY FileFields
<1>2. Files[name].entries[j] \in Entry
  BY <1>1, LenProperties, ElementOfSeq
<1> QED BY <1>2 DEF Entry

-----------------------------------------------------------------------------
(***************************************************************************)
(* Type correctness.                                                       *)
(***************************************************************************)
\* functions[name] = info keeps the configuration's type.
LEMMA SetFunctionInfoType ==
    ASSUME ConfigTypeOK, NEW name \in Names, NEW info \in ExternalFunctionInfo,
           SetFunctionInfo(name, info), UNCHANGED defaultInfo
    PROVE  ConfigTypeOK'
BY DEF ConfigTypeOK, SetFunctionInfo

LEMMA TypeInductive == TypeOK /\ FileStored /\ [Next]_vars => TypeOK'
<1> SUFFICES ASSUME TypeOK, FileStored, [Next]_vars
             PROVE  TypeOK'
  OBVIOUS
<1> USE DEF vars, optionVars, configVars, GoTo
<1>1. CASE ReadFuncConfig
  <2>1. commandLine[at].file \in DOMAIN Files \cup {Absent}
    BY <1>1, ReadsOption, OptionFields DEF ReadFuncConfig
  <2> QED BY <1>1, <2>1 DEF ReadFuncConfig, Reads, TypeOK, ConfigTypeOK
<1>2. CASE ReadFuncCycle
  <2>1. commandLine[at].name \in Names /\ Word(commandLine[at].digits) \in Latency
    BY <1>2, ReadsOption, OptionFields, WordFits DEF ReadFuncCycle
  <2> DEFINE pair == [name |-> commandLine[at].name, latency |-> Word(commandLine[at].digits)]
  <2>2. pair \in [name : Names, latency : Latency]
    BY <2>1
  <2>3. funcCycles' = Append(funcCycles, pair)
    BY <1>2 DEF ReadFuncCycle, Word
  <2> HIDE DEF pair
  <2> DEFINE Pair == [name : Names, latency : Latency]
  <2>4. funcCycles \in Seq(Pair)
    BY DEF TypeOK
  <2> HIDE DEF Pair
  <2>5. Append(funcCycles, pair) \in Seq(Pair)
    BY <2>2, <2>4, AppendProperties DEF Pair
  <2>6. funcCycles' \in Seq([name : Names, latency : Latency])
    BY <2>3, <2>5 DEF Pair
  <2> QED BY <1>2, <2>6 DEF ReadFuncCycle, Reads, TypeOK, ConfigTypeOK
<1>3. CASE ReadFlag
  <2>1. commandLine[at].kind \in {"--dump-config", "input", "empty", "other"}
    BY <1>3 DEF ReadFlag, Reads
  <2>2. flags' \subseteq {"--dump-config", "input", "other"}
    BY <1>3, <2>1 DEF ReadFlag, TypeOK
  <2>3. at' \in Nat \ {0}
    BY <1>3 DEF ReadFlag, TypeOK
  <2> QED BY <1>3, <2>2, <2>3 DEF ReadFlag, Reads, TypeOK, ConfigTypeOK
<1>4. CASE ExitEarly \/ EndOptions \/ EndCycles
  <2>1. /\ UNCHANGED <<commandLine, optionVars, configVars>>
        /\ at' = 1 /\ stage' \in {"load", "cycles", "parse", "exited"}
    BY <1>4 DEF ExitEarly, EndOptions, EndCycles, Reads
  <2> QED BY <2>1 DEF TypeOK, ConfigTypeOK
<1>5. CASE LoadNextEntry
  <2> DEFINE entry == Files[configFile].entries[at]
             info  == Overlay(NewInfo, entry.latency, entry.unit)
  <2>1. /\ configFile \in DOMAIN Files /\ at \in DOMAIN Files[configFile].entries
        /\ entry.latency # Bad /\ entry.unit # Bad
    <3>1. configFile \in DOMAIN Files /\ at \in Nat \ {0}
      BY <1>5 DEF LoadNextEntry, Loading, TypeOK, FileStored
    <3> QED BY <1>5, <3>1, FileFields, LenProperties DEF LoadNextEntry, LoadEntry, Converts
  <2>2. entry.name \in Names /\ info \in ExternalFunctionInfo
    BY <2>1, FileEntry, OverlayType, NewInfoType
  <2>3. SetFunctionInfo(entry.name, info) /\ UNCHANGED defaultInfo /\ ConfigTypeOK
    BY <1>5 DEF LoadNextEntry, LoadEntry, TypeOK
  <2> HIDE DEF entry, info
  <2>4. ConfigTypeOK'
    BY <2>2, <2>3, SetFunctionInfoType
  <2> QED BY <1>5, <2>4 DEF LoadNextEntry, Loading, TypeOK
<1>6. CASE LoadLatency \/ EndLoad
  <2>1. configFile \in DOMAIN Files /\ defaultInfo \in ExternalFunctionInfo
    BY <1>6 DEF LoadLatency, EndLoad, Loading, TypeOK, ConfigTypeOK, FileStored
  <2>2. defaultInfo' \in ExternalFunctionInfo /\ UNCHANGED functions
    <3> PICK file : file = Files[configFile]
      OBVIOUS
    <3>1. /\ file.defaultLatency \in Latency \cup {Absent, Bad}
          /\ file.defaultUnit \in ExecutionUnitType \cup {Absent, Unknown, Bad}
      BY <2>1, FileFields
    <3>2. /\ UNCHANGED functions
          /\ \/ /\ file.defaultLatency # Bad
                /\ defaultInfo' = Overlay(defaultInfo, file.defaultLatency, Absent)
             \/ /\ file.defaultUnit # Bad
                /\ defaultInfo' = Overlay(defaultInfo, Absent, file.defaultUnit)
      BY <1>6 DEF LoadLatency, LoadDefaultLatency, EndLoad, LoadDefaultUnit
    <3>3. file.defaultLatency # Bad =>
             Overlay(defaultInfo, file.defaultLatency, Absent) \in ExternalFunctionInfo
      BY <2>1, <3>1 DEF Overlay, ExternalFunctionInfo
    <3>4. file.defaultUnit # Bad =>
             Overlay(defaultInfo, Absent, file.defaultUnit) \in ExternalFunctionInfo
      BY <2>1, <3>1 DEF Overlay, ExternalFunctionInfo, ParseExecutionUnit, ExecutionUnitType
    <3> QED BY <3>2, <3>3, <3>4
  <2>3. ConfigTypeOK'
    BY <2>2 DEF ConfigTypeOK, TypeOK
  <2>4. /\ at' \in Nat \ {0} /\ stage' \in {"load", "cycles"}
        /\ UNCHANGED <<commandLine, configFile, funcCycles, flags>>
    <3>1. at + 1 \in Nat \ {0}
      BY DEF TypeOK
    <3> QED BY <1>6, <3>1 DEF LoadLatency, EndLoad, Loading
  <2> QED BY <2>3, <2>4 DEF TypeOK
<1>7. CASE LoadFails
  BY <1>7 DEF LoadFails, Loading, TypeOK, ConfigTypeOK
<1>8. CASE ApplyFuncCycle
  <2> DEFINE pair == funcCycles[at]
             old  == IF pair.name \in DOMAIN functions THEN functions[pair.name] ELSE NewInfo
             info == [old EXCEPT !.latency = pair.latency]
  <2>1. pair \in [name : Names, latency : Latency]
    <3>1. at \in Nat \ {0} /\ at <= Len(funcCycles)
      BY <1>8 DEF ApplyFuncCycle, TypeOK
    <3>2. funcCycles \in Seq([name : Names, latency : Latency])
      BY DEF TypeOK
    <3> DEFINE Pair == [name : Names, latency : Latency]
    <3> HIDE DEF Pair
    <3>3. funcCycles \in Seq(Pair) /\ at \in 1 .. Len(funcCycles)
      BY <3>1, <3>2, LenProperties DEF Pair
    <3>4. funcCycles[at] \in Pair
      BY <3>3, ElementOfSeq
    <3> QED BY <3>4 DEF Pair
  <2>2. old \in ExternalFunctionInfo
    BY NewInfoType DEF TypeOK, ConfigTypeOK
  <2>3. pair.name \in Names /\ info \in ExternalFunctionInfo
    <3> HIDE DEF old, pair
    <3> QED BY <2>1, <2>2 DEF ExternalFunctionInfo
  <2>4. SetFunctionInfo(pair.name, info) /\ UNCHANGED defaultInfo /\ ConfigTypeOK
    BY <1>8 DEF ApplyFuncCycle, SetFunctionCycle, TypeOK
  <2> HIDE DEF pair, info
  <2>5. ConfigTypeOK'
    BY <2>3, <2>4, SetFunctionInfoType
  <2> QED BY <1>8, <2>5 DEF ApplyFuncCycle, TypeOK
<1>9. CASE UNCHANGED vars
  BY <1>9 DEF TypeOK, ConfigTypeOK
<1> QED
  BY <1>1, <1>2, <1>3, <1>4, <1>5, <1>6, <1>7, <1>8, <1>9 DEF Next
-----------------------------------------------------------------------------
(***************************************************************************)
(* The options.                                                            *)
(***************************************************************************)
\* The command line, and what depends on it only, stays what it is.
LEMMA SameCommandLine ==
    ASSUME UNCHANGED commandLine
    PROVE  /\ Configs' = Configs
           /\ \A name : CyclesOf(name)' = CyclesOf(name)
           /\ HasFile' = HasFile /\ GivenFile' = GivenFile /\ FileDefault' = FileDefault
           /\ \A name : EntriesOf(name)' = EntriesOf(name) /\ FileInfo(name)' = FileInfo(name)
<1>1. /\ Configs' = Configs /\ Positions("--func-config")' = Positions("--func-config")
      /\ Positions("--func-cycle")' = Positions("--func-cycle")
  BY DEF Configs, Positions
<1>2. LastFile' = LastFile /\ GivenFile' = GivenFile
  BY <1>1 DEF GivenFile, LastFile
<1>3. HasFile' = HasFile
  BY <1>1, <1>2 DEF HasFile
<1>4. \A name : CyclesOf(name)' = CyclesOf(name)
  BY <1>1 DEF CyclesOf
<1>5. \A name : EntriesOf(name)' = EntriesOf(name)
  BY <1>2, <1>3 DEF EntriesOf
<1>6. FileDefault' = FileDefault
  BY <1>2, <1>3 DEF FileDefault, LoadsLatency
<1>7. \A name : FileInfo(name)' = FileInfo(name)
  BY <1>2, <1>5 DEF FileInfo
<1> QED BY <1>1, <1>2, <1>3, <1>4, <1>5, <1>6, <1>7

\* Positions are positions of the command line.
LEMMA PositionsInside ==
    ASSUME TypeOK
    PROVE  /\ Len(commandLine) \in Nat
           /\ Configs \in SUBSET (1 .. Len(commandLine))
           /\ \A name : CyclesOf(name) \in SUBSET (1 .. Len(commandLine))
<1>1. Len(commandLine) \in Nat /\ DOMAIN commandLine = 1 .. Len(commandLine)
  BY LenProperties DEF TypeOK
<1> QED BY <1>1 DEF Configs, CyclesOf, Positions

LEMMA ReadKept ==
    ASSUME UNCHANGED <<commandLine, configFile, funcCycles>>, NEW k, ReadBefore(k)
    PROVE  ReadBefore(k)'
<1>1. Configs' = Configs /\ \A name : CyclesOf(name)' = CyclesOf(name)
  BY SameCommandLine
<1>2. \A name : Pairs(name)' = Pairs(name)
  BY DEF Pairs
<1> QED BY <1>1, <1>2 DEF ReadBefore

LEMMA AllReadKept ==
    ASSUME UNCHANGED <<commandLine, configFile, funcCycles>>,
           ReadBefore(Len(commandLine) + 1)
    PROVE  ReadBefore(Len(commandLine) + 1)'
<1> PICK end : end = Len(commandLine) + 1
  OBVIOUS
<1>1. ReadBefore(end)'
  BY ReadKept
<1> QED BY <1>1 DEF ReadBefore

LEMMA ReadFuncConfigReads ==
    ASSUME TypeOK, ReadBefore(at), ReadFuncConfig
    PROVE  ReadBefore(at)'
<1>1. /\ at \in 1 .. Len(commandLine) /\ at' = at + 1 /\ UNCHANGED <<commandLine, funcCycles>>
      /\ configFile' = commandLine[at].file
      /\ at \in Configs /\ \A name : at \notin CyclesOf(name)
  <2>1. /\ at \in 1 .. Len(commandLine) /\ DOMAIN commandLine = 1 .. Len(commandLine)
        /\ commandLine[at].kind = "--func-config"
    BY ReadsOption DEF ReadFuncConfig
  <2> QED BY <2>1 DEF ReadFuncConfig, Reads, Configs, CyclesOf, Positions
<1>2. /\ Configs' = Configs /\ \A name : CyclesOf(name)' = CyclesOf(name)
      /\ \A name : Pairs(name)' = Pairs(name)
  BY <1>1, SameCommandLine DEF Pairs
<1>3. /\ at \in Nat /\ Configs \in SUBSET Nat
      /\ \A name : CyclesOf(name) \in SUBSET Nat
  BY <1>1, PositionsInside
<1>4. /\ Before(Configs, at + 1) # {} /\ LastOf(Before(Configs, at + 1)) = at
      /\ \A name : Before(CyclesOf(name), at + 1) = Before(CyclesOf(name), at)
  BY <1>1, <1>3, BeforeNext
<1> QED BY <1>1, <1>2, <1>4 DEF ReadBefore

LEMMA ReadFuncCycleReads ==
    ASSUME TypeOK, ReadBefore(at), ReadFuncCycle
    PROVE  ReadBefore(at)'
<1> PICK new : new = commandLine[at].name
  OBVIOUS
<1> DEFINE last == Len(funcCycles) + 1
           word == Word(commandLine[at].digits)
<1>1. /\ at \in 1 .. Len(commandLine) /\ at' = at + 1 /\ UNCHANGED <<commandLine, configFile>>
      /\ at \notin Configs /\ \A name : at \in CyclesOf(name) <=> name = new
  <2>1. /\ at \in 1 .. Len(commandLine) /\ DOMAIN commandLine = 1 .. Len(commandLine)
        /\ commandLine[at].kind = "--func-cycle"
    BY ReadsOption DEF ReadFuncCycle
  <2> QED BY <2>1 DEF ReadFuncCycle, Reads, Configs, CyclesOf, Positions
<1>2. /\ Configs' = Configs /\ \A name : CyclesOf(name)' = CyclesOf(name)
  BY <1>1, SameCommandLine
<1>3. /\ at \in Nat /\ Configs \in SUBSET Nat
      /\ \A name : CyclesOf(name) \in SUBSET Nat
  BY <1>1, PositionsInside
<1>4. /\ Before(Configs, at + 1) = Before(Configs, at)
      /\ Before(CyclesOf(new), at + 1) # {} /\ LastOf(Before(CyclesOf(new), at + 1)) = at
      /\ \A name : name # new => Before(CyclesOf(name), at + 1) = Before(CyclesOf(name), at)
  BY <1>1, <1>3, BeforeNext
<1>5. /\ Len(funcCycles) \in Nat /\ DOMAIN funcCycles = 1 .. Len(funcCycles)
      /\ DOMAIN funcCycles' = 1 .. last
      /\ \A j \in 1 .. Len(funcCycles) : funcCycles'[j] = funcCycles[j]
      /\ funcCycles'[last] = [name |-> new, latency |-> word]
  <2> DEFINE Pair == [name : Names, latency : Latency]
             pair == [name |-> new, latency |-> word]
  <2>1. funcCycles' = Append(funcCycles, pair)
    BY DEF ReadFuncCycle, Word
  <2>2. funcCycles \in Seq(Pair)
    BY DEF TypeOK
  <2> HIDE DEF Pair, pair
  <2>3. /\ Len(funcCycles) \in Nat /\ DOMAIN funcCycles = 1 .. Len(funcCycles)
        /\ funcCycles \in Seq(Pair \cup {pair})
    BY <2>2, LenProperties, SeqMonotonic
  <2>4. /\ Append(funcCycles, pair) \in Seq(Pair \cup {pair})
        /\ Len(Append(funcCycles, pair)) = last
        /\ \A j \in 1 .. Len(funcCycles) : Append(funcCycles, pair)[j] = funcCycles[j]
        /\ Append(funcCycles, pair)[last] = pair
    BY <2>3, AppendProperties
  <2>5. DOMAIN funcCycles' = 1 .. last
    BY <2>1, <2>4, LenProperties
  <2> QED BY <2>1, <2>3, <2>4, <2>5 DEF pair
<1>6. /\ last \in Pairs(new)' /\ LastOf(Pairs(new)') = last
      /\ \A name : name # new => Pairs(name)' = Pairs(name)
  <2>1. last \in Nat /\ last \notin 1 .. Len(funcCycles) /\ 1 .. last = (1 .. Len(funcCycles)) \cup {last}
    BY <1>5
  <2>2. \A name : name # new => Pairs(name)' = Pairs(name)
    BY <1>5, <2>1 DEF Pairs
  <2>3. last \in Pairs(new)' /\ Pairs(new)' \in SUBSET Nat /\ \A j \in Pairs(new)' : j <= last
    <3>1. last \in Pairs(new)' /\ Pairs(new)' \subseteq 1 .. last
      BY <1>5, <2>1 DEF Pairs
    <3> HIDE DEF last
    <3> QED BY <2>1, <3>1
  <2> DEFINE S == Pairs(new)'
  <2> HIDE DEF S
  <2>4. LastOf(S) = last
    BY <2>1, <2>3, LastIs DEF S
  <2> QED BY <2>2, <2>3, <2>4 DEF S
<1>7. configFile' = IF Before(Configs, at)' = {} THEN Absent
                    ELSE commandLine'[LastOf(Before(Configs, at)')].file
  BY <1>1, <1>2, <1>4 DEF ReadBefore
<1>8. ASSUME NEW name \in Names
      PROVE  /\ Before(CyclesOf(name), at)' = {} <=> Pairs(name)' = {}
             /\ Pairs(name)' # {} =>
                  /\ LastOf(Pairs(name)') \in Pairs(name)'
                  /\ funcCycles'[LastOf(Pairs(name)')].latency
                        = Word(commandLine'[LastOf(Before(CyclesOf(name), at)')].digits)
  <2>1. CASE name = new
    BY <1>1, <1>2, <1>4, <1>5, <1>6, <2>1
  <2>2. CASE name # new
    <3>1. /\ Before(CyclesOf(name), at)' = Before(CyclesOf(name), at)
          /\ Pairs(name)' = Pairs(name)
      BY <1>1, <1>2, <1>4, <1>6, <2>2
    <3>2. Pairs(name) # {} => LastOf(Pairs(name)) \in 1 .. Len(funcCycles)
      BY <1>5 DEF ReadBefore, Pairs
    <3> QED BY <1>1, <1>5, <3>1, <3>2 DEF ReadBefore
  <2> QED BY <2>1, <2>2
<1> QED BY <1>7, <1>8 DEF ReadBefore

LEMMA OptionsInductive == TypeOK /\ OptionsRead /\ [Next]_vars => OptionsRead'
<1> SUFFICES ASSUME TypeOK, OptionsRead, [Next]_vars
             PROVE  OptionsRead'
  OBVIOUS
<1>1. CASE ReadFuncConfig \/ ReadFuncCycle \/ ReadFlag
  <2>1. /\ stage = "options" /\ stage' = "options"
        /\ at \in 1 .. Len(commandLine) /\ Len(commandLine) \in Nat
        /\ at' = at + 1 /\ UNCHANGED commandLine
    BY <1>1, ReadsOption DEF ReadFuncConfig, ReadFuncCycle, ReadFlag, Reads
  <2>2. at' \in 1 .. Len(commandLine) + 1
    BY <2>1
  <2>3. ReadBefore(at)
    BY <2>1 DEF OptionsRead
  <2>4. ASSUME ReadFlag
        PROVE  ReadBefore(at)'
    <3>1. /\ at \notin Configs /\ \A name : at \notin CyclesOf(name)
          /\ UNCHANGED <<commandLine, configFile, funcCycles>>
      BY <2>4 DEF ReadFlag, Reads, Configs, CyclesOf, Positions
    <3>2. ReadBefore(at + 1)
      <4>1. /\ at \in Nat /\ Configs \in SUBSET Nat
            /\ \A name : CyclesOf(name) \in SUBSET Nat
        BY <2>1, PositionsInside
      <4>2. /\ Before(Configs, at + 1) = Before(Configs, at)
            /\ \A name : Before(CyclesOf(name), at + 1) = Before(CyclesOf(name), at)
        BY <3>1, <4>1, BeforeNext
      <4> QED BY <2>3, <4>2 DEF ReadBefore
    <3> PICK next : next = at + 1
      OBVIOUS
    <3>3. ReadBefore(next)'
      BY <3>1, <3>2, ReadKept
    <3> QED BY <2>1, <3>3 DEF ReadBefore
  <2>5. ReadBefore(at)'
    BY <1>1, <2>3, <2>4, ReadFuncConfigReads, ReadFuncCycleReads
  <2> QED BY <2>1, <2>2, <2>5 DEF OptionsRead
<1>2. CASE EndOptions
  <2>1. /\ at = Len(commandLine) + 1 /\ ReadBefore(at) /\ stage' # "options"
        /\ UNCHANGED <<commandLine, configFile, funcCycles>>
    BY <1>2, PositionsInside DEF EndOptions, OptionsRead, GoTo, optionVars
  <2> QED BY <2>1, AllReadKept DEF OptionsRead
<1>3. CASE ExitEarly
  BY <1>3 DEF ExitEarly, GoTo, OptionsRead
<1>4. CASE \/ LoadNextEntry \/ LoadLatency \/ EndLoad \/ LoadFails
           \/ ApplyFuncCycle \/ EndCycles
  <2>1. /\ stage \in {"load", "cycles"} /\ stage' \in {"load", "cycles", "parse", "exited"}
        /\ UNCHANGED <<commandLine, configFile, funcCycles>>
    BY <1>4 DEF LoadNextEntry, LoadLatency, EndLoad, LoadFails, ApplyFuncCycle, EndCycles,
                Loading, GoTo, optionVars
  <2> QED BY <2>1, AllReadKept DEF OptionsRead
<1>5. CASE UNCHANGED vars
  <2>1. UNCHANGED <<commandLine, configFile, funcCycles, stage, at>>
    BY <1>5 DEF vars, optionVars
  <2>2. CASE stage = "options"
    <3>1. /\ ReadBefore(at) /\ at \in 1 .. Len(commandLine) + 1
      BY <2>2 DEF OptionsRead
    <3> PICK k : k = at
      OBVIOUS
    <3>2. ReadBefore(k)'
      BY <2>1, <3>1, ReadKept
    <3>3. ReadBefore(at)'
      BY <2>1, <3>2 DEF ReadBefore
    <3> QED BY <2>1, <2>2, <3>1, <3>3 DEF OptionsRead
  <2>3. CASE stage # "options"
    BY <2>1, <2>3, AllReadKept DEF OptionsRead
  <2> QED BY <2>2, <2>3
<1> QED
  BY <1>1, <1>2, <1>3, <1>4, <1>5 DEF Next

-----------------------------------------------------------------------------
(***************************************************************************)
(* The file.                                                               *)
(***************************************************************************)
LEMMA FilePositions ==
    ASSUME NEW name \in DOMAIN Files
    PROVE  LET entries == Files[name].entries IN
           /\ Len(entries) \in Nat /\ DOMAIN entries = 1 .. Len(entries)
           /\ \A n : EntriesNamed(Files[name], n) \in SUBSET (1 .. Len(entries))
<1>1. Files[name].entries \in Seq(Entry)
  BY FileFields
<1>2. /\ Len(Files[name].entries) \in Nat
      /\ DOMAIN Files[name].entries = 1 .. Len(Files[name].entries)
  BY <1>1, LenProperties
<1> QED BY <1>2 DEF EntriesNamed

LEMMA NextEntryStored ==
    ASSUME TypeOK, FileStored, LoadNextEntry
    PROVE  StoredBefore(Files[configFile], at)' /\ DefaultBefore(Files[configFile], at)'
<1> DEFINE file  == Files[configFile]
           entry == file.entries[at]
           size  == Len(file.entries)
<1>1. /\ configFile \in DOMAIN Files /\ StoredBefore(file, at) /\ DefaultBefore(file, at)
      /\ at' = at + 1 /\ configFile' = configFile /\ file.readable /\ at <= size
      /\ Converts(entry) /\ defaultInfo' = defaultInfo
      /\ SetFunctionInfo(entry.name, Overlay(NewInfo, entry.latency, entry.unit))
  BY DEF LoadNextEntry, Loading, LoadEntry, optionVars, TypeOK, FileStored
<1>2. /\ size \in Nat /\ DOMAIN file.entries = 1 .. size
      /\ \A n : EntriesNamed(file, n) \in SUBSET (1 .. size)
  BY <1>1, FilePositions
<1>3. at \in 1 .. size /\ at \in Nat /\ at + 1 \in 1 .. size + 2
      /\ at # size + 2 /\ at + 1 # size + 2
  BY <1>1, <1>2 DEF TypeOK
<1>4. \A n : at \in EntriesNamed(file, n) <=> n = entry.name
  BY <1>2, <1>3 DEF EntriesNamed
<1>5. \A n : EntriesNamed(file, n) \in SUBSET Nat
  BY <1>2
<1> PICK f, e, k : f = file /\ e = entry /\ k = at
  OBVIOUS
<1>6. /\ Before(EntriesNamed(f, e.name), k + 1) # {}
      /\ LastOf(Before(EntriesNamed(f, e.name), k + 1)) = k
      /\ \A n : n # e.name => Before(EntriesNamed(f, n), k + 1) = Before(EntriesNamed(f, n), k)
  BY <1>3, <1>4, <1>5, BeforeNext
<1>7. \A j \in DOMAIN f.entries : j < k + 1 => Converts(f.entries[j])
  <2>1. \A j \in DOMAIN f.entries : j < k + 1 => j < k \/ j = k
    BY <1>2, <1>3
  <2> QED BY <1>1, <2>1 DEF StoredBefore
<1>8. ASSUME NEW n \in Names
      PROVE  LET earlier == Before(EntriesNamed(f, n), k + 1) IN
             /\ n \in DOMAIN functions' <=> earlier # {}
             /\ earlier # {} =>
                   functions'[n] = Overlay(NewInfo, f.entries[LastOf(earlier)].latency,
                                                    f.entries[LastOf(earlier)].unit)
  <2>1. /\ DOMAIN functions' = DOMAIN functions \cup {e.name}
        /\ functions'[e.name] = Overlay(NewInfo, e.latency, e.unit)
        /\ n # e.name /\ n \in DOMAIN functions => functions'[n] = functions[n]
    BY <1>1 DEF SetFunctionInfo
  <2>2. CASE n = e.name
    BY <1>6, <2>1, <2>2
  <2>3. CASE n # e.name
    BY <1>1, <1>6, <2>1, <2>3 DEF StoredBefore
  <2> QED BY <2>2, <2>3
<1>9. /\ at' = k + 1 /\ Files[configFile]' = f
      /\ k + 1 \in 1 .. Len(f.entries) + 2 /\ f.readable
      /\ k + 1 # Len(f.entries) + 2 /\ defaultInfo' = NewInfo
  BY <1>1, <1>3 DEF DefaultBefore
<1> HIDE DEF file, entry, size
<1> QED BY <1>7, <1>8, <1>9 DEF StoredBefore, DefaultBefore

\* Behind the entries nothing more is stored of them.
LEMMA LatencyStored ==
    ASSUME TypeOK, FileStored, LoadLatency
    PROVE  StoredBefore(Files[configFile], at)' /\ DefaultBefore(Files[configFile], at)'
<1> PICK f, k : f = Files[configFile] /\ k = at
  OBVIOUS
<1>1. /\ configFile \in DOMAIN Files /\ StoredBefore(f, k) /\ DefaultBefore(f, k)
      /\ k = Len(f.entries) + 1 /\ f.readable /\ f.defaultLatency # Bad
      /\ at' = k + 1 /\ Files[configFile]' = f /\ UNCHANGED functions
      /\ defaultInfo' = Overlay(defaultInfo, f.defaultLatency, Absent)
  BY DEF LoadLatency, Loading, LoadDefaultLatency, optionVars, TypeOK, FileStored
<1>2. /\ Len(f.entries) \in Nat /\ DOMAIN f.entries = 1 .. Len(f.entries)
      /\ \A n : EntriesNamed(f, n) \in SUBSET (1 .. Len(f.entries))
  BY <1>1, FilePositions
<1>3. /\ k + 1 \in 1 .. Len(f.entries) + 2 /\ k + 1 = Len(f.entries) + 2
      /\ k # Len(f.entries) + 2
      /\ \A j \in DOMAIN f.entries : j < k
  BY <1>1, <1>2
<1>4. \A n : Before(EntriesNamed(f, n), k + 1) = Before(EntriesNamed(f, n), k)
  <2>1. k \in Nat /\ \A n : k \notin EntriesNamed(f, n) /\ EntriesNamed(f, n) \in SUBSET Nat
    BY <1>1, <1>2
  <2> QED BY <2>1, BeforeNext
<1>5. \A j \in DOMAIN f.entries : Converts(f.entries[j])
  BY <1>1, <1>3 DEF StoredBefore
<1>6. defaultInfo' = Overlay(NewInfo, f.defaultLatency, Absent)
  BY <1>1, <1>3 DEF DefaultBefore
<1>7. StoredBefore(Files[configFile], at)'
  BY <1>1, <1>3, <1>4, <1>5 DEF StoredBefore
<1>8. DefaultBefore(Files[configFile], at)'
  BY <1>1, <1>3, <1>6 DEF DefaultBefore
<1> QED BY <1>7, <1>8

LEMMA FileInductive == TypeOK /\ FileStored /\ [Next]_vars => FileStored'
<1> SUFFICES ASSUME TypeOK, FileStored, [Next]_vars
             PROVE  FileStored'
  OBVIOUS
<1>1. CASE ReadFuncConfig \/ ReadFuncCycle \/ ReadFlag
  <2>1. stage = "options" /\ UNCHANGED <<stage, functions, defaultInfo>>
    BY <1>1 DEF ReadFuncConfig, ReadFuncCycle, ReadFlag, Reads, configVars
  <2> QED BY <2>1 DEF FileStored
<1>2. CASE EndOptions
  <2>1. /\ stage = "options" /\ UNCHANGED <<configFile, functions, defaultInfo>> /\ at' = 1
        /\ stage' = IF configFile = Absent THEN "cycles" ELSE "load"
    BY <1>2 DEF EndOptions, GoTo, optionVars, configVars
  <2>2. DOMAIN functions = {} /\ defaultInfo = NewInfo
    BY <2>1 DEF FileStored
  <2>3. ASSUME configFile # Absent
        PROVE  StoredBefore(Files[configFile], at)' /\ DefaultBefore(Files[configFile], at)'
    <3> PICK f : f = Files[configFile]
      OBVIOUS
    <3>1. configFile \in DOMAIN Files
      BY <2>3 DEF TypeOK
    <3>2. /\ Len(f.entries) \in Nat /\ DOMAIN f.entries = 1 .. Len(f.entries)
          /\ \A n : EntriesNamed(f, n) \in SUBSET (1 .. Len(f.entries))
      BY <3>1, FilePositions
    <3>3. \A n : Before(EntriesNamed(f, n), 1) = {}
      BY <3>2, BeforeEnds
    <3>4. /\ 1 \in 1 .. Len(f.entries) + 2 /\ 1 # Len(f.entries) + 2
          /\ \A j \in DOMAIN f.entries : ~ (j < 1)
      BY <3>2
    <3>5. /\ at' = 1 /\ Files[configFile]' = f
          /\ DOMAIN functions' = {} /\ defaultInfo' = NewInfo
      BY <2>1, <2>2
    <3> QED BY <3>3, <3>4, <3>5 DEF StoredBefore, DefaultBefore
  <2> QED BY <2>1, <2>2, <2>3 DEF FileStored
<1>3. CASE LoadNextEntry \/ LoadLatency
  <2>1. StoredBefore(Files[configFile], at)' /\ DefaultBefore(Files[configFile], at)'
    BY <1>3, NextEntryStored, LatencyStored
  <2>2. stage = "load" /\ UNCHANGED <<stage, configFile>>
    BY <1>3 DEF LoadNextEntry, LoadLatency, Loading, optionVars
  <2> QED BY <2>1, <2>2 DEF FileStored
<1>4. CASE ExitEarly \/ EndLoad \/ LoadFails \/ ApplyFuncCycle \/ EndCycles
  <2>1. stage' \in {"cycles", "parse", "exited"}
    BY <1>4 DEF ExitEarly, EndLoad, LoadFails, ApplyFuncCycle, EndCycles, GoTo
  <2> QED BY <2>1 DEF FileStored
<1>5. CASE UNCHANGED vars
  BY <1>5 DEF vars, optionVars, configVars, FileStored, StoredBefore, DefaultBefore
<1> QED
  BY <1>1, <1>2, <1>3, <1>4, <1>5 DEF Next

-----------------------------------------------------------------------------
(***************************************************************************)
(* The cycles.                                                             *)
(***************************************************************************)
\* The file that main() loads is that of the last --func-config.
LEMMA LoadedIsGiven ==
    ASSUME TypeOK, ReadBefore(Len(commandLine) + 1)
    PROVE  /\ configFile = Absent => ~ HasFile
           /\ configFile # Absent =>
                 /\ configFile \in DOMAIN Files /\ GivenFile = Files[configFile]
                 /\ HasFile <=> GivenFile.readable
<1>1. Before(Configs, Len(commandLine) + 1) = Configs
  BY PositionsInside, BeforeEnds
<1> QED BY <1>1 DEF ReadBefore, HasFile, GivenFile, LastFile, Configs, TypeOK

\* The entries that count are those before the one that loading stopped at.
LEMMA StoredEntries ==
    ASSUME NEW name \in DOMAIN Files, HasFile, GivenFile = Files[name],
           NEW k \in 1 .. Len(Files[name].entries) + 2,
           \A j \in DOMAIN Files[name].entries : j < k => Converts(Files[name].entries[j]),
           k \in DOMAIN Files[name].entries => ~ Converts(Files[name].entries[k])
    PROVE  \A n : EntriesOf(n) = Before(EntriesNamed(Files[name], n), k)
<1> PICK f : f = Files[name]
  OBVIOUS
<1>1. Len(f.entries) \in Nat /\ DOMAIN f.entries = 1 .. Len(f.entries)
  BY FilePositions
<1>2. ASSUME NEW j \in DOMAIN f.entries
      PROVE  (\A i \in 1 .. j : Converts(f.entries[i])) <=> j < k
  <2>1. j \in 1 .. Len(f.entries) /\ k \in 1 .. Len(f.entries) + 2
    BY <1>1
  <2>2. CASE j < k
    <3>1. \A i \in 1 .. j : i \in DOMAIN f.entries /\ i < k
      BY <1>1, <2>1, <2>2
    <3> QED BY <2>2, <3>1
  <2>3. CASE ~ (j < k)
    <3>1. k \in 1 .. j /\ k \in DOMAIN f.entries
      BY <1>1, <2>1, <2>3
    <3> QED BY <2>3, <3>1
  <2> QED BY <2>2, <2>3
<1>3. \A n : EntriesOf(n) = {j \in DOMAIN f.entries : f.entries[j].name = n /\ j < k}
  BY <1>2 DEF EntriesOf
<1> QED BY <1>3 DEF Before, EntriesNamed

\* What FileInfo says is a latency and a unit.
LEMMA FileInfoShape ==
    ASSUME NEW name
    PROVE  \E latency, unit :
              FileInfo(name) = [latency |-> latency, executionUnit |-> unit]
BY DEF FileInfo, Overlay, NewInfo

LEMMA WithLatency ==
    ASSUME NEW latency, NEW unit, NEW cycle
    PROVE  [[latency |-> latency, executionUnit |-> unit] EXCEPT !.latency = cycle]
               = [latency |-> cycle, executionUnit |-> unit]
OBVIOUS

\* What holds before the first of the cycles.
FileLayer ==
    /\ DefaultLoaded
    /\ \A name \in Names :
          /\ name \in DOMAIN functions <=> EntriesOf(name) # {}
          /\ name \in DOMAIN functions => functions[name] = FileInfo(name)

LEMMA StartsCycles ==
    ASSUME TypeOK
    PROVE  /\ 1 \in 1 .. Len(funcCycles) + 1
           /\ \A name : Before(Pairs(name), 1) = {}
<1>1. Len(funcCycles) \in Nat /\ DOMAIN funcCycles = 1 .. Len(funcCycles)
  BY LenProperties DEF TypeOK
<1>2. \A name : Before(Pairs(name), 1) = {}
  <2>1. \A name : Pairs(name) \in SUBSET (1 .. Len(funcCycles))
    BY <1>1 DEF Pairs
  <2> QED BY <1>1, <2>1, BeforeEnds
<1>3. 1 \in 1 .. Len(funcCycles) + 1
  BY <1>1
<1> QED BY <1>2, <1>3

LEMMA NoFileLayer ==
    ASSUME TypeOK, OptionsRead, FileStored, EndOptions, configFile = Absent
    PROVE  FileLayer
<1>1. /\ DOMAIN functions = {} /\ defaultInfo = NewInfo
      /\ at = Len(commandLine) + 1 /\ ReadBefore(at)
  BY PositionsInside DEF EndOptions, FileStored, OptionsRead
<1>2. ~ HasFile
  BY <1>1, LoadedIsGiven
<1> QED BY <1>1, <1>2 DEF FileLayer, DefaultLoaded, FileDefault, LoadsLatency, EntriesOf

\* Loading ends with the layer of the file, to its end or not.
LEMMA LoadedFileLayer ==
    ASSUME TypeOK, OptionsRead, FileStored, EndLoad \/ LoadFails
    PROVE  FileLayer'
<1> PICK f : f = Files[configFile]
  OBVIOUS
<1>1. /\ stage = "load" /\ StoredBefore(f, at) /\ DefaultBefore(f, at)
      /\ configFile \in DOMAIN Files /\ UNCHANGED <<commandLine, functions>>
      /\ GivenFile = f
      /\ HasFile <=> f.readable
  <2>1. stage = "load" /\ UNCHANGED <<commandLine, functions>>
    BY DEF EndLoad, LoadFails, Loading, LoadDefaultUnit, configVars
  <2> QED BY <2>1, LoadedIsGiven DEF FileStored, OptionsRead
<1>2. /\ \A n : EntriesOf(n)' = EntriesOf(n) /\ FileInfo(n)' = FileInfo(n)
      /\ FileDefault' = FileDefault
  BY <1>1, SameCommandLine
<1>3. /\ Len(f.entries) \in Nat /\ DOMAIN f.entries = 1 .. Len(f.entries)
      /\ at \in 1 .. Len(f.entries) + 2
  BY <1>1, FilePositions DEF StoredBefore
<1>4. ASSUME NEW n \in Names
      PROVE  EntriesOf(n) = Before(EntriesNamed(f, n), at)
  <2>1. CASE f.readable
    <3>1. \A j \in DOMAIN f.entries : j < at => Converts(f.entries[j])
      BY <1>1 DEF StoredBefore
    <3>2. at \in DOMAIN f.entries =>
             /\ at <= Len(f.entries)
             /\ at # Len(f.entries) + 1 /\ at # Len(f.entries) + 2
      BY <1>3
    <3>3. at \in DOMAIN f.entries => ~ Converts(f.entries[at])
      BY <2>1, <3>2 DEF EndLoad, LoadFails, CannotGoOn
    <3> QED BY <1>1, <1>3, <2>1, <3>1, <3>3, StoredEntries
  <2>2. CASE ~ f.readable
    <3>1. at = 1 /\ EntriesOf(n) = {}
      BY <1>1, <2>2 DEF StoredBefore, EntriesOf
    <3>2. EntriesNamed(f, n) \in SUBSET (1 .. Len(f.entries))
      BY <1>1, FilePositions
    <3>3. Before(EntriesNamed(f, n), 1) = {}
      BY <1>3, <3>2, BeforeEnds
    <3> QED BY <3>1, <3>3
  <2> QED BY <1>1, <2>1, <2>2, FileFields
<1>5. DefaultLoaded'
  <2> DEFINE Latencies == Overlay(NewInfo, f.defaultLatency, Absent)
  <2>1. CASE f.readable /\ at = Len(f.entries) + 2
    <3>1. \A j \in DOMAIN f.entries : j < at
      BY <1>3, <2>1
    <3>2. LoadsLatency /\ defaultInfo = Latencies
      BY <1>1, <2>1, <3>1 DEF LoadsLatency, StoredBefore, DefaultBefore
    <3>3. ~ (at <= Len(f.entries)) /\ at # Len(f.entries) + 1
      BY <1>3, <2>1
    <3>4. CASE f.defaultUnit = Bad
      <4>1. defaultInfo' = Latencies
        BY <3>2, <3>4 DEF EndLoad, LoadDefaultUnit, LoadFails, configVars
      <4> QED BY <1>1, <1>2, <3>2, <3>4, <4>1 DEF DefaultLoaded, FileDefault
    <3>5. CASE f.defaultUnit # Bad
      <4>1. defaultInfo' = Overlay(Latencies, Absent, f.defaultUnit)
        BY <2>1, <3>2, <3>3, <3>5 DEF EndLoad, LoadDefaultUnit, LoadFails, CannotGoOn
      <4>2. Overlay(Latencies, Absent, f.defaultUnit)
               = Overlay(NewInfo, f.defaultLatency, f.defaultUnit)
        BY DEF Overlay
      <4> QED BY <1>1, <1>2, <3>2, <3>5, <4>1, <4>2 DEF DefaultLoaded, FileDefault
    <3> QED BY <3>4, <3>5
  <2>2. CASE ~ (f.readable /\ at = Len(f.entries) + 2)
    <3>1. LoadFails
      BY <2>2 DEF EndLoad
    <3>2. \/ ~ f.readable
          \/ at \in DOMAIN f.entries /\ ~ Converts(f.entries[at])
          \/ f.defaultLatency = Bad
      <4>1. at <= Len(f.entries) => at \in DOMAIN f.entries
        BY <1>3
      <4>2. \/ ~ f.readable
            \/ at <= Len(f.entries) /\ ~ Converts(f.entries[at])
            \/ f.defaultLatency = Bad
        BY <2>2, <3>1 DEF LoadFails, CannotGoOn
      <4> QED BY <4>1, <4>2
    <3>3. ~ LoadsLatency
      BY <1>1, <3>2 DEF LoadsLatency
    <3>4. defaultInfo' = NewInfo
      <4>1. at # Len(f.entries) + 2
        <5>1. ~ f.readable => at = 1 /\ Len(f.entries) + 2 # 1
          BY <1>1, <1>3 DEF StoredBefore
        <5> QED BY <2>2, <5>1
      <4> QED BY <1>1, <3>1, <4>1 DEF LoadFails, configVars, DefaultBefore
    <3> QED BY <1>2, <3>3, <3>4 DEF DefaultLoaded, FileDefault
  <2> QED BY <2>1, <2>2
<1>6. ASSUME NEW n \in Names
      PROVE  /\ n \in DOMAIN functions <=> EntriesOf(n) # {}
             /\ n \in DOMAIN functions => functions[n] = FileInfo(n)
  <2> DEFINE earlier == Before(EntriesNamed(f, n), at)
             entry   == f.entries[LastOf(earlier)]
  <2>1. /\ n \in DOMAIN functions <=> earlier # {}
        /\ earlier # {} => functions[n] = Overlay(NewInfo, entry.latency, entry.unit)
    BY <1>1 DEF StoredBefore
  <2>2. earlier # {} => FileInfo(n) = Overlay(NewInfo, entry.latency, entry.unit)
    BY <1>1, <1>4 DEF FileInfo
  <2> HIDE DEF earlier, entry
  <2>3. EntriesOf(n) = earlier
    BY <1>4 DEF earlier
  <2> QED BY <2>1, <2>2, <2>3
<1> QED BY <1>1, <1>2, <1>5, <1>6 DEF FileLayer

\* One more pair over what the file and the pairs before say.
LEMMA NextCycleApplied ==
    ASSUME TypeOK, AppliedBefore(at), ApplyFuncCycle
    PROVE  AppliedBefore(at)'
<1> PICK k, pair : k = at /\ pair = funcCycles[at]
  OBVIOUS
<1>1. /\ at' = k + 1 /\ UNCHANGED <<commandLine, funcCycles>>
      /\ k \in 1 .. Len(funcCycles) /\ DOMAIN funcCycles = 1 .. Len(funcCycles)
      /\ SetFunctionInfo(pair.name,
            [(IF pair.name \in DOMAIN functions THEN functions[pair.name] ELSE NewInfo)
                EXCEPT !.latency = pair.latency])
  <2>1. at <= Len(funcCycles) /\ at \in Nat \ {0}
    BY DEF ApplyFuncCycle, TypeOK
  <2>2. Len(funcCycles) \in Nat /\ DOMAIN funcCycles = 1 .. Len(funcCycles)
    BY LenProperties DEF TypeOK
  <2> QED BY <2>1, <2>2 DEF ApplyFuncCycle, SetFunctionCycle, optionVars
<1>2. /\ \A n : Pairs(n)' = Pairs(n)
      /\ \A n : EntriesOf(n)' = EntriesOf(n) /\ FileInfo(n)' = FileInfo(n)
  BY <1>1, SameCommandLine DEF Pairs
<1>3. /\ k \in Nat
      /\ \A n : Pairs(n) \in SUBSET Nat
      /\ \A n : k \in Pairs(n) <=> n = pair.name
  BY <1>1 DEF Pairs
<1>4. /\ Before(Pairs(pair.name), k + 1) # {}
      /\ LastOf(Before(Pairs(pair.name), k + 1)) = k
      /\ \A n : n # pair.name => Before(Pairs(n), k + 1) = Before(Pairs(n), k)
  BY <1>3, BeforeNext
<1>5. ASSUME NEW n \in Names
      PROVE  /\ Before(Pairs(n), k + 1) # {} =>
                   /\ n \in DOMAIN functions'
                   /\ functions'[n] = [FileInfo(n) EXCEPT !.latency =
                                          funcCycles[LastOf(Before(Pairs(n), k + 1))].latency]
             /\ Before(Pairs(n), k + 1) = {} =>
                   /\ n \in DOMAIN functions' <=> EntriesOf(n) # {}
                   /\ n \in DOMAIN functions' => functions'[n] = FileInfo(n)
  <2>1. CASE n # pair.name
    <3>1. /\ n \in DOMAIN functions' <=> n \in DOMAIN functions
          /\ n \in DOMAIN functions => functions'[n] = functions[n]
      BY <1>1, <2>1 DEF SetFunctionInfo
    <3> QED BY <1>4, <2>1, <3>1 DEF AppliedBefore
  <2>2. CASE n = pair.name
    <3> DEFINE old == IF n \in DOMAIN functions THEN functions[n] ELSE NewInfo
    <3>1. PICK latency, unit :
             FileInfo(n) = [latency |-> latency, executionUnit |-> unit]
      BY FileInfoShape
    <3>2. n \in DOMAIN functions' /\ functions'[n] = [old EXCEPT !.latency = pair.latency]
      BY <1>1, <2>2 DEF SetFunctionInfo
    <3>3. PICK cycle : old = [latency |-> cycle, executionUnit |-> unit]
      <4>1. CASE Before(Pairs(n), k) # {}
        <5> DEFINE cycle == funcCycles[LastOf(Before(Pairs(n), k))].latency
        <5>1. old = [FileInfo(n) EXCEPT !.latency = cycle]
          BY <4>1 DEF AppliedBefore
        <5> HIDE DEF old, cycle
        <5>2. [FileInfo(n) EXCEPT !.latency = cycle]
                 = [latency |-> cycle, executionUnit |-> unit]
          BY <3>1, WithLatency
        <5> QED BY <5>1, <5>2
      <4>2. CASE Before(Pairs(n), k) = {}
        <5>1. /\ n \in DOMAIN functions <=> EntriesOf(n) # {}
              /\ n \in DOMAIN functions => functions[n] = FileInfo(n)
          BY <4>2 DEF AppliedBefore
        <5>2. EntriesOf(n) = {} => FileInfo(n) = NewInfo
          BY DEF FileInfo
        <5>3. CASE n \in DOMAIN functions
          BY <3>1, <5>1, <5>3
        <5>4. CASE n \notin DOMAIN functions
          BY <3>1, <5>1, <5>2, <5>4
        <5> QED BY <5>3, <5>4
      <4> QED BY <4>1, <4>2
    <3> HIDE DEF old
    <3>4. functions'[n] = [FileInfo(n) EXCEPT !.latency = pair.latency]
      BY <3>1, <3>2, <3>3, WithLatency
    <3> QED BY <1>4, <2>2, <3>2, <3>4
  <2> QED BY <2>1, <2>2
<1> QED BY <1>1, <1>2, <1>5 DEF AppliedBefore

\* The functions stay as they are, and so do the cycles that are over them.
LEMMA AppliedKept ==
    ASSUME UNCHANGED <<commandLine, funcCycles, functions, defaultInfo>>
    PROVE  /\ DefaultLoaded => DefaultLoaded'
           /\ \A k : AppliedBefore(k) => AppliedBefore(k)'
<1>1. DefaultLoaded => DefaultLoaded'
  BY SameCommandLine DEF DefaultLoaded
<1>2. /\ \A n : Pairs(n)' = Pairs(n)
      /\ \A n : EntriesOf(n)' = EntriesOf(n) /\ FileInfo(n)' = FileInfo(n)
  BY SameCommandLine DEF Pairs
<1>3. ASSUME NEW k, AppliedBefore(k)
      PROVE  AppliedBefore(k)'
  BY <1>2, <1>3 DEF AppliedBefore
<1> QED BY <1>1, <1>3

LEMMA CyclesInductive ==
    TypeOK /\ OptionsRead /\ FileStored /\ CyclesApplied /\ [Next]_vars => CyclesApplied'
<1> SUFFICES ASSUME TypeOK, OptionsRead, FileStored, CyclesApplied, [Next]_vars
             PROVE  CyclesApplied'
  OBVIOUS
<1>1. CASE \/ ReadFuncConfig \/ ReadFuncCycle \/ ReadFlag \/ ExitEarly
           \/ LoadNextEntry \/ LoadLatency \/ (EndOptions /\ configFile # Absent)
  <2>1. stage' \in {"options", "load", "exited"}
    BY <1>1 DEF ReadFuncConfig, ReadFuncCycle, ReadFlag, ExitEarly, LoadNextEntry,
                LoadLatency, EndOptions, GoTo, Reads, Loading
  <2> QED BY <2>1 DEF CyclesApplied
<1>2. CASE (EndOptions /\ configFile = Absent) \/ EndLoad \/ LoadFails
  <2>1. TypeOK' /\ FileLayer'
    <3>1. EndOptions /\ configFile = Absent => FileLayer'
      <4> SUFFICES ASSUME EndOptions, configFile = Absent
                   PROVE  FileLayer'
        OBVIOUS
      <4>1. FileLayer /\ UNCHANGED <<commandLine, functions, defaultInfo>>
        BY NoFileLayer DEF EndOptions, configVars
      <4> QED BY <4>1, SameCommandLine DEF FileLayer, DefaultLoaded
    <3> QED BY <1>2, <3>1, LoadedFileLayer, TypeInductive
  <2>2. stage' = "cycles" /\ at' = 1 /\ UNCHANGED funcCycles
    BY <1>2 DEF EndOptions, EndLoad, LoadFails, Loading, GoTo, optionVars
  <2>3. 1 \in 1 .. Len(funcCycles') + 1 /\ \A n : Before(Pairs(n)', 1) = {}
    BY <2>2, StartsCycles DEF Pairs
  <2>4. AppliedBefore(at)' /\ DefaultLoaded'
    BY <2>1, <2>2, <2>3 DEF FileLayer, AppliedBefore
  <2> QED BY <2>2, <2>3, <2>4 DEF CyclesApplied
<1>3. CASE ApplyFuncCycle
  <2>1. /\ stage = "cycles" /\ stage' = "cycles" /\ UNCHANGED <<commandLine, funcCycles, defaultInfo>>
        /\ at \in Nat /\ at <= Len(funcCycles) /\ at' = at + 1 /\ Len(funcCycles) \in Nat
    BY <1>3, LenProperties DEF ApplyFuncCycle, SetFunctionCycle, TypeOK, optionVars
  <2>2. DefaultLoaded'
    BY <2>1, SameCommandLine DEF CyclesApplied, DefaultLoaded
  <2>3. AppliedBefore(at)'
    BY <1>3, <2>1, NextCycleApplied DEF CyclesApplied
  <2>4. at' \in 1 .. Len(funcCycles) + 1
    BY <2>1
  <2> QED BY <2>1, <2>2, <2>3, <2>4 DEF CyclesApplied
<1>4. CASE EndCycles
  <2>1. /\ stage = "cycles" /\ stage' \in {"parse", "exited"}
        /\ UNCHANGED <<commandLine, funcCycles, functions, defaultInfo>>
        /\ at = Len(funcCycles) + 1 /\ AppliedBefore(at) /\ DefaultLoaded
    BY <1>4, LenProperties DEF EndCycles, TypeOK, CyclesApplied, GoTo, optionVars, configVars
  <2> PICK k : k = Len(funcCycles) + 1
    OBVIOUS
  <2>2. AppliedBefore(k)' /\ DefaultLoaded' /\ k = Len(funcCycles') + 1
    BY <2>1, AppliedKept
  <2>3. AppliedBefore(Len(funcCycles) + 1)'
    BY <2>2 DEF AppliedBefore
  <2> QED BY <2>1, <2>2, <2>3 DEF CyclesApplied
<1>5. CASE UNCHANGED vars
  <2>1. /\ UNCHANGED <<commandLine, stage, at, funcCycles>>
        /\ UNCHANGED <<commandLine, funcCycles, functions, defaultInfo>>
    BY <1>5 DEF vars, optionVars, configVars
  <2> PICK k, end : k = at /\ end = Len(funcCycles) + 1
    OBVIOUS
  <2>2. /\ DefaultLoaded => DefaultLoaded'
        /\ AppliedBefore(k) => AppliedBefore(k)'
        /\ AppliedBefore(end) => AppliedBefore(end)'
    BY <2>1, AppliedKept
  <2>3. k = at' /\ end = Len(funcCycles') + 1
    BY <2>1
  <2>4. /\ AppliedBefore(at) => AppliedBefore(at)'
        /\ AppliedBefore(Len(funcCycles) + 1) => AppliedBefore(Len(funcCycles) + 1)'
    BY <2>2, <2>3 DEF AppliedBefore
  <2> QED BY <2>1, <2>2, <2>4 DEF CyclesApplied
<1> QED
  BY <1>1, <1>2, <1>3, <1>4, <1>5 DEF Next

-----------------------------------------------------------------------------
(***************************************************************************)
(* The theorems.                                                           *)
(***************************************************************************)
LEMMA Initially == Init => IInv
<1> SUFFICES ASSUME Init
             PROVE  IInv
  OBVIOUS
<1>1. commandLine \in Seq(Option)
  BY CommandLineAssumption DEF Init
<1>2. TypeOK
  <2>1. funcCycles \in Seq([name : Names, latency : Latency])
    BY DEF Init
  <2> QED BY <1>1, <2>1, NewInfoType DEF Init, TypeOK, ConfigInit, ConfigTypeOK
<1>3. OptionsRead
  <2>1. /\ Before(Configs, 1) = {} /\ \A name : Before(CyclesOf(name), 1) = {}
        /\ 1 \in 1 .. Len(commandLine) + 1
    BY <1>2, PositionsInside, BeforeEnds
  <2>2. \A name : Pairs(name) = {}
    BY DEF Init, Pairs
  <2> QED BY <2>1, <2>2 DEF Init, OptionsRead, ReadBefore
<1>4. FileStored /\ CyclesApplied
  BY DEF Init, ConfigInit, FileStored, CyclesApplied
<1> QED BY <1>2, <1>3, <1>4 DEF IInv

LEMMA Safety == Spec => []IInv
<1>1. IInv /\ [Next]_vars => IInv'
  BY TypeInductive, OptionsInductive, FileInductive, CyclesInductive DEF IInv
<1> QED BY Initially, <1>1, PTL DEF Spec

\* The layers that main() has put on are those that ConfigIsLayered names.
LEMMA Layered == IInv => ConfigIsLayered
<1> SUFFICES ASSUME IInv, stage = "parse", NEW name \in Names
             PROVE  GetFunctionInfo(name) =
                IF CyclesOf(name) # {}
                THEN [FileInfo(name) EXCEPT !.latency =
                        commandLine[LastOf(CyclesOf(name))].digits % (MaxLatency + 1)]
                ELSE IF EntriesOf(name) # {} THEN FileInfo(name)
                ELSE FileDefault
  BY DEF ConfigIsLayered
<1>1. /\ ReadBefore(Len(commandLine) + 1) /\ DefaultLoaded
      /\ AppliedBefore(Len(funcCycles) + 1)
  BY DEF IInv, OptionsRead, CyclesApplied
<1>2. Before(CyclesOf(name), Len(commandLine) + 1) = CyclesOf(name)
  BY PositionsInside, BeforeEnds DEF IInv
<1>3. Before(Pairs(name), Len(funcCycles) + 1) = Pairs(name)
  <2>1. Len(funcCycles) \in Nat /\ DOMAIN funcCycles = 1 .. Len(funcCycles)
    BY LenProperties DEF IInv, TypeOK
  <2>2. Pairs(name) \in SUBSET (1 .. Len(funcCycles))
    BY <2>1 DEF Pairs
  <2> QED BY <2>1, <2>2, BeforeEnds
<1>4. CASE CyclesOf(name) # {}
  <2> DEFINE cycle == funcCycles[LastOf(Pairs(name))].latency
             word  == commandLine[LastOf(CyclesOf(name))].digits % (MaxLatency + 1)
  <2>1. Pairs(name) # {} /\ cycle = word
    BY <1>1, <1>2, <1>4 DEF ReadBefore, Word
  <2>2. name \in DOMAIN functions /\ functions[name] = [FileInfo(name) EXCEPT !.latency = cycle]
    BY <1>1, <1>3, <2>1 DEF AppliedBefore
  <2> HIDE DEF cycle, word
  <2>3. GetFunctionInfo(name) = [FileInfo(name) EXCEPT !.latency = word]
    BY <2>1, <2>2 DEF GetFunctionInfo
  <2> QED BY <1>4, <2>3 DEF word
<1>5. CASE CyclesOf(name) = {}
  <2>1. Pairs(name) = {}
    BY <1>1, <1>2, <1>5 DEF ReadBefore
  <2>2. /\ name \in DOMAIN functions <=> EntriesOf(name) # {}
        /\ name \in DOMAIN functions => functions[name] = FileInfo(name)
    BY <1>1, <1>3, <2>1 DEF AppliedBefore
  <2> QED BY <1>1, <1>5, <2>2 DEF GetFunctionInfo, DefaultLoaded
<1> QED BY <1>4, <1>5

(***************************************************************************)
(* Every latency that main() stores fits the uint64_t it is stored in, and *)
(* every option and entry that it takes is one of the line or of the file. *)
(***************************************************************************)
THEOREM CommandLineTypeCorrect == Spec => []TypeOK
<1>1. IInv => TypeOK
  BY DEF IInv
<1> QED BY Safety, <1>1, PTL

(***************************************************************************)
(* The configuration that the simulator starts with is layered, for every  *)
(* command line, every set of files and every width of a latency: the last *)
(* --func-cycle over the last entry of the last file over its defaults,    *)
(* wherever the options stand and however far the file could be loaded: a  *)
(* default unit that fails leaves the default latency that came before.    *)
(***************************************************************************)
THEOREM ConfigStaysLayered == Spec => []ConfigIsLayered
BY Safety, Layered, PTL

=============================================================================
