----------------------------- MODULE CommandLine -----------------------------
(***************************************************************************)
(* main() up to the parsing of the module: it reads the options, loads the *)
(* configuration file, applies the --func-cycle options, and prints the    *)
(* configuration or goes on to the input.                                  *)
(*                                                                         *)
(* A file that cannot be loaded to its end is a warning only: main() goes  *)
(* on with what was stored before the conversion that failed.              *)
(***************************************************************************)
EXTENDS ExternalFunctionConfig

CONSTANTS
    Files,          \* configuration files by name
    CommandLines    \* the command lines the program is started with

(***************************************************************************)
(* "other" is any flag that only selects what is done with the module; an  *)
(* "empty" argument is an input without a name, as is the file Absent;     *)
(* "invalid" is an unknown option, one without its argument, or a          *)
(* --func-cycle that is not name=digits.                                   *)
(***************************************************************************)
Option == [kind : {"--func-config"}, file : DOMAIN Files \cup {Absent}]
     \cup [kind : {"--func-cycle"}, name : Names, digits : Nat]
     \cup [kind : {"--dump-config", "--help", "input", "empty", "other", "invalid"}]

ASSUME CommandLineAssumption ==
    /\ Absent \notin DOMAIN Files
    /\ \A name \in DOMAIN Files : Files[name] \in File
    /\ \A line \in CommandLines : line \in Seq(Option)

VARIABLES
    commandLine,    \* argv
    stage,          \* how far main() is
    at,             \* the option, entry or cycle that is next in this stage
    configFile,     \* the file to load, or Absent
    funcCycles,     \* the pairs of name and latency, in order
    flags           \* the other options seen

optionVars == <<configFile, funcCycles, flags>>
vars == <<commandLine, stage, at, optionVars, configVars>>

TypeOK ==
    /\ commandLine \in Seq(Option)
    /\ stage \in {"options", "load", "cycles", "parse", "exited"}
    /\ at \in Nat \ {0}
    /\ configFile \in DOMAIN Files \cup {Absent}
    /\ funcCycles \in Seq([name : Names, latency : Latency])
    /\ flags \subseteq {"--dump-config", "input", "other"}
    /\ ConfigTypeOK

Init ==
    /\ commandLine \in CommandLines
    /\ stage = "options" /\ at = 1
    /\ configFile = Absent
    /\ funcCycles = <<>>
    /\ flags = {}
    /\ ConfigInit

GoTo(next) == stage' = next /\ at' = 1

-----------------------------------------------------------------------------
\* The loop over argv takes an option of one of these kinds.
Reads(kinds) ==
    /\ stage = "options"
    /\ at <= Len(commandLine)
    /\ commandLine[at].kind \in kinds
    /\ UNCHANGED <<commandLine, configVars>>

ReadFuncConfig ==
    /\ Reads({"--func-config"})
    /\ configFile' = commandLine[at].file
    /\ at' = at + 1
    /\ UNCHANGED <<stage, funcCycles, flags>>

\* Mutant of ReadFuncCycle: the digits are added up beyond the word.
ReadFuncCycleUnbounded ==
    /\ Reads({"--func-cycle"})
    /\ funcCycles' = Append(funcCycles,
          [name |-> commandLine[at].name, latency |-> commandLine[at].digits])
    /\ at' = at + 1
    /\ UNCHANGED <<stage, configFile, flags>>

\* parseFuncCycleArg: the digits are added up in a uint64_t.
ReadFuncCycle ==
    /\ Reads({"--func-cycle"})
    /\ funcCycles' = Append(funcCycles,
          [name    |-> commandLine[at].name,
           latency |-> commandLine[at].digits % (MaxLatency + 1)])
    /\ at' = at + 1
    /\ UNCHANGED <<stage, configFile, flags>>

ReadFlag ==
    /\ Reads({"--dump-config", "input", "empty", "other"})
    /\ flags' = IF commandLine[at].kind = "empty" THEN flags \ {"input"}
                ELSE flags \cup {commandLine[at].kind}
    /\ at' = at + 1
    /\ UNCHANGED <<stage, configFile, funcCycles>>

\* --help and every mistake end the program at once.
ExitEarly ==
    /\ Reads({"--help", "invalid"})
    /\ GoTo("exited")
    /\ UNCHANGED optionVars

EndOptions ==
    /\ stage = "options" /\ at > Len(commandLine)
    /\ GoTo(IF configFile = Absent THEN "cycles" ELSE "load")
    /\ UNCHANGED <<commandLine, optionVars, configVars>>

-----------------------------------------------------------------------------
Loading ==
    /\ stage = "load"
    /\ UNCHANGED <<commandLine, optionVars>>

LoadNextEntry ==
    /\ Loading
    /\ LET file == Files[configFile] IN
          /\ file.readable /\ at <= Len(file.entries)
          /\ LoadEntry(file.entries[at])
    /\ at' = at + 1
    /\ UNCHANGED stage

\* The entries are stored, and at counts on over the two defaults.
LoadLatency ==
    /\ Loading
    /\ LET file == Files[configFile] IN
          /\ file.readable /\ at = Len(file.entries) + 1
          /\ LoadDefaultLatency(file)
    /\ at' = at + 1
    /\ UNCHANGED stage

EndLoad ==
    /\ Loading
    /\ LET file == Files[configFile] IN
          /\ file.readable /\ at = Len(file.entries) + 2
          /\ LoadDefaultUnit(file)
    /\ GoTo("cycles")

\* The file cannot be read, or what is next in it does not convert.
CannotGoOn(file) ==
    \/ ~ file.readable
    \/ at <= Len(file.entries) /\ ~ Converts(file.entries[at])
    \/ at = Len(file.entries) + 1 /\ file.defaultLatency = Bad
    \/ at = Len(file.entries) + 2 /\ file.defaultUnit = Bad

\* Mutant of LoadFails: a failed load takes back the default it has stored.
LoadFailsClean ==
    /\ Loading
    /\ CannotGoOn(Files[configFile])
    /\ GoTo("cycles")
    /\ defaultInfo' = NewInfo
    /\ UNCHANGED functions

\* An exception ends the load; nothing that it stored is taken back.
LoadFails ==
    /\ Loading
    /\ CannotGoOn(Files[configFile])
    /\ GoTo("cycles")
    /\ UNCHANGED configVars

-----------------------------------------------------------------------------
ApplyFuncCycle ==
    /\ stage = "cycles" /\ at <= Len(funcCycles)
    /\ SetFunctionCycle(funcCycles[at].name, funcCycles[at].latency)
    /\ at' = at + 1
    /\ UNCHANGED <<commandLine, stage, optionVars>>

\* Print the configuration, complain about the missing input, or go on.
EndCycles ==
    /\ stage = "cycles" /\ at > Len(funcCycles)
    /\ GoTo(IF "--dump-config" \in flags \/ "input" \notin flags
            THEN "exited" ELSE "parse")
    /\ UNCHANGED <<commandLine, optionVars, configVars>>

Next ==
    \/ ReadFuncConfig \/ ReadFuncCycle \/ ReadFlag \/ ExitEarly \/ EndOptions
    \/ LoadNextEntry \/ LoadLatency \/ EndLoad \/ LoadFails
    \/ ApplyFuncCycle \/ EndCycles

Spec == Init /\ [][Next]_vars

-----------------------------------------------------------------------------
(***************************************************************************)
(* Properties.                                                             *)
(***************************************************************************)
LastOf(indices) == CHOOSE j \in indices : \A k \in indices : k <= j

\* The positions on the command line of the options of a kind.
Positions(kind) == {j \in DOMAIN commandLine : commandLine[j].kind = kind}

CyclesOf(name) == {j \in Positions("--func-cycle") : commandLine[j].name = name}

LastFile == commandLine[LastOf(Positions("--func-config"))].file

GivenFile == Files[LastFile]

HasFile ==
    /\ Positions("--func-config") # {}
    /\ LastFile # Absent /\ GivenFile.readable

\* The entries for a name that come before every entry that does not convert.
EntriesOf(name) ==
    IF ~ HasFile THEN {}
    ELSE {j \in DOMAIN GivenFile.entries :
             /\ GivenFile.entries[j].name = name
             /\ \A k \in 1 .. j : Converts(GivenFile.entries[k])}

\* Loading gets to the defaults and past the first of them.
LoadsLatency ==
    /\ HasFile
    /\ \A j \in DOMAIN GivenFile.entries : Converts(GivenFile.entries[j])
    /\ GivenFile.defaultLatency # Bad

\* What the file says of all other functions: of the two, only the unit may fail.
FileDefault ==
    IF ~ LoadsLatency THEN NewInfo
    ELSE Overlay(NewInfo, GivenFile.defaultLatency,
                 IF GivenFile.defaultUnit = Bad THEN Absent ELSE GivenFile.defaultUnit)

\* What the file says of a function, or the built-in latency and unit.
FileInfo(name) ==
    IF EntriesOf(name) = {} THEN NewInfo
    ELSE LET entry == GivenFile.entries[LastOf(EntriesOf(name))] IN
         Overlay(NewInfo, entry.latency, entry.unit)

(***************************************************************************)
(* Whatever the order of the options, a function ends up with the latency  *)
(* of its last --func-cycle (modulo the word), else of its last entry in   *)
(* the last --func-config, else the default of that file; the unit never   *)
(* comes from the command line; and of a file that fails to load exactly   *)
(* what comes before the failure counts: the entries before it and, if it  *)
(* is the default unit that fails, the default latency.                    *)
(***************************************************************************)
ConfigIsLayered ==
    stage = "parse" =>
        \A name \in Names :
            GetFunctionInfo(name) =
                IF CyclesOf(name) # {}
                THEN [FileInfo(name) EXCEPT !.latency =
                        commandLine[LastOf(CyclesOf(name))].digits % (MaxLatency + 1)]
                ELSE IF EntriesOf(name) # {} THEN FileInfo(name)
                ELSE FileDefault

(***************************************************************************)
(* docs/SimulatorUsage.md:105: --func-cycle sets the latency of a          *)
(* function; its unit stays what it was.                                   *)
(***************************************************************************)
FuncCycleKeepsUnit ==
    [][ stage = "cycles" =>
            \A name \in Names :
                GetFunctionInfo(name).executionUnit'
                    = GetFunctionInfo(name).executionUnit ]_vars

=============================================================================
