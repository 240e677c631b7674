----------------------- MODULE ExternalFunctionConfig -----------------------
(***************************************************************************)
(* ExternalFunctionConfig: the latency and the unit of external functions. *)
(* Its state is changed by loading a YAML file, entry by entry, and by     *)
(* setting one function's cycles.                                          *)
(***************************************************************************)
EXTENDS ExecutionUnits

CONSTANTS
    Names,          \* names of external functions
    MaxLatency,     \* greatest uint64_t
    Absent,         \* a key that a YAML mapping does not have
    Bad,            \* a node that does not convert to the type asked for
    Unknown         \* a word that names no execution unit

Latency == 0 .. MaxLatency

ASSUME DefaultFits == MaxLatency \in Nat /\ 10 \in Latency

(***************************************************************************)
(* A function of a configuration file, and the file.  A latency is Bad     *)
(* when it is no number, a unit when it is a sequence or a mapping.        *)
(***************************************************************************)
Entry == [name    : Names,
          latency : Latency \cup {Absent, Bad},
          unit    : ExecutionUnitType \cup {Absent, Unknown, Bad}]

File == [readable       : BOOLEAN,      \* it opens and is YAML
         entries        : Seq(Entry),
         defaultLatency : Latency \cup {Absent, Bad},
         defaultUnit    : ExecutionUnitType \cup {Absent, Unknown, Bad}]

VARIABLES
    functions,      \* what is configured for functions by name
    defaultInfo     \* what holds for all others

configVars == <<functions, defaultInfo>>

ExternalFunctionInfo == [latency : Latency, executionUnit : ExecutionUnitType]

NewInfo == [latency |-> 10, executionUnit |-> "Scalar"]

ConfigTypeOK ==
    /\ DOMAIN functions \subseteq Names
    /\ \A name \in DOMAIN functions : functions[name] \in ExternalFunctionInfo
    /\ defaultInfo \in ExternalFunctionInfo

ConfigInit ==
    /\ functions = [name \in {} |-> NewInfo]
    /\ defaultInfo = NewInfo

-----------------------------------------------------------------------------
ParseExecutionUnit(word) == IF word = Unknown THEN "Scalar" ELSE word

GetFunctionInfo(name) ==
    IF name \in DOMAIN functions THEN functions[name] ELSE defaultInfo

\* The info with what a mapping gives put over it.
Overlay(info, latency, unit) ==
    [latency       |-> IF latency = Absent THEN info.latency ELSE latency,
     executionUnit |-> IF unit = Absent THEN info.executionUnit
                       ELSE ParseExecutionUnit(unit)]

\* functions[name] = info
SetFunctionInfo(name, info) ==
    functions' = [n \in DOMAIN functions \cup {name} |->
                     IF n = name THEN info ELSE functions[n]]

\* No as<> of the entry throws.
Converts(entry) == entry.latency # Bad /\ entry.unit # Bad

(***************************************************************************)
(* An iteration of the loop of loadFromYaml.  An entry starts from a new   *)
(* info, not from the default of the file or from an earlier entry, and is *)
(* stored when all of it has been converted.                               *)
(***************************************************************************)
LoadEntry(entry) ==
    /\ Converts(entry)
    /\ SetFunctionInfo(entry.name, Overlay(NewInfo, entry.latency, entry.unit))
    /\ UNCHANGED defaultInfo

\* Behind the loop the default latency is stored ...
LoadDefaultLatency(file) ==
    /\ file.defaultLatency # Bad
    /\ defaultInfo' = Overlay(defaultInfo, file.defaultLatency, Absent)
    /\ UNCHANGED functions

\* ... before the default unit is converted.
LoadDefaultUnit(file) ==
    /\ file.defaultUnit # Bad
    /\ defaultInfo' = Overlay(defaultInfo, Absent, file.defaultUnit)
    /\ UNCHANGED functions

\* functions[name].latency = cycle, where operator[] makes a new info.
SetFunctionCycle(name, cycle) ==
    /\ SetFunctionInfo(name,
          [(IF name \in DOMAIN functions THEN functions[name] ELSE NewInfo)
              EXCEPT !.latency = cycle])
    /\ UNCHANGED defaultInfo

=============================================================================
