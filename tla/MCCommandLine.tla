---------------------------- MODULE MCCommandLine ----------------------------
(***************************************************************************)
(* TLC instance of CommandLine: every command line of up to three options  *)
(* over two functions and seven files.                                     *)
(***************************************************************************)
EXTENDS CommandLine

CONSTANTS f, g

MCNames == {f, g}

Says(name, latency, unit) == [name |-> name, latency |-> latency, unit |-> unit]

\* Complete files, and ones that fail on an entry and on either default.
MCFiles ==
    [complete |-> [readable |-> TRUE,
                   entries |-> <<Says(f, 12, "Cube"), Says(g, Absent, Unknown)>>,
                   defaultLatency |-> Absent, defaultUnit |-> "Vec"],
     partial  |-> [readable |-> TRUE,
                   entries |-> <<Says(f, 3, Absent), Says(f, 4, "MTE"), Says(g, Bad, "Vec")>>,
                   defaultLatency |-> 1, defaultUnit |-> "Vec"],
     defaults |-> [readable |-> TRUE, entries |-> <<>>,
                   defaultLatency |-> 5, defaultUnit |-> "Vec"],
     badEnd   |-> [readable |-> TRUE, entries |-> <<Says(f, 0, "Vec")>>,
                   defaultLatency |-> Bad, defaultUnit |-> "Vec"],
     badUnit  |-> [readable |-> TRUE, entries |-> <<Says(g, 6, "MTE")>>,
                   defaultLatency |-> 2, defaultUnit |-> Bad],
     noUnit   |-> [readable |-> TRUE, entries |-> <<Says(f, 3, Absent), Says(g, 4, Bad)>>,
                   defaultLatency |-> 2, defaultUnit |-> "Vec"],
     missing  |-> [readable |-> FALSE, entries |-> <<>>,
                   defaultLatency |-> Absent, defaultUnit |-> Absent]]

MCOptions ==
    [kind : {"--func-config"}, file : DOMAIN MCFiles \cup {Absent}]
        \cup [kind : {"--func-cycle"}, name : MCNames, digits : {0, 7, 17}]
        \cup [kind : {"--dump-config", "--help", "input", "empty", "invalid"}]

MCCommandLines == UNION {[1 .. n -> MCOptions] : n \in 0 .. 3}

=============================================================================
