---------------------------- MODULE MCSelfUpdate ----------------------------
\* Situations for SelfUpdate.
EXTENDS SelfUpdate

Situation(platform, installed, inUse, together, f, c) ==
    [platform |-> platform, installed |-> installed, inUse |-> inUse,
     together |-> together, faults |-> f, crashes |-> c]

\* Runs one after the other or at once; with the server's binary and without;
\* with a command that can be renamed while it runs and one that cannot.  Two
\* failing calls are tried where runs do not overlap; runs that overlap on Windows
\* have enough to do with each other's files.
MCScenarios ==
    { Situation("unix", i, {}, FALSE, 2, 1) : i \in {{Cli}, Binaries} }
    \cup
    { Situation("unix", {Cli}, {}, TRUE, 1, 1),
      Situation("unix", Binaries, {}, TRUE, 1, 0),
      Situation("windows", {Cli}, {}, FALSE, 1, 0),
      Situation("windows", {Cli}, {Cli}, FALSE, 1, 1),
      Situation("windows", Binaries, {}, FALSE, 2, 0),
      Situation("windows", Binaries, {Cli}, FALSE, 1, 0) }
    \cup
    { Situation("windows", Binaries, l, TRUE, 0, 0) : l \in {{}, {Cli}} }
=============================================================================
