------------------------------- MODULE MCHost -------------------------------
(* Instances of Host for TLC: a program of three instructions, one of which no *)
(* breakpoint is set on.  Debuggers alone on a failing wire; commands alone,   *)
(* one on a failing wire, any two in a row, and two that may leave something   *)
(* behind when they fail; and a debugger beside a command that takes the link  *)
(* away, and beside one that runs the core.                                    *)
EXTENDS Host

MCPlaces == {0, 1}

Mix(debuggers, packets, commands, menu, faults) ==
  [debuggers |-> debuggers, packets |-> packets, commands |-> commands,
   menu |-> menu, trouble |-> faults]

MCMixes ==
  {Mix(2, 3, 0, {}, 2), Mix(0, 0, 1, AllRuns, 2), Mix(0, 0, 2, AllRuns, 0),
   Mix(0, 0, 2, {"reset-assert", "swdio-cycle", "halt", "run-to", "program"}, 1),
   Mix(2, 1, 1, {"lines"}, 0), Mix(1, 0, 1, {"run-to"}, 0)}

\* One Program, and nothing else.
MCProgram == {Mix(0, 0, 1, {"program"}, 0)}
=============================================================================
