-------------------------------- MODULE Host --------------------------------
(***************************************************************************)
(* A GDB server on one link of the probe and the command line on the other, *)
(* with one target between them: each drives it between two operations of   *)
(* the other, and finds what the other, or a run before it, has left.       *)
(***************************************************************************)
EXTENDS GdbServer, HostCommands

CONSTANTS Mixes  \* how many debuggers, packets and commands there will be, and
                 \* which commands, and how often the wire will fail:
                 \* several explorations in one

ASSUME HostAssumption ==
  Mixes \subseteq [debuggers : 0..MaxDebuggers, packets : 0..MaxPackets,
                  commands : 0..MaxRuns, menu : SUBSET AllRuns,
                  trouble : 0..MaxTrouble]

vars == <<target, trouble, alone, gdb, cli>>

Init ==
  \E m \in Mixes :
    /\ CoreInit(m.debuggers > 0, m.trouble)
    /\ gdb = [NoSession EXCEPT !.sessions = m.debuggers, !.packets = m.packets,
                !.phase = IF m.debuggers > 0 THEN @ ELSE "off"]
    /\ cli = [NoRun EXCEPT !.runs = m.commands, !.menu = m.menu]

Next == \/ GdbNext /\ UNCHANGED cli
        \/ CommandNext /\ UNCHANGED gdb
        \/ Execute /\ UNCHANGED <<gdb, cli>>

Spec == Init /\ [][Next]_vars

\* A process under way is scheduled and its operations are answered or time out;
\* debuggers and users owe nothing, and no target need run.
FairSpec == /\ Spec
            /\ WF_vars(ServerStep /\ UNCHANGED cli)
            /\ WF_vars((Operation \/ Drop) /\ UNCHANGED gdb)
            /\ WF_vars(Deadline /\ UNCHANGED gdb)
            /\ WF_vars(Quiet /\ ~Writes /\ UNCHANGED gdb)

TypeOK == CoreTypeOK /\ GdbTypeOK /\ CommandTypeOK
=============================================================================
