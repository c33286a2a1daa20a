----------------------------- MODULE GdbServer -----------------------------
(***************************************************************************)
(* The GDB server (gdb.rs): one debugger after another over one probe-rs    *)
(* session, the operations on the core it makes for them, each tried twice, *)
(* and what it believes about the core meanwhile.  gdbstub and the debugger *)
(* are external.                                                           *)
(***************************************************************************)
EXTENDS Core, Sequences

CONSTANTS
  HaltFirst,  \* not --no-halt
  MaxDebuggers, MaxPackets \* bounds of the exploration

ASSUME GdbAssumption ==
  HaltFirst \in BOOLEAN /\ {MaxDebuggers, MaxPackets} \subseteq Nat

VARIABLE gdb  \* the server: serve, serve_one, ProbeTarget and the connection;
              \* how many debuggers and packets are still to come

NoSession == [phase |-> "accept", line |-> "none", tries |-> 0, at |-> 0,
              held |-> {}, stepped |-> TRUE, sessions |-> 0, packets |-> 0,
              from |-> 0, rough |-> FALSE, excused |-> {}]

\* The operation a phase is about to make.
ServerEffect ==
  CASE gdb.phase \in {"halt", "interrupt"} -> Stopped
    [] gdb.phase \in {"set", "rearm"}      -> Armed(gdb.at)
    [] gdb.phase \in {"clear", "disarm"}   -> Cleared(gdb.at)
    [] gdb.phase = "run"                   -> Resumed
    [] gdb.phase = "step"                  -> Stepped
    [] OTHER                               -> Looked

Opening  == {"core", "halt", "units"}
\* read_register and write_register, which are not retried.
Once     == Opening \cup {"register"}
Retried  == {"set", "clear", "registers", "memory", "store", "run", "pc", "disarm",
             "step", "rearm", "poll", "status", "interrupt"}
Attempts == Once \cup Retried
Moves    == {"set", "clear", "disarm", "rearm"}

-----------------------------------------------------------------------------
(* What follows an operation that worked. *)

\* A step that leaves the unit on its own instruction armed.
AfterPcArmed == "step"
AfterPc == IF target.pc \in gdb.held THEN "disarm" ELSE "step"

\* A step that does not arm again what it disarmed.
AfterStepDisarmed == "poll"
AfterStep == IF gdb.at \in gdb.held THEN "rearm" ELSE "poll"

\* wait_for_stop_reason that looks only at the core.
AfterPollDeaf == IF target.mode = "halted" THEN "status" ELSE "poll"
AfterPoll == IF target.mode = "halted" THEN "status"
             ELSE CASE gdb.line = "typed"  -> "interrupt"
                    [] gdb.line = "closed" -> "clean"
                    [] OTHER               -> "poll"

ServerAfter ==
  [core |-> IF HaltFirst THEN "halt" ELSE "units", halt |-> "units",
   units |-> "stopped", set |-> "stopped", clear |-> "stopped",
   registers |-> "stopped", register |-> "stopped", memory |-> "stopped",
   store |-> "stopped", run |-> "poll",
   pc |-> AfterPc, disarm |-> "step", step |-> AfterStep,
   rearm |-> IF gdb.stepped THEN "poll" ELSE "clean",
   poll |-> AfterPoll, status |-> "stopped", interrupt |-> "stopped"]

Worked ==
  gdb' = [gdb EXCEPT
    !.phase = ServerAfter[gdb.phase], !.tries = 0,
    !.held = CASE gdb.phase = "set"   -> @ \cup {gdb.at}
               [] gdb.phase = "clear" -> @ \ {gdb.at}
               [] OTHER               -> @,
    !.at   = IF gdb.phase = "pc" THEN target.pc ELSE @,
    !.from = IF gdb.phase = "pc" THEN target.pc ELSE @,
    !.line = IF gdb.phase = "poll" /\ AfterPoll = "interrupt" THEN "open" ELSE @]

(* And one that did not. *)

\* on_interrupt that tells the debugger in any case.
GivenUpTold ==
  CASE gdb.phase \in Opening             -> "attach"
    [] gdb.phase \in {"memory", "interrupt"} -> "stopped"
    [] gdb.phase = "step" /\ AfterStep = "rearm" -> "rearm"
    [] OTHER                             -> "clean"

\* Before the session opens, serve_one fails; inside it, the stub ends, a read
\* that GDB cannot satisfy excepted, and a failed step arms its unit again.
GivenUp ==
  CASE gdb.phase \in Opening             -> "attach"
    [] gdb.phase = "memory"              -> "stopped"
    [] gdb.phase = "step" /\ AfterStep = "rearm" -> "rearm"
    [] OTHER                             -> "clean"

\* retrying that does not stop at the second attempt.
FailedEndless ==
  gdb' = [gdb EXCEPT
    !.rough = TRUE, !.tries = @ + 1,
    !.phase = IF gdb.phase \in Retried THEN @ ELSE GivenUp]

Failed ==
  gdb' = [gdb EXCEPT
    !.rough   = TRUE,
    !.excused = IF gdb.phase \in Moves THEN @ \cup {gdb.at} ELSE @,
    !.phase   = IF gdb.phase \in Retried /\ gdb.tries = 0 THEN @ ELSE GivenUp,
    !.tries   = IF gdb.phase \in Retried /\ @ = 0 THEN 1 ELSE 0,
    !.stepped = IF gdb.phase = "step" /\ gdb.tries = 1 THEN FALSE ELSE @]

\* One operation on the core, or the second attempt at it: retrying.
Attempt ==
  /\ gdb.phase \in Attempts
  /\ \E o \in Outcomes(ServerEffect) :
       Takes(o, "server") /\ IF o.ok THEN Worked ELSE Failed

-----------------------------------------------------------------------------
(* The debugger. *)

Connect ==
  /\ gdb.phase = "accept" /\ gdb.sessions > 0
  /\ gdb' = [NoSession EXCEPT !.phase = "core", !.line = "open",
               !.sessions = gdb.sessions - 1,
               !.packets = gdb.packets, !.excused = target.armed]
  /\ alone' = [alone EXCEPT !.server = TRUE]
  /\ UNCHANGED <<target, trouble>>

Packet(phase, at) ==
  /\ gdb.phase = "stopped" /\ gdb.line = "open" /\ gdb.packets > 0
  /\ gdb' = [gdb EXCEPT !.phase = phase, !.at = at, !.packets = @ - 1,
               !.rough = FALSE, !.stepped = TRUE]
  /\ UNCHANGED <<target, trouble, alone>>

\* Answered at once: a breakpoint that is set already, or for which no unit is
\* left, and the removal of one that is not set.
AddBreakpoint ==
  \E a \in Places \ gdb.held :
    Cardinality(gdb.held) < Units /\ Packet("set", a)
RemoveBreakpoint == \E a \in gdb.held : Packet("clear", a)
Access == \E phase \in {"registers", "register", "memory", "store"} :
            Packet(phase, 0)
Resume == Packet("run", 0)
Step   == Packet("pc", 0)

\* Ctrl-C while the program runs.
Type ==
  /\ gdb.phase = "poll" /\ gdb.line = "open"
  /\ gdb' = [gdb EXCEPT !.line = "typed"]
  /\ UNCHANGED <<target, trouble, alone>>

\* Detach, kill or the end of the debugger.
HangUp ==
  /\ gdb.line \in {"open", "typed"}
  /\ gdb' = [gdb EXCEPT !.line = "closed"]
  /\ UNCHANGED <<target, trouble, alone>>

\* A stub that reads from a connection that is gone.
EndOfSession ==
  /\ gdb.phase = "stopped" /\ gdb.line = "closed"
  /\ gdb' = [gdb EXCEPT !.phase = "clean"]
  /\ UNCHANGED <<target, trouble, alone>>

\* Ctrl-C that came while the core was halting: passed over, or obeyed again.
TypedLate ==
  /\ gdb.phase = "stopped" /\ gdb.line = "typed"
  /\ \E phase \in {"stopped", "interrupt"} :
       gdb' = [gdb EXCEPT !.line = "open", !.phase = phase]
  /\ UNCHANGED <<target, trouble, alone>>

-----------------------------------------------------------------------------
(* After the debugger. *)

\* Nothing is cleared when a session ends.
CleanNothing ==
  /\ gdb.phase = "clean"
  /\ gdb' = [gdb EXCEPT !.phase = "accept", !.line = "none", !.held = {}]
  /\ UNCHANGED <<target, trouble, alone>>

\* Each of its breakpoints is cleared; one that cannot be is passed over.
Clean ==
  /\ gdb.phase = "clean"
  /\ \/ /\ gdb.held = {}
        /\ gdb' = [gdb EXCEPT !.phase = "accept", !.line = "none"]
        /\ UNCHANGED <<target, trouble, alone>>
     \/ \E a \in gdb.held : \E o \in Outcomes(Cleared(a)) :
          /\ Takes(o, "server")
          /\ gdb' = [gdb EXCEPT !.held = @ \ {a},
                       !.excused = IF o.ok THEN @ ELSE @ \cup {a}]

\* The session is dropped and built again, or the server ends.
MakeSession ==
  /\ gdb.phase = "attach"
  /\ \E o \in Outcomes({[t EXCEPT !.attached = TRUE] : t \in Dropped}) :
       /\ Takes(o, "server")
       /\ gdb' = [gdb EXCEPT !.phase = IF o.ok THEN "accept" ELSE "off",
                    !.line = "none"]

ServerStep == Attempt \/ EndOfSession \/ TypedLate \/ Clean \/ MakeSession
Debugger   == Connect \/ AddBreakpoint \/ RemoveBreakpoint \/ Access \/ Resume
              \/ Step \/ Type \/ HangUp
GdbNext    == ServerStep \/ Debugger

GdbTypeOK ==
  gdb \in [phase : Attempts \cup {"off", "accept", "stopped", "clean", "attach"},
           line : {"none", "open", "typed", "closed"}, tries : {0, 1},
           at : 0..(Code - 1), held : SUBSET Places, stepped : BOOLEAN,
           sessions : 0..MaxDebuggers, packets : 0..MaxPackets,
           from : 0..(Code - 1), rough : BOOLEAN, excused : SUBSET Places]

-----------------------------------------------------------------------------
(* What the server promises. *)

\* While the debugger believes the program stopped it is: no register it shows
\* is that of a core that runs on, whatever failed, as long as no other process
\* has used the target since the debugger came.
StoppedIsHalted ==
  gdb.phase = "stopped" /\ HaltFirst /\ alone.server => target.mode = "halted"

\* What the debugger was told of its breakpoints is so, after any sequence of
\* insertions, removals and steps over them: each has a unit, and no unit is
\* armed besides but those of before the session and those an attempt failed on.
BreakpointsAreArmed ==
  gdb.phase = "stopped" /\ alone.server =>
    /\ gdb.held \subseteq target.armed
    /\ target.armed \subseteq gdb.held \cup gdb.excused

\* A step moves the program by one instruction, also off one with a breakpoint
\* of its own: exactly one if nothing had to be tried twice.
StepsOnce ==
  [][gdb.phase = "step" /\ gdb'.phase \in {"rearm", "poll"} /\ ~gdb'.rough
       /\ HaltFirst /\ alone.server /\ gdb.from \notin gdb.excused
     => target'.pc = (gdb.from + 1) % Code]_<<gdb, target, alone>>

\* When a session is over no unit it has armed stays armed, one excepted that an
\* attempt failed on; in particular after a session that ended in an error.
NothingLeftArmed ==
  gdb.phase = "accept" /\ alone.server => target.armed \subseteq gdb.excused

\* A debugger that interrupts a running program is obeyed, and one that goes away
\* leaves the server to the next, whatever the core does.
DebuggerHeard ==
  /\ gdb.line = "typed" ~> gdb.line # "typed"
  /\ gdb.line = "closed" ~> gdb.line = "none"
=============================================================================
