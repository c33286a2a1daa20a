---------------------------- MODULE HostCommands ----------------------------
(***************************************************************************)
(* A run of the command line (main.rs): the bridge commands and probe-rs    *)
(* operations each subcommand makes, in order, what it does when one of     *)
(* them fails, and what it leaves behind.                                   *)
(*                                                                         *)
(* A phase is the operation under way.  Commands that differ only in what   *)
(* they print or measure are one: "lines" stands for every one that samples *)
(* or clocks released lines, "pulse" for those that pulse reset inside the  *)
(* probe, "read" for dump, bench and probe.                                 *)
(***************************************************************************)
EXTENDS Core

CONSTANTS MaxRuns  \* bound of the exploration

VARIABLE cli  \* the command under way, or the latest; how many are still to
              \* come, and which

Cycles    == {"reset-cycle", "swdio-cycle"}
Releasing == Cycles \cup {"reset-release", "pulse"}
Attaching == {"identify", "fast-dump", "profile"}
Sampling  == {"lines"}
Bridged   == Releasing \cup Attaching \cup Sampling \cup {"reset-assert"}
Sessions  == {"status", "halt", "run", "step", "reset", "reset-halt", "registers",
              "read", "rtt", "write", "run-to", "break-set", "break-clear", "flash",
              "program", "probe-under"}
AllRuns   == Bridged \cup Sessions

ASSUME CommandAssumption == MaxRuns \in Nat

NoRun == [run |-> "status", phase |-> "idle", result |-> "none", runs |-> 0,
          menu |-> AllRuns, under |-> FALSE, stop |-> FALSE, was |-> FALSE,
          left |-> 0, to |-> 0, reached |-> FALSE, cleared |-> TRUE,
          image |-> "bin", banks |-> {}, backup |-> [b \in Banks |-> "none"],
          idle |-> FALSE, rough |-> FALSE, found |-> target]

\* Where the image goes, as far as erasing it has come.
Touched == SUBSET cli.banks \ {{}}

\* The operation of a phase.
CommandEffect ==
  CASE cli.phase \in {"engine", "pins", "sample", "detach"} -> Attached(FALSE)
    [] cli.phase \in {"attach", "find", "open"} -> Attached(TRUE)
    [] cli.phase \in {"assert", "hold"}         -> ResetHeld(TRUE)
    [] cli.phase \in {"release", "last", "let"} -> ResetHeld(FALSE)
    [] cli.phase = "pulse"     -> ResetPulsed(FALSE) \cup ResetPulsed(target.attached)
    [] cli.phase = "findUnder" -> ResetPulsed(TRUE)
    [] cli.phase = "drive"     -> SwdioDriven
    [] cli.phase = "words"     -> OnCore({target})
    [] cli.phase = "halt"      -> Stopped
    [] cli.phase = "run"       -> Resumed
    [] cli.phase = "step"      -> Stepped
    [] cli.phase = "set"       -> Armed(cli.to)
    [] cli.phase = "clear"     -> Cleared(cli.to)
    [] cli.phase = "reset"     -> Restarted("running")
    [] cli.phase = "resetHalt" -> Restarted("halted")
    [] cli.phase = "erase"     -> UNION {Flashed("partial", s) : s \in Touched}
    [] cli.phase = "download"  -> Flashed("new", cli.banks)
    [] cli.phase = "speed"     -> {target}
    [] OTHER                   -> Looked

-----------------------------------------------------------------------------
(* The order of the operations. *)

\* After set_engine, set_pin_map and set_speed, which every command begins with.
First == CASE cli.run = "reset-cycle" -> IF cli.stop THEN "last" ELSE "assert"
           [] cli.run = "swdio-cycle" -> IF cli.stop THEN "detach" ELSE "drive"
           [] cli.run = "reset-assert"  -> "assert"
           [] cli.run = "reset-release" -> "release"
           [] cli.run = "lines"         -> "sample"
           [] cli.run = "pulse"         -> "pulse"
           [] cli.run \in {"fast-dump", "profile"} -> "attach"
           [] OTHER                     -> "find"

\* reset-cycle that looks at its flag only before it asserts.
AfterReleaseEndless == IF cli.run = "reset-cycle" THEN "assert" ELSE "done"
AfterRelease == IF cli.run # "reset-cycle" THEN "done"
                ELSE IF cli.stop THEN "last" ELSE "assert"

\* swdio-cycle that only gives the lines back.
AfterDetachHolding == IF cli.run \in Sessions THEN "open" ELSE "done"
AfterDetach == CASE cli.run = "swdio-cycle" -> "release"
                 [] cli.run \in Sessions    -> "open"
                 [] OTHER                   -> "done"

\* Program that erases before it has saved anything.
WritingUnsaved == "erase"
Writing == IF cli.run = "flash" THEN "erase" ELSE "backup"

\* What a session is opened for: run_core and the rest.
Body == CASE cli.run \in {"status", "probe-under"} -> "look"
          [] cli.run \in {"step", "registers", "run-to"} -> "look"
          [] cli.run = "halt"        -> "halt"
          [] cli.run = "run"         -> "run"
          [] cli.run = "reset"       -> "reset"
          [] cli.run = "reset-halt"  -> "resetHalt"
          [] cli.run \in {"read", "rtt"} -> "read"
          [] cli.run = "write"       -> "store"
          [] cli.run = "break-set"   -> "set"
          [] cli.run = "break-clear" -> "clear"
          [] OTHER                   -> Writing  \* flash, program

Stops(then) == IF target.mode = "running" THEN "halt" ELSE then
AfterLook == CASE cli.run = "step"      -> Stops("step")
               [] cli.run = "registers" -> Stops("registers")
               [] cli.run = "run-to"    -> Stops("set")
               [] OTHER                 -> "done"
AfterHalt == CASE cli.run = "step"      -> "step"
               [] cli.run = "registers" -> "registers"
               [] cli.run = "run-to"    -> "set"
               [] OTHER                 -> "done"

AfterRegisters == IF cli.was THEN "run" ELSE "done"

\* Program compares what it reads with the bytes of the file, which are those of
\* the image only for a raw one.
ReadBack ==
  IF cli.image = "bin" /\ \A b \in cli.banks : target.flash[b] = "new"
  THEN "reset" ELSE "failed"

\* The commands that need no session.
BridgeAfter ==
  [engine |-> "pins", pins |-> "speed", speed |-> First,
   sample |-> "done", pulse |-> "done", last |-> "done",
   assert |-> IF cli.run = "reset-cycle" THEN "release" ELSE "done",
   release |-> AfterRelease,
   drive |-> IF cli.stop THEN "detach" ELSE "drive",
   attach |-> "words",
   words |-> IF cli.run = "profile" THEN "done" ELSE "detach"]

\* Detection, the first attach of Identify and of every session, and the session.
OpenAfter ==
  [find |-> "detach", findUnder |-> "detach", detach |-> AfterDetach,
   open |-> IF cli.under THEN "hold" ELSE Body, hold |-> "let", let |-> Body]

CoreAfter ==
  [look |-> AfterLook, halt |-> AfterHalt,
   step |-> IF cli.left > 0 THEN "step" ELSE "done",
   registers |-> AfterRegisters,
   read |-> IF cli.run = "rtt" THEN "stream" ELSE "done", stream |-> "stream",
   store |-> "check", check |-> "done",
   set |-> IF cli.run = "run-to" THEN "run" ELSE "done",
   run |-> IF cli.run = "run-to" THEN "poll" ELSE "done",
   poll |-> IF target.mode = "halted" THEN "clear" ELSE "poll",
   clear |-> IF cli.run # "run-to" THEN "done"
             ELSE IF cli.reached THEN "pc" ELSE "failed",
   pc |-> IF cli.cleared THEN "done" ELSE "failed",
   reset |-> "done", resetHalt |-> "done"]

ProgramAfter ==
  [backup |-> "erase", erase |-> "download",
   download |-> IF cli.run = "program" THEN "readback" ELSE "reset",
   readback |-> ReadBack]

Operations == DOMAIN BridgeAfter \cup DOMAIN OpenAfter \cup DOMAIN CoreAfter
              \cup DOMAIN ProgramAfter
AfterSuccess == CASE cli.phase \in DOMAIN BridgeAfter -> BridgeAfter[cli.phase]
                  [] cli.phase \in DOMAIN OpenAfter   -> OpenAfter[cli.phase]
                  [] cli.phase \in DOMAIN CoreAfter   -> CoreAfter[cli.phase]
                  [] OTHER                            -> ProgramAfter[cli.phase]

\* A failure ends the command, but for a plain attach, which is followed by one
\* under reset, a detection that finds nothing, a register that cannot be read,
\* and the breakpoint of run-to, whose failure is kept for later.
AfterFailure ==
  CASE cli.phase = "find"      -> "findUnder"
    [] cli.phase = "findUnder" -> IF cli.run = "identify" THEN "failed" ELSE "open"
    [] cli.phase = "registers" -> AfterRegisters
    [] cli.phase = "clear" /\ cli.run = "run-to" /\ cli.reached -> "pc"
    [] OTHER                   -> "failed"

-----------------------------------------------------------------------------

\* A session that was opened is dropped on the way out.
Prefix == {"engine", "pins", "speed"}
Opened == /\ cli.run \in Sessions
          /\ cli.phase \notin Prefix \cup {"find", "findUnder", "detach", "open"}

\* What Program saves: the largest region, wherever the image goes.
Backup == [b \in Banks |-> IF b # Largest THEN "none"
                           ELSE IF target.held THEN "zeros" ELSE target.flash[b]]

Leaves(next, ok) ==
  cli' = [cli EXCEPT
    !.phase  = IF next \notin {"done", "failed"} THEN next
               ELSE IF Opened THEN "drop" ELSE "idle",
    !.result = CASE next = "done"   -> "Ok"
                 [] next = "failed" -> "Err"
                 [] OTHER           -> @,
    !.rough   = @ \/ ~ok,
    !.under   = @ \/ (cli.phase = "findUnder" /\ ok),
    !.was     = IF cli.phase = "look" THEN target.mode = "running" ELSE @,
    !.left    = IF cli.phase = "step" THEN 0 ELSE @,
    !.reached = @ \/ (cli.phase = "poll" /\ next = "clear"),
    !.cleared = IF cli.phase = "clear" THEN ok ELSE @,
    !.backup  = IF cli.phase = "backup" /\ ok THEN Backup ELSE @]

\* One operation of the command.
Operation ==
  /\ cli.phase \in Operations
  /\ \E o \in Outcomes(CommandEffect) :
       /\ Takes(o, "command")
       /\ Leaves(IF o.ok THEN AfterSuccess ELSE AfterFailure, o.ok)

\* run-to's deadline: the breakpoint goes in any case.
DeadlineKeeps ==
  /\ cli.phase = "poll"
  /\ cli' = [cli EXCEPT !.phase = "drop", !.result = "Err"]
  /\ UNCHANGED <<target, trouble, alone>>
Deadline ==
  /\ cli.phase = "poll"
  /\ cli' = [cli EXCEPT !.phase = "clear"]
  /\ UNCHANGED <<target, trouble, alone>>

\* rtt's --idle-ms have passed without data.  Without it rtt streams on.
Quiet ==
  /\ cli.phase = "stream" /\ cli.idle
  /\ Leaves("done", TRUE)
  /\ UNCHANGED <<target, trouble, alone>>

Drop ==
  /\ cli.phase = "drop"
  /\ \E o \in Outcomes(Dropped) : Takes(o, "command")
  /\ cli' = [cli EXCEPT !.phase = "idle"]

Begin ==
  /\ cli.phase = "idle" /\ cli.runs > 0
  /\ \E run \in cli.menu, to \in Places, image \in {"bin", "elf"}, left \in {0, 1},
        banks \in SUBSET Banks, idle \in BOOLEAN :
       /\ to = 0 \/ run \in {"run-to", "break-set", "break-clear"}
       /\ image = "bin" \/ run = "program"
       /\ left = 0 \/ run = "step"
       /\ banks # {} <=> run \in {"flash", "program"}
       /\ idle => run = "rtt"
       /\ cli' = [NoRun EXCEPT !.run = run, !.phase = "engine",
                    !.runs = cli.runs - 1, !.menu = cli.menu, !.to = to,
                    !.image = image, !.left = left, !.banks = banks, !.idle = idle,
                    !.under = (run = "probe-under")]
  /\ alone' = [alone EXCEPT !.command = TRUE]
  /\ UNCHANGED <<target, trouble>>

\* A core that does not run writes nothing to its channels.
Writes == target.mode = "running" /\ ~target.held

\* Ctrl-C: two commands handle it, any other one just ends.
CtrlC ==
  /\ cli.phase # "idle"
  /\ cli' = IF cli.run \in Cycles /\ cli.phase \notin Prefix
            THEN [cli EXCEPT !.stop = TRUE]
            ELSE [cli EXCEPT !.phase = "idle", !.result = "killed"]
  /\ UNCHANGED <<target, trouble, alone>>

CommandNext == Begin \/ Operation \/ Deadline \/ Quiet \/ Drop \/ CtrlC

CommandTypeOK ==
  cli \in [run : AllRuns, phase : Operations \cup {"idle", "drop"},
           result : {"none", "Ok", "Err", "killed"}, runs : 0..MaxRuns,
           menu : SUBSET AllRuns, under : BOOLEAN, stop : BOOLEAN,
           was : BOOLEAN, left : {0, 1}, to : Places \cup {0},
           reached : BOOLEAN, cleared : BOOLEAN, image : {"bin", "elf"},
           banks : SUBSET Banks, backup : [Banks -> {"none", "zeros"} \cup Contents],
           idle : BOOLEAN, rough : BOOLEAN, found : Target]

-----------------------------------------------------------------------------
(* What a command leaves behind. *)

Ended(runs) == cli.phase = "idle" /\ cli.result # "none" /\ cli.run \in runs
EndedOk(runs) == Ended(runs) /\ cli.result = "Ok"

\* The target is in reset after a command only if it was before, if that is what
\* was asked for, or if a command that had asserted reset failed on its way to
\* the release; and never after one whose business is to release it, also when
\* Ctrl-C ends it between two steps.
ResetReturned ==
  /\ EndedOk(Releasing) => ~target.held
  /\ Ended(AllRuns) /\ target.held =>
       \/ cli.found.held \/ cli.run = "reset-assert"
       \/ cli.result # "Ok" /\ (cli.run \in Cycles \/ cli.under)

Saved(b) == cli.backup[b] = cli.found.flash[b]
Changed  == {b \in Banks : target.flash[b] # cli.found.flash[b]}

\* The largest region is never touched before its contents are in the backup,
\* whichever step fails afterwards, and a Program that ends well has put the image
\* into every region it belongs to.
BackedUp ==
  cli.run = "program" =>
    /\ Largest \in Changed => Saved(Largest)
    /\ cli.result = "Ok" => \A b \in cli.banks : target.flash[b] = "new"

\* run-to gives its breakpoint back, whether the core came or not, and when it
\* says that the core halted there, it did.
RunToReleases ==
  /\ Ended({"run-to"}) /\ cli.result # "killed" /\ ~cli.rough /\ alone.command
       => cli.to \notin target.armed
  /\ EndedOk({"run-to"}) /\ alone.command
       => target.mode = "halted" /\ target.pc \in {cli.to} \cup cli.found.armed

\* Every command ends: reset-cycle and swdio-cycle once Ctrl-C was pressed, rtt if
\* it was given --idle-ms and the target does not go on to write.
CommandEnds ==
  /\ cli.phase # "idle"
  /\ cli.run \in Cycles => cli.stop
  /\ cli.run = "rtt" => cli.idle
  ~> cli.phase = "idle" \/ (cli.run = "rtt" /\ Writes)

\* A Program on which nothing failed succeeds, whatever the format of its image.
EveryFormatPrograms ==
  Ended({"program"}) /\ ~cli.rough /\ ~cli.found.held => cli.result # "Err"
=============================================================================
