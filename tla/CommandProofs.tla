--------------------------- MODULE CommandProofs ----------------------------
(***************************************************************************)
(* What a run of the command line leaves behind, for every program, mix of  *)
(* commands, wire that fails and debugger beside it: the reset line, the    *)
(* flash and the breakpoint of run-to.                                     *)
(***************************************************************************)
EXTENDS HostProofs

Start   == {"engine", "pins", "speed"}
Opens   == {"find", "findUnder", "detach", "open", "hold", "let"}
Over    == {"drop", "idle"}

\* The order of the operations, as far as what a command leaves depends on it.
Route ==
  /\ cli.phase = "assert" => cli.run \in {"reset-assert", "reset-cycle"}
  /\ cli.phase = "drive" => cli.run = "swdio-cycle"
  /\ cli.phase \in {"hold", "let"} => cli.under
  /\ cli.run \in Releasing =>
       /\ cli.phase \in Start \cup {"assert", "release", "last", "drive", "detach",
                                    "pulse", "idle"}
       /\ cli.phase = "detach" => cli.run = "swdio-cycle"
  /\ cli.run = "program" =>
       cli.phase \in Start \cup Opens \cup Over
                     \cup {"backup", "erase", "download", "readback", "reset"}
  /\ cli.run = "run-to" =>
       cli.phase \in Start \cup Opens \cup Over
                     \cup {"look", "halt", "set", "run", "poll", "clear", "pc"}
  /\ cli.phase \notin Over => cli.result = "none"
  /\ cli.reached => cli.phase \in {"clear", "pc"} \cup Over

\* Reset is asserted by who may leave it so, and over by when a command is Ok.
Line ==
  /\ cli.result = "Ok" /\ cli.run \in Releasing => ~target.held
  /\ target.held =>
       \/ cli.found.held \/ cli.run = "reset-assert" \/ cli.run \in Cycles
       \/ /\ cli.under
          /\ cli.phase \in {"hold", "let"} \/ (cli.phase \in Over /\ cli.result # "Ok")

\* Program: what flash holds, and what the backup, at each step of it.
Kept ==
  cli.run = "program" =>
    /\ cli.phase \in Start \cup Opens \cup {"backup", "erase"} =>
         target.flash = cli.found.flash
    /\ cli.phase = "erase" => Saved(Largest) \/ target.held
    /\ cli.phase \in {"download", "readback", "reset"} => Saved(Largest)
    /\ target.flash # cli.found.flash => Saved(Largest)
    /\ cli.phase = "reset" \/ cli.result = "Ok" =>
         \A b \in cli.banks : target.flash[b] = "new"

\* run-to: where it set its breakpoint, and where the core can have halted.
Marked ==
  cli.run = "run-to" /\ alone["command"] =>
    /\ target.armed \subseteq {cli.to} \cup cli.found.armed
    /\ \/ cli.phase = "poll" /\ target.mode = "halted"
       \/ cli.phase = "clear" /\ cli.reached
       \/ cli.phase = "pc"
       \/ cli.result = "Ok"
       => target.mode = "halted" /\ target.pc \in {cli.to} \cup cli.found.armed
    /\ ~cli.rough => /\ cli.cleared
                     /\ cli.phase = "pc" \/ (cli.phase \in Over /\ cli.result # "killed")
                        => cli.to \notin target.armed

Left == Typed /\ Route /\ Line /\ Kept /\ Marked

-----------------------------------------------------------------------------
(* The order of the operations. *)

\* Where an operation that worked or failed leads, in the terms of Route.
LEMMA Leads ==
  ASSUME Typed, Route, cli.phase \in Operations, NEW next \in {AfterSuccess, AfterFailure}
  PROVE  /\ next = "assert" => cli.run \in {"reset-assert", "reset-cycle"}
         /\ next = "drive" => cli.run = "swdio-cycle"
         /\ next \in {"hold", "let"} => cli.under
         /\ cli.run \in Releasing =>
              /\ next \in Start \cup {"assert", "release", "last", "drive", "detach",
                                      "pulse", "done", "failed"}
              /\ next = "detach" => cli.run = "swdio-cycle"
         /\ cli.run = "program" =>
              next \in Start \cup Opens \cup {"backup", "erase", "download", "readback",
                                              "reset", "done", "failed"}
         /\ cli.run = "run-to" =>
              next \in Start \cup Opens \cup {"look", "halt", "set", "run", "poll", "clear",
                                              "pc", "done", "failed"}
<1>1. CASE next = AfterFailure
  BY <1>1, OperationsAre
     DEF Route, AfterFailure, AfterRegisters, Start, Opens, Over, Releasing, Cycles
<1>2. CASE next = AfterSuccess
  <2>1. CASE cli.phase \in DOMAIN BridgeAfter
    BY <1>2, <2>1, OperationsAre, AfterIs
       DEF Route, First, AfterRelease, AfterDetach, Start, Opens, Over, Releasing, Cycles,
           Sessions
  <2>2. CASE cli.phase \in DOMAIN OpenAfter
    BY <1>2, <2>2, OperationsAre, AfterIs
       DEF Route, AfterDetach, Body, Writing, Start, Opens, Over, Releasing, Cycles,
           Sessions
  <2>3. CASE cli.phase \in DOMAIN CoreAfter
    BY <1>2, <2>3, OperationsAre, CoreAfterIs
       DEF Route, AfterLook, AfterHalt, AfterRegisters, Stops, Start, Opens, Over,
           Releasing, Cycles
  <2>4. CASE cli.phase \in DOMAIN ProgramAfter
    BY <1>2, <2>4, OperationsAre, CoreAfterIs
       DEF Route, ReadBack, Start, Opens, Over, Releasing, Cycles
  <2>5. QED
    BY <2>1, <2>2, <2>3, <2>4 DEF Operations
<1>3. QED
  BY <1>1, <1>2

\* One operation, in the terms of what follows.
LEMMA OperationLeaves ==
  ASSUME Left, Operation
  PROVE  \E ok \in BOOLEAN :
           LET next == IF ok THEN AfterSuccess ELSE AfterFailure
           IN  /\ ok => target' \in CommandEffect
               /\ cli'.phase = IF next \notin {"done", "failed"} THEN next
                               ELSE IF Opened THEN "drop" ELSE "idle"
               /\ cli'.result = CASE next = "done" -> "Ok" [] next = "failed" -> "Err"
                                  [] OTHER -> cli.result
               /\ cli'.rough = (cli.rough \/ ~ok)
               /\ cli'.under = (cli.under \/ (cli.phase = "findUnder" /\ ok))
               /\ cli'.reached = (cli.reached \/ (cli.phase = "poll" /\ next = "clear"))
               /\ cli'.cleared = IF cli.phase = "clear" THEN ok ELSE cli.cleared
               /\ cli'.backup = IF cli.phase = "backup" /\ ok THEN Backup ELSE cli.backup
<1>1. Typed
  BY DEF Left
<1>2. CASE Leaves(AfterSuccess, TRUE) /\ target' \in CommandEffect
  <2>1. AfterSuccess \in Operations \cup {"done", "failed"} /\ cli.phase \in Operations
    BY <1>1, OperationIs, Follows
  <2>2. WITNESS TRUE \in BOOLEAN
  <2>3. QED
    BY <1>1, <1>2, <2>1, LeavesIs
<1>3. CASE Leaves(AfterFailure, FALSE)
  <2>1. AfterFailure \in Operations \cup {"done", "failed"} /\ cli.phase \in Operations
    BY <1>1, OperationIs, Follows
  <2>2. WITNESS FALSE \in BOOLEAN
  <2>3. QED
    BY <1>1, <1>3, <2>1, LeavesIs
<1>4. QED
  BY <1>1, <1>2, <1>3, OperationIs

\* What an operation leaves as it is.
LEMMA OperationStays ==
  ASSUME Left, Operation
  PROVE  /\ cli'.run = cli.run /\ cli'.to = cli.to /\ cli'.found = cli.found
         /\ cli'.banks = cli.banks /\ cli.phase \in Operations /\ cli.phase \notin Over
         /\ target \in Target /\ target' \in CommandEffect \cup {target}
         /\ alone'["command"] => alone["command"]
<1>1. Typed /\ target \in Target
  BY TypeParts DEF Left, Typed
<1>2. \E ok \in BOOLEAN, next \in Operations \cup {"done", "failed"} : Leaves(next, ok)
  BY <1>1, OperationIs, Follows
<1>3. QED
  BY <1>1, <1>2, OperationIs, LeavesIs, OperationsAre DEF Over

\* It follows the order,
LEMMA RouteKept ==
  ASSUME Left, Operation
  PROVE  Route'
<1>1. Typed /\ Route /\ cli \in CliType
  BY TypeParts DEF Left, Typed
<1>2. cli'.run = cli.run /\ cli.phase \in Operations /\ cli.phase \notin Over
  BY OperationStays
<1>3. PICK next \in {AfterSuccess, AfterFailure} :
        /\ cli'.phase = IF next \notin {"done", "failed"} THEN next
                        ELSE IF Opened THEN "drop" ELSE "idle"
        /\ cli'.result = CASE next = "done" -> "Ok" [] next = "failed" -> "Err"
                           [] OTHER -> cli.result
        /\ cli.under => cli'.under
        /\ cli'.reached = (cli.reached \/ (cli.phase = "poll" /\ next = "clear"))
  BY OperationLeaves
<1>4. /\ next = "assert" => cli.run \in {"reset-assert", "reset-cycle"}
      /\ next = "drive" => cli.run = "swdio-cycle"
      /\ next \in {"hold", "let"} => cli.under
      /\ cli.run \in Releasing =>
           /\ next \in Start \cup {"assert", "release", "last", "drive", "detach",
                                   "pulse", "done", "failed"}
           /\ next = "detach" => cli.run = "swdio-cycle"
      /\ cli.run = "program" =>
           next \in Start \cup Opens \cup {"backup", "erase", "download", "readback",
                                           "reset", "done", "failed"}
      /\ cli.run = "run-to" =>
           next \in Start \cup Opens \cup {"look", "halt", "set", "run", "poll", "clear",
                                           "pc", "done", "failed"}
  BY <1>1, <1>2, <1>3, Leads
<1>5. cli.run \in Releasing => ~Opened
  BY DEF Opened, Releasing, Cycles, Sessions
<1>6. cli'.reached => cli'.phase \in {"clear", "pc"} \cup Over
  <2>1. CASE cli.reached
    <3>1. next \in {"pc", "done", "failed"}
      BY <1>1, <1>2, <1>3, <2>1, CoreAfterIs DEF Route, Over, AfterFailure
    <3>2. QED
      BY <1>3, <3>1 DEF Over
  <2>2. QED
    BY <1>3, <2>1
<1>7. cli'.phase \notin Over => cli'.result = "none"
  BY <1>1, <1>2, <1>3 DEF Route, Over
<1>8. QED
  BY <1>2, <1>3, <1>4, <1>5, <1>6, <1>7 DEF Route, Over, Start, Opens

\* holds reset only where that is allowed,
LEMMA LineKept ==
  ASSUME Left, Operation
  PROVE  Line'
<1>1. Typed /\ Route /\ Line /\ Aimed
  BY DEF Left, Typed
<1>2. /\ cli'.run = cli.run /\ cli'.found = cli.found /\ target \in Target
      /\ cli.phase \in Operations /\ cli.phase \notin Over
  BY OperationStays
<1>3. PICK ok \in BOOLEAN :
        LET next == IF ok THEN AfterSuccess ELSE AfterFailure
        IN  /\ ok => target' \in CommandEffect
            /\ cli'.phase = IF next \notin {"done", "failed"} THEN next
                            ELSE IF Opened THEN "drop" ELSE "idle"
            /\ cli'.result = CASE next = "done" -> "Ok" [] next = "failed" -> "Err"
                               [] OTHER -> cli.result
            /\ cli.under => cli'.under
  BY OperationLeaves
<1>4. target' = target
      \/ target'.held = CASE cli.phase \in {"assert", "hold", "drive"} -> TRUE
                          [] cli.phase \in {"release", "last", "let", "pulse",
                                            "findUnder"} -> FALSE
                          [] OTHER -> target.held
  BY <1>1, <1>2, OperationStays, CommandEffects
<1>5. ok => target'.held = CASE cli.phase \in {"assert", "hold", "drive"} -> TRUE
                             [] cli.phase \in {"release", "last", "let", "pulse",
                                               "findUnder"} -> FALSE
                             [] OTHER -> target.held
  BY <1>1, <1>2, <1>3, CommandEffects
<1>6. cli.result = "none"
  BY <1>1, <1>2 DEF Route
<1>7. cli'.result = "Ok" /\ cli.run \in Releasing => ~target'.held
  <2>1. SUFFICES ASSUME cli'.result = "Ok", cli.run \in Releasing
                 PROVE  ~target'.held
    OBVIOUS
  <2>2. (IF ok THEN AfterSuccess ELSE AfterFailure) = "done"
    BY <1>3, <1>6, <2>1
  <2>3. cli.phase \in Start \cup {"assert", "release", "last", "drive", "detach", "pulse"}
    BY <1>1, <1>2, <2>1 DEF Route, Over
  <2>4. ok
    BY <2>2, <2>3 DEF AfterFailure, Start
  <2>5. cli.phase \in {"release", "last", "pulse"}
    BY <1>1, <2>1, <2>2, <2>3, <2>4, AfterIs
       DEF Route, Start, First, AfterDetach, Releasing, Cycles
  <2>6. QED
    BY <1>5, <2>4, <2>5
<1>8. cli.phase \in {"hold", "let"} /\ target'.held =>
        cli'.phase \in {"hold", "let"} \/ (cli'.phase \in Over /\ cli'.result # "Ok")
  BY <1>3, <1>5, AfterIs DEF AfterFailure, Over
<1>9. target'.held =>
        \/ cli.found.held \/ cli.run = "reset-assert" \/ cli.run \in Cycles
        \/ /\ cli'.under
           /\ cli'.phase \in {"hold", "let"} \/ (cli'.phase \in Over /\ cli'.result # "Ok")
  <2>1. CASE cli.phase \in {"hold", "let"}
    BY <1>1, <1>3, <1>8, <2>1 DEF Route
  <2>2. CASE cli.phase \in {"assert", "drive"}
    BY <1>1, <2>2 DEF Route, Cycles
  <2>3. CASE cli.phase \notin {"assert", "drive", "hold", "let"}
    BY <1>1, <1>2, <1>4, <2>3 DEF Line
  <2>4. QED
    BY <2>1, <2>2, <2>3
<1>10. QED
  BY <1>2, <1>7, <1>9 DEF Line

\* touches flash only when it has a copy of the largest region,
LEMMA FlashKept ==
  ASSUME Left, Operation
  PROVE  Kept'
<1>1. Typed /\ Route /\ Kept /\ Aimed
  BY DEF Left, Typed
<1>2. /\ cli'.run = cli.run /\ cli'.found = cli.found /\ cli'.banks = cli.banks
      /\ target \in Target /\ cli.banks \subseteq Banks
      /\ cli.phase \in Operations /\ cli.phase \notin Over
  BY <1>1, TypeParts, OperationStays DEF Typed, CliType
<1>3. PICK ok \in BOOLEAN :
        LET next == IF ok THEN AfterSuccess ELSE AfterFailure
        IN  /\ ok => target' \in CommandEffect
            /\ cli'.phase = IF next \notin {"done", "failed"} THEN next
                            ELSE IF Opened THEN "drop" ELSE "idle"
            /\ cli'.result = CASE next = "done" -> "Ok" [] next = "failed" -> "Err"
                               [] OTHER -> cli.result
            /\ cli'.backup = IF cli.phase = "backup" /\ ok THEN Backup ELSE cli.backup
  BY OperationLeaves
<1>4. \A t \in CommandEffect :
        /\ cli.phase \notin {"erase", "download"} => t.flash = target.flash
        /\ cli.phase \in {"erase", "download"} => ~target.held
        /\ cli.phase \in {"backup", "erase"} => t.held = target.held
  BY <1>1, <1>2, CommandEffects
<1>5. target' \in CommandEffect \cup {target}
  BY OperationStays
<1>6. cli.result = "none"
  BY <1>1, <1>2 DEF Route
<1>7. SUFFICES ASSUME cli.run = "program"
               PROVE  Kept'
  BY <1>2 DEF Kept
<1> DEFINE next == IF ok THEN AfterSuccess ELSE AfterFailure
<1>8. CASE cli.phase \in Start \cup Opens
  <2>1. target'.flash = target.flash /\ cli'.backup = cli.backup
    BY <1>3, <1>4, <1>5, <1>8 DEF Start, Opens
  <2>2. next \in Start \cup Opens \cup {"backup", "failed"}
    <3>1. CASE ok
      BY <1>7, <1>8, <3>1, AfterIs
         DEF Start, Opens, First, AfterDetach, Body, Writing, Sessions
    <3>2. CASE ~ok
      BY <1>7, <1>8, <3>2 DEF Start, Opens, AfterFailure
    <3>3. QED
      BY <3>1, <3>2
  <2>3. cli'.phase \in Start \cup Opens \cup {"backup"}
        \/ (cli'.phase \in Over /\ cli'.result = "Err")
    BY <1>3, <2>2 DEF Start, Opens, Over
  <2>4. target.flash = cli.found.flash
    BY <1>1, <1>7, <1>8 DEF Kept
  <2>5. cli'.result = "none" \/ cli'.result = "Err"
    BY <1>3, <1>6, <2>2 DEF Start, Opens
  <2>6. QED
    BY <1>2, <2>1, <2>3, <2>4, <2>5 DEF Kept, Saved, Start, Opens, Over
<1>9. ASSUME ~ok, cli.phase \in {"backup", "erase", "download", "readback", "reset"}
      PROVE  Kept'
  <2>1. cli'.phase \in Over /\ cli'.result = "Err" /\ cli'.backup = cli.backup
    BY <1>3, <1>9 DEF AfterFailure, Over
  <2>2. target'.flash # cli.found.flash => Saved(Largest)
    BY <1>1, <1>4, <1>5, <1>7, <1>9 DEF Kept
  <2>3. QED
    BY <1>2, <2>1, <2>2 DEF Kept, Saved, Start, Opens, Over
<1>10. CASE ok /\ cli.phase = "backup"
  <2>1. /\ cli'.phase = "erase" /\ cli'.result = "none" /\ target'.flash = target.flash
        /\ target'.held = target.held /\ cli'.backup = Backup
    BY <1>3, <1>4, <1>6, <1>10, CoreAfterIs
  <2>2. target.flash = cli.found.flash
    BY <1>1, <1>7, <1>10 DEF Kept
  <2>3. Saved(Largest)' \/ target'.held
    BY <1>2, <2>1, <2>2, BackupIs DEF Saved, Target
  <2>4. QED
    BY <1>2, <2>1, <2>2, <2>3 DEF Kept, Saved, Start, Opens
<1>11. CASE ok /\ cli.phase = "erase"
  <2>1. /\ cli'.phase = "download" /\ cli'.result = "none" /\ cli'.backup = cli.backup
        /\ ~target.held
    BY <1>3, <1>4, <1>6, <1>11, CoreAfterIs
  <2>2. Saved(Largest)
    BY <1>1, <1>7, <1>11, <2>1 DEF Kept
  <2>3. QED
    BY <1>2, <2>1, <2>2 DEF Kept, Saved, Start, Opens
<1>12. CASE ok /\ cli.phase \in {"download", "readback"}
  <2>1. /\ cli'.backup = cli.backup
        /\ \/ cli'.phase = "readback" /\ cli'.result = "none"
           \/ cli'.phase = "reset" /\ cli'.result = "none"
              /\ \A b \in cli.banks : target'.flash[b] = "new"
           \/ cli'.phase \in Over /\ cli'.result = "Err"
    BY <1>3, <1>4, <1>6, <1>7, <1>12, CoreAfterIs DEF ReadBack, Over
  <2>2. Saved(Largest)
    BY <1>1, <1>7, <1>12 DEF Kept
  <2>3. QED
    BY <1>2, <2>1, <2>2 DEF Kept, Saved, Start, Opens, Over
<1>13. CASE ok /\ cli.phase = "reset"
  <2>1. /\ cli'.phase \in Over /\ cli'.backup = cli.backup
        /\ target'.flash = target.flash
    BY <1>3, <1>4, <1>13, CoreAfterIs DEF Over
  <2>2. Saved(Largest) /\ \A b \in cli.banks : target.flash[b] = "new"
    BY <1>1, <1>7, <1>13 DEF Kept
  <2>3. QED
    BY <1>2, <2>1, <2>2 DEF Kept, Saved, Start, Opens, Over
<1>14. QED
  BY <1>1, <1>2, <1>7, <1>8, <1>9, <1>10, <1>11, <1>12, <1>13 DEF Route, Over

\* and gives the breakpoint of run-to back.
LEMMA MarkedKept ==
  ASSUME Left, Operation
  PROVE  Marked'
<1>1. Typed /\ Route /\ Marked /\ Aimed
  BY DEF Left, Typed
<1>2. /\ cli'.run = cli.run /\ cli'.found = cli.found /\ cli'.to = cli.to
      /\ cli.phase \in Operations /\ cli.phase \notin Over /\ target \in Target
      /\ alone'["command"] => alone["command"]
  BY OperationStays
<1>3. PICK ok \in BOOLEAN :
        LET next == IF ok THEN AfterSuccess ELSE AfterFailure
        IN  /\ ok => target' \in CommandEffect
            /\ cli'.phase = IF next \notin {"done", "failed"} THEN next
                            ELSE IF Opened THEN "drop" ELSE "idle"
            /\ cli'.result = CASE next = "done" -> "Ok" [] next = "failed" -> "Err"
                               [] OTHER -> cli.result
            /\ cli'.rough = (cli.rough \/ ~ok)
            /\ cli'.reached = (cli.reached \/ (cli.phase = "poll" /\ next = "clear"))
            /\ cli'.cleared = IF cli.phase = "clear" THEN ok ELSE cli.cleared
  BY OperationLeaves
<1>4. \A t \in CommandEffect :
        /\ t.armed = CASE cli.phase = "set"   -> target.armed \cup {cli.to}
                       [] cli.phase = "clear" -> target.armed \ {cli.to}
                       [] OTHER               -> target.armed
        /\ cli.phase \in {"set", "clear", "pc", "poll"} =>
             t.mode = target.mode /\ t.pc = target.pc
        /\ cli.phase = "run" =>
             \/ t.mode = "running"
             \/ t = target /\ target.mode = "halted" /\ target.pc \in target.armed
  BY <1>1, <1>2, CommandEffects
<1>5. target' \in CommandEffect \cup {target}
  BY OperationStays
<1>6. cli.result = "none"
  BY <1>1, <1>2 DEF Route
<1>7. SUFFICES ASSUME cli.run = "run-to", alone["command"]
               PROVE  Marked'
  BY <1>2 DEF Marked
<1> DEFINE next == IF ok THEN AfterSuccess ELSE AfterFailure
           may  == {cli.to} \cup cli.found.armed
<1>8. target.armed \subseteq may /\ target'.armed \subseteq may
  BY <1>1, <1>4, <1>5, <1>7 DEF Marked
<1>9. ~cli.rough => cli.cleared
  BY <1>1, <1>7 DEF Marked
<1>10. CASE ~ok
  <2>1. /\ cli'.rough
        /\ \/ cli'.phase \in {"findUnder", "open"} /\ cli'.result = "none"
           \/ cli'.phase \in Over /\ cli'.result = "Err"
           \/ cli.phase = "clear" /\ cli.reached
    BY <1>1, <1>2, <1>3, <1>6, <1>7, <1>10
       DEF AfterFailure, Route, Start, Opens, Over
  <2>2. CASE cli.phase = "clear" /\ cli.reached
    <3>1. target.mode = "halted" /\ target.pc \in may
      BY <1>1, <1>7, <2>2 DEF Marked
    <3>2. target'.mode = "halted" /\ target'.pc \in may
      BY <1>4, <1>5, <2>2, <3>1
    <3>3. QED
      BY <1>2, <1>8, <2>1, <3>2 DEF Marked
  <2>3. QED
    BY <1>2, <1>8, <2>1, <2>2 DEF Marked, Over
<1>11. CASE ok /\ cli.phase = "run"
  <2>1. cli'.phase = "poll" /\ cli'.result = "none" /\ cli'.cleared = cli.cleared
        /\ (~cli'.rough => ~cli.rough)
    BY <1>1, <1>3, <1>6, <1>7, <1>11, CoreAfterIs DEF CliType
  <2>2. target'.mode = "running" \/ (target'.mode = "halted" /\ target'.pc \in may)
    BY <1>3, <1>4, <1>8, <1>11
  <2>3. QED
    BY <1>2, <1>8, <1>9, <2>1, <2>2 DEF Marked, Over
<1>12. CASE ok /\ cli.phase = "poll"
  <2>1. /\ cli'.phase = IF target.mode = "halted" THEN "clear" ELSE "poll"
        /\ cli'.result = "none" /\ cli'.cleared = cli.cleared
        /\ (~cli'.rough => ~cli.rough)
    BY <1>3, <1>6, <1>12, CoreAfterIs
  <2>2. target'.mode = target.mode /\ target'.pc = target.pc
    BY <1>3, <1>4, <1>12
  <2>3. target.mode = "halted" => target.pc \in may
    BY <1>1, <1>7, <1>12 DEF Marked
  <2>4. QED
    BY <1>2, <1>8, <1>9, <2>1, <2>2, <2>3 DEF Marked, Over
<1>13. CASE ok /\ cli.phase = "clear"
  <2>1. /\ \/ cli'.phase = "pc" /\ cli'.result = "none" /\ cli.reached
           \/ cli'.phase \in Over /\ cli'.result = "Err"
        /\ cli'.cleared
    BY <1>3, <1>6, <1>7, <1>13, CoreAfterIs DEF Over
  <2>2. target'.mode = target.mode /\ target'.pc = target.pc /\ cli.to \notin target'.armed
    BY <1>3, <1>4, <1>13
  <2>3. cli.reached => target.mode = "halted" /\ target.pc \in may
    BY <1>1, <1>7, <1>13 DEF Marked
  <2>4. QED
    BY <1>2, <1>8, <2>1, <2>2, <2>3 DEF Marked, Over
<1>14. CASE ok /\ cli.phase = "pc"
  <2>1. /\ cli'.phase \in Over /\ cli'.cleared = cli.cleared /\ (~cli'.rough => ~cli.rough)
    BY <1>3, <1>14, CoreAfterIs DEF Over
  <2>2. /\ target'.mode = target.mode /\ target'.pc = target.pc
        /\ target'.armed = target.armed
    BY <1>3, <1>4, <1>14
  <2>3. /\ target.mode = "halted" /\ target.pc \in may
        /\ ~cli.rough => cli.to \notin target.armed
    BY <1>1, <1>7, <1>14 DEF Marked
  <2>4. QED
    BY <1>2, <1>8, <1>9, <2>1, <2>2, <2>3 DEF Marked, Over
<1>15. CASE ok /\ cli.phase \in Start \cup Opens \cup {"look", "halt", "set"}
  <2>1. next \in Start \cup Opens \cup {"look", "halt", "set", "run"}
    <3>1. CASE cli.phase \in Start \cup Opens
      BY <1>7, <1>15, <3>1, AfterIs DEF Start, Opens, First, AfterDetach, Body, Sessions
    <3>2. CASE cli.phase \in {"look", "halt", "set"}
      BY <1>7, <1>15, <3>2, CoreAfterIs DEF AfterLook, AfterHalt, Stops
    <3>3. QED
      BY <1>15, <3>1, <3>2
  <2>2. /\ cli'.phase \in Start \cup Opens \cup {"look", "halt", "set", "run"}
        /\ cli'.result = "none" /\ cli'.cleared = cli.cleared /\ (~cli'.rough => ~cli.rough)
    BY <1>3, <1>6, <1>15, <2>1 DEF Start, Opens
  <2>3. QED
    BY <1>2, <1>8, <1>9, <2>2 DEF Marked, Over, Start, Opens
<1>16. QED
  BY <1>1, <1>2, <1>7, <1>10, <1>11, <1>12, <1>13, <1>14, <1>15 DEF Route, Over

\* The ends of a command: the deadline of run-to, rtt's, the session dropped, Ctrl-C.
LEMMA EndsKeep ==
  ASSUME Left, Deadline \/ Quiet \/ Drop \/ CtrlC
  PROVE  Route' /\ Line' /\ Kept' /\ Marked'
<1>1. Typed /\ Route /\ Line /\ Kept /\ Marked /\ cli \in CliType
  BY TypeParts DEF Left, Typed
<1>2. CASE Deadline
  <2>1. /\ cli.phase = "poll" /\ target' = target /\ alone' = alone
        /\ cli' = [cli EXCEPT !.phase = "clear"]
    BY <1>2 DEF Deadline
  <2>2. /\ cli'.phase = "clear" /\ cli'.run = cli.run /\ cli'.to = cli.to
        /\ cli'.found = cli.found /\ cli'.result = cli.result /\ cli'.under = cli.under
        /\ cli'.reached = cli.reached /\ cli'.cleared = cli.cleared
        /\ cli'.rough = cli.rough /\ cli'.backup = cli.backup
        /\ cli'.banks = cli.banks
    BY <1>1, <2>1 DEF CliType
  <2>3. /\ cli.run \notin Releasing /\ cli.run # "program" /\ ~cli.reached
        /\ cli.result = "none"
    BY <1>1, <2>1 DEF Route, Start, Opens, Over
  <2>4. Route'
    BY <2>2, <2>3 DEF Route, Over, Start, Opens
  <2>5. Line' /\ Kept'
    BY <1>1, <2>1, <2>2, <2>3 DEF Line, Kept, Saved, Over
  <2>6. Marked'
    BY <1>1, <2>1, <2>2, <2>3 DEF Marked, Over
  <2>7. QED
    BY <2>4, <2>5, <2>6
<1>3. CASE Drop
  <2>1. /\ cli.phase = "drop" /\ (alone'["command"] <=> alone["command"])
        /\ target'.held = target.held /\ target'.mode = target.mode
        /\ target'.pc = target.pc /\ target'.flash = target.flash
        /\ target'.armed \subseteq target.armed
        /\ cli' = [cli EXCEPT !.phase = "idle"]
    BY <1>1, <1>3, DropIs
  <2>2. /\ cli'.phase = "idle" /\ cli'.run = cli.run /\ cli'.to = cli.to
        /\ cli'.found = cli.found /\ cli'.result = cli.result /\ cli'.under = cli.under
        /\ cli'.reached = cli.reached /\ cli'.cleared = cli.cleared
        /\ cli'.rough = cli.rough /\ cli'.backup = cli.backup
        /\ cli'.banks = cli.banks
    BY <1>1, <2>1 DEF CliType
  <2>3. Route'
    BY <1>1, <2>1, <2>2 DEF Route, Over, Start, Opens
  <2>4. Line' /\ Kept'
    BY <1>1, <2>1, <2>2 DEF Line, Kept, Saved, Over, Start, Opens
  <2>5. Marked'
    BY <1>1, <2>1, <2>2 DEF Marked, Over
  <2>6. QED
    BY <2>3, <2>4, <2>5
<1>4. ASSUME CtrlC, cli' = [cli EXCEPT !.stop = TRUE]
      PROVE  Route' /\ Line' /\ Kept' /\ Marked'
  <2>1. /\ target' = target /\ alone' = alone
        /\ cli'.phase = cli.phase /\ cli'.run = cli.run /\ cli'.to = cli.to
        /\ cli'.found = cli.found /\ cli'.result = cli.result /\ cli'.under = cli.under
        /\ cli'.reached = cli.reached /\ cli'.cleared = cli.cleared
        /\ cli'.rough = cli.rough /\ cli'.backup = cli.backup
        /\ cli'.banks = cli.banks
    BY <1>1, <1>4 DEF CliType, CtrlC
  <2>2. QED
    BY <1>1, <2>1 DEF Route, Line, Kept, Saved, Marked
<1>5. ASSUME CtrlC, cli' = [cli EXCEPT !.phase = "idle", !.result = "killed"]
      PROVE  Route' /\ Line' /\ Kept' /\ Marked'
  <2>1. /\ target' = target /\ alone' = alone
        /\ cli'.phase = "idle" /\ cli'.run = cli.run /\ cli'.to = cli.to
        /\ cli'.found = cli.found /\ cli'.result = "killed" /\ cli'.under = cli.under
        /\ cli'.reached = cli.reached /\ cli'.cleared = cli.cleared
        /\ cli'.rough = cli.rough /\ cli'.backup = cli.backup
        /\ cli'.banks = cli.banks
    BY <1>1, <1>5 DEF CliType, CtrlC
  <2>2. QED
    BY <1>1, <2>1 DEF Route, Line, Kept, Saved, Marked, Over, Start, Opens
<1>6. CASE Quiet
  <2>1. /\ cli.phase = "stream" /\ target' = target /\ alone' = alone
        /\ cli.phase \in Operations /\ TRUE \in BOOLEAN
        /\ "done" \in Operations \cup {"done", "failed"} /\ Leaves("done", TRUE)
    BY <1>6, OperationsAre DEF Quiet
  <2>2. /\ cli'.phase \in Over /\ cli'.result = "Ok" /\ cli'.run = cli.run
        /\ cli'.found = cli.found /\ (cli.under => cli'.under)
    BY <1>1, <2>1, LeavesIs DEF Over
  <2>3. /\ cli.run \notin Releasing \cup {"program", "run-to"}
    BY <1>1, <2>1 DEF Route, Start, Opens, Over
  <2>4. Route'
    BY <2>2, <2>3 DEF Route, Over
  <2>5. Line' /\ Kept' /\ Marked'
    BY <1>1, <2>1, <2>2, <2>3 DEF Line, Kept, Marked, Over
  <2>6. QED
    BY <2>4, <2>5
<1>7. QED
  BY <1>2, <1>3, <1>4, <1>5, <1>6 DEF CtrlC

\* A command that begins owes nothing yet.
LEMMA BeginKeeps ==
  ASSUME Left, Begin
  PROVE  Route' /\ Line' /\ Kept' /\ Marked'
<1>1. /\ target' = target /\ cli'.phase = "engine" /\ cli'.result = "none"
      /\ cli'.found = target /\ ~cli'.rough /\ ~cli'.reached /\ cli'.cleared
  BY BeginIs DEF Left
<1>2. QED
  BY <1>1 DEF Route, Line, Kept, Marked, Start, Opens, Over

\* What the target and the server do beside a command.
LEMMA OthersKeep ==
  ASSUME Left, Execute \/ GdbNext, UNCHANGED cli
  PROVE  Route' /\ Line' /\ Kept' /\ Marked'
<1>1. /\ Typed /\ Route /\ Line /\ Kept /\ Marked /\ cli' = cli
      /\ target \in Target /\ Seated /\ alone \in [{"server", "command"} -> BOOLEAN]
  BY TypeParts DEF Left, Typed
<1>2. SUFFICES /\ target'.held = target.held /\ target'.flash = target.flash
               /\ alone'["command"] => /\ alone["command"]
                                       /\ target'.armed = target.armed
                                       /\ \/ target' = target
                                          \/ /\ target.mode = "running"
                                             /\ target'.mode = "halted" =>
                                                  target'.pc \in target.armed
  <2>1. Route' /\ Line' /\ Kept'
    BY <1>1, <1>2 DEF Route, Line, Kept, Saved
  <2>2. Marked'
    BY <1>1, <1>2 DEF Marked
  <2>3. QED
    BY <2>1, <2>2
<1>3. CASE Execute
  BY <1>1, <1>3, ExecuteIs
<1>4. CASE Attempt
  BY <1>1, <1>4, AttemptIs, ServerEffects
<1>5. CASE Clean
  BY <1>1, <1>5, CleanIs
<1>6. CASE MakeSession
  BY <1>1, <1>6, MakeSessionIs
<1>7. CASE Debugger \/ EndOfSession \/ TypedLate
  <2>1. target' = target /\ (alone'["command"] <=> alone["command"])
    BY <1>1, <1>7
       DEF Debugger, Connect, AddBreakpoint, RemoveBreakpoint, Access, Resume, Step,
           Packet, Type, HangUp, EndOfSession, TypedLate
  <2>2. QED
    BY <1>1, <2>1
<1>8. QED
  BY <1>3, <1>4, <1>5, <1>6, <1>7 DEF GdbNext, ServerStep

\* Left is inductive: whatever fails, and whoever is beside the command.
THEOREM AlwaysLeft == Spec => []Left
<1>1. Init => Left
  <2>1. SUFFICES ASSUME Init
                 PROVE  Route /\ Line /\ Kept /\ Marked
    BY InitTyped DEF Left
  <2>2. PICK m \in Mixes : cli = [NoRun EXCEPT !.runs = m.commands, !.menu = m.menu]
    BY <2>1 DEF Init
  <2>3. ~target.held
    BY <2>1 DEF Init, CoreInit
  <2>4. /\ cli.run = "status" /\ cli.phase = "idle" /\ cli.result = "none"
        /\ cli.reached = FALSE
    BY <2>2 DEF NoRun
  <2>5. QED
    BY <2>3, <2>4 DEF Route, Line, Kept, Marked, Over, Releasing, Cycles
<1>2. Left /\ [Next]_vars => Left'
  <2>1. SUFFICES ASSUME Left, [Next]_vars
                 PROVE  Route' /\ Line' /\ Kept' /\ Marked'
    BY StepTyped DEF Left
  <2>2. CASE Operation
    BY <2>1, <2>2, RouteKept, LineKept, FlashKept, MarkedKept
  <2>3. CASE Deadline \/ Quiet \/ Drop \/ CtrlC
    BY <2>1, <2>3, EndsKeep
  <2>4. CASE Begin
    BY <2>1, <2>4, BeginKeeps
  <2>5. CASE (Execute \/ GdbNext) /\ UNCHANGED cli
    BY <2>1, <2>5, OthersKeep
  <2>6. CASE UNCHANGED vars
    BY <2>1, <2>6 DEF Left, Route, Line, Kept, Saved, Marked, vars
  <2>7. QED
    BY <2>1, <2>2, <2>3, <2>4, <2>5, <2>6 DEF Next, CommandNext
<1>3. QED
  BY <1>1, <1>2, PTL DEF Spec

-----------------------------------------------------------------------------
(* What follows. *)

\* The target is in reset after a command only if it may be.
THEOREM ResetRight == Spec => []ResetReturned
<1>1. Left => ResetReturned
  BY DEF Left, Line, ResetReturned, Ended, EndedOk, Releasing, Over
<1>2. QED
  BY <1>1, AlwaysLeft, PTL

\* The largest region of flash is in the backup before it is touched, wherever else
\* the image goes, and what a Program says it wrote is there.
THEOREM BackupRight == Spec => []BackedUp
<1>1. Left => BackedUp
  BY DEF Left, Kept, Changed, BackedUp
<1>2. QED
  BY <1>1, AlwaysLeft, PTL

\* run-to gives its breakpoint back, and is right about where the core halted.
THEOREM RunToRight == Spec => []RunToReleases
<1>1. Left => RunToReleases
  <2>1. Left /\ cli.run = "run-to" /\ alone.command => Marked
    BY DEF Left
  <2>2. QED
    BY <2>1 DEF RunToReleases, Marked, Ended, EndedOk, Over
<1>2. QED
  BY <1>1, AlwaysLeft, PTL
=============================================================================
