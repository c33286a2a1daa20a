----------------------------- MODULE HostProofs -----------------------------
(***************************************************************************)
(* What every operation of the host's processes does to the target, for     *)
(* every program, set of places, number of units and of processes, and the  *)
(* types they keep; and from it what a debugger may rely on: that the       *)
(* program it believes stopped is, that its breakpoints are where it put    *)
(* them and nowhere else, and that a step is one instruction, for every     *)
(* wire that fails and command beside it.  CommandProofs builds on it too.  *)
(***************************************************************************)
EXTENDS Host, TLAPS

GdbType == [phase : Attempts \cup {"off", "accept", "stopped", "clean", "attach"},
            line : {"none", "open", "typed", "closed"}, tries : {0, 1},
            at : 0..(Code - 1), held : SUBSET Places, stepped : BOOLEAN,
            sessions : 0..MaxDebuggers, packets : 0..MaxPackets,
            from : 0..(Code - 1), rough : BOOLEAN, excused : SUBSET Places]
CliType == [run : AllRuns, phase : Operations \cup {"idle", "drop"},
            result : {"none", "Ok", "Err", "killed"}, runs : 0..MaxRuns,
            menu : SUBSET AllRuns, under : BOOLEAN, stop : BOOLEAN,
            was : BOOLEAN, left : {0, 1}, to : Places \cup {0},
            reached : BOOLEAN, cleared : BOOLEAN, image : {"bin", "elf"},
            banks : SUBSET Banks, backup : [Banks -> {"none", "zeros"} \cup Contents],
            idle : BOOLEAN, rough : BOOLEAN, found : Target]

\* Which breakpoint an operation of the server is about, and when it has none.
Seated ==
  /\ gdb.phase \in Moves => gdb.at \in Places
  /\ gdb.phase \in {"clear", "disarm", "rearm"} => gdb.at \in gdb.held
  /\ gdb.phase \in {"off", "accept", "attach"} \cup Opening => gdb.held = {}

\* A command that runs has a place to work on.
Aimed == cli.phase # "idle" => cli.to \in Places

Typed == TypeOK /\ Seated /\ Aimed

-----------------------------------------------------------------------------
(* The parts of the state. *)

\* TypeOK, variable by variable.
LEMMA TypeParts ==
  TypeOK <=> /\ target \in Target /\ trouble \in 0..MaxTrouble
             /\ alone \in [{"server", "command"} -> BOOLEAN]
             /\ gdb \in GdbType /\ cli \in CliType
BY DEF TypeOK, CoreTypeOK, GdbTypeOK, CommandTypeOK, GdbType, CliType

\* The next instruction is one of the program's.
LEMMA NextPc ==
  ASSUME NEW p \in 0..(Code - 1)
  PROVE  (p + 1) % Code \in 0..(Code - 1)
BY CoreAssumption

\* An instruction executed changes the program counter only.
LEMMA AdvancedIs ==
  ASSUME target \in Target
  PROVE  Advanced \in Target /\ Advanced = [target EXCEPT !.pc = (target.pc + 1) % Code]
BY NextPc DEF Advanced, Target

\* An operation leaves one of its states, or nothing has happened.
LEMMA OutcomeIs ==
  ASSUME NEW S, NEW o \in Outcomes(S), trouble \in 0..MaxTrouble
  PROVE  /\ o.ok \in BOOLEAN /\ o.target \in S \cup {target}
         /\ o.ok => o.target \in S
         /\ trouble - o.lost \in 0..MaxTrouble
<1>1. trouble \in Nat
  BY CoreAssumption
<1>2. \/ o \in {[ok |-> TRUE, target |-> t, lost |-> 0] : t \in S}
      \/ o = [ok |-> FALSE, target |-> target, lost |-> 0]
      \/ /\ trouble # 0
         /\ o \in {[ok |-> FALSE, target |-> t, lost |-> 1] : t \in S \cup {target}}
  <2>1. CASE S = {} /\ trouble = 0
    BY <2>1 DEF Outcomes
  <2>2. CASE S = {} /\ trouble # 0
    BY <2>2 DEF Outcomes
  <2>3. CASE S # {} /\ trouble = 0
    BY <2>3 DEF Outcomes
  <2>4. CASE S # {} /\ trouble # 0
    BY <2>4 DEF Outcomes
  <2>5. QED
    BY <2>1, <2>2, <2>3, <2>4
<1>3. CASE o \in {[ok |-> TRUE, target |-> t, lost |-> 0] : t \in S}
  <2>1. PICK t \in S : o = [ok |-> TRUE, target |-> t, lost |-> 0]
    BY <1>3
  <2>2. QED
    BY <1>1, <2>1, CoreAssumption
<1>4. CASE o = [ok |-> FALSE, target |-> target, lost |-> 0]
  BY <1>1, <1>4
<1>5. ASSUME trouble # 0,
             o \in {[ok |-> FALSE, target |-> t, lost |-> 1] : t \in S \cup {target}}
      PROVE  /\ o.ok \in BOOLEAN /\ o.target \in S \cup {target}
             /\ o.ok => o.target \in S
             /\ trouble - o.lost \in 0..MaxTrouble
  <2>1. PICK t \in S \cup {target} : o = [ok |-> FALSE, target |-> t, lost |-> 1]
    BY <1>5
  <2>2. QED
    BY <1>1, <1>5, <2>1, CoreAssumption
<1>6. QED
  BY <1>2, <1>3, <1>4, <1>5

\* Taking a result: who else believes anything of the target no longer does.
LEMMA TakesIs ==
  ASSUME NEW o, NEW who \in {"server", "command"}, Takes(o, who),
         alone \in [{"server", "command"} -> BOOLEAN]
  PROVE  /\ target' = o.target /\ trouble' = trouble - o.lost
         /\ alone' \in [{"server", "command"} -> BOOLEAN]
         /\ \A p \in {"server", "command"} : alone'[p] <=> alone[p] /\ p = who
BY DEF Takes

-----------------------------------------------------------------------------
(* The operations on the core. *)

\* None works on a target in reset or without an attachment.
LEMMA OnCoreIs ==
  ASSUME NEW S, NEW t \in OnCore(S)
  PROVE  t \in S /\ ~target.held
BY DEF OnCore, OnBus

\* A look changes nothing.
LEMMA LookedIs ==
  ASSUME NEW t \in Looked
  PROVE  t = target
BY DEF Looked, OnBus

\* A halt stops the core where it is.
LEMMA StoppedIs ==
  ASSUME target \in Target, NEW t \in Stopped
  PROVE  t = [target EXCEPT !.mode = "halted"] /\ t \in Target
BY OnCoreIs DEF Stopped, Target

\* A core that runs, or that an armed instruction has stopped again.
LEMMA ResumedIs ==
  ASSUME target \in Target, NEW t \in Resumed
  PROVE  /\ t \in Target
         /\ \/ t = [target EXCEPT !.mode = "running"]
            \/ t = target /\ target.mode = "halted" /\ target.pc \in target.armed
<1>1. \/ t = [target EXCEPT !.mode = "running"]
      \/ t = target /\ target.mode = "halted" /\ target.pc \in target.armed
  BY OnCoreIs DEF Resumed
<1>2. QED
  BY <1>1 DEF Target

\* One instruction, or none: from a core that ran, or on an armed one.
LEMMA SteppedIs ==
  ASSUME target \in Target, NEW t \in Stepped
  PROVE  /\ t \in Target
         /\ \/ target.mode = "running" /\ t = [target EXCEPT !.mode = "halted"]
            \/ target.mode = "halted" /\ t = Advanced
            \/ target.mode = "halted" /\ target.pc \in target.armed /\ t = target
<1>1. target.mode \in {"running", "halted"} /\ Advanced \in Target
  BY AdvancedIs DEF Target
<1>2. \/ target.mode = "running" /\ t = [target EXCEPT !.mode = "halted"]
      \/ target.mode = "halted" /\ t = Advanced
      \/ target.mode = "halted" /\ target.pc \in target.armed /\ t = target
  BY <1>1, OnCoreIs DEF Stepped
<1>3. QED
  BY <1>1, <1>2 DEF Target

\* A breakpoint set, now or before.
LEMMA ArmedIs ==
  ASSUME target \in Target, NEW a \in Places, NEW t \in Armed(a)
  PROVE  /\ t \in Target
         /\ \/ t = target /\ a \in target.armed
            \/ t = [target EXCEPT !.armed = target.armed \cup {a}]
<1>1. \/ t = target /\ a \in target.armed
      \/ t = [target EXCEPT !.armed = target.armed \cup {a}]
  BY OnCoreIs DEF Armed
<1>2. QED
  BY <1>1 DEF Target

\* A breakpoint taken away.
LEMMA ClearedIs ==
  ASSUME target \in Target, NEW a, NEW t \in Cleared(a)
  PROVE  /\ t \in Target /\ a \in target.armed
         /\ t = [target EXCEPT !.armed = target.armed \ {a}]
<1>1. a \in target.armed /\ t = [target EXCEPT !.armed = target.armed \ {a}]
  BY OnCoreIs DEF Cleared
<1>2. QED
  BY <1>1 DEF Target

\* Flash that is erased or written: nowhere but where the image goes.
LEMMA FlashedIs ==
  ASSUME target \in Target, NEW contents \in Contents, NEW where,
         NEW t \in Flashed(contents, where)
  PROVE  /\ t \in Target /\ ~target.held /\ t.held = target.held
         /\ t.armed = target.armed
         /\ \A b \in Banks \cap where : t.flash[b] = contents
<1> DEFINE flash == [b \in Banks |-> IF b \in where THEN contents ELSE target.flash[b]]
<1>1. flash \in [Banks -> Contents]
  BY DEF Target
<1>2. \A b \in Banks \cap where : flash[b] = contents
  OBVIOUS
<1>3. ~target.held /\ t = [target EXCEPT !.mode = "halted", !.flash = flash]
  <2>1. t \in OnCore({[target EXCEPT !.mode = "halted", !.flash = flash]})
    BY Zenon DEF Flashed
  <2> HIDE DEF flash
  <2>2. QED
    BY <2>1, OnCoreIs
<1> HIDE DEF flash
<1>4. QED
  BY <1>1, <1>2, <1>3 DEF Target

\* A session that ends leaves the core, its flash and the reset line alone.
LEMMA DroppedIs ==
  ASSUME target \in Target, NEW t \in Dropped
  PROVE  /\ t \in Target /\ t.held = target.held /\ t.mode = target.mode
         /\ t.pc = target.pc /\ t.flash = target.flash
         /\ t.armed \subseteq target.armed
<1> DEFINE kept == {target, [target EXCEPT !.attached = FALSE]}
<1>1. \A k \in kept : /\ k \in Target /\ k.held = target.held /\ k.mode = target.mode
                      /\ k.pc = target.pc /\ k.flash = target.flash
                      /\ k.armed = target.armed
  BY DEF Target
<1>2. t \in kept \/ \E k \in kept : t = [k EXCEPT !.armed = {}]
  BY DEF Dropped
<1> HIDE DEF kept
<1>3. QED
  BY <1>1, <1>2 DEF Target

\* What an operation of the server may do.
LEMMA ServerEffects ==
  ASSUME target \in Target, Seated, NEW t \in ServerEffect
  PROVE  /\ t \in Target /\ t.held = target.held /\ t.flash = target.flash
         /\ gdb.phase \in {"set", "rearm"} => t.armed = target.armed \cup {gdb.at}
         /\ gdb.phase \in {"clear", "disarm"} => t.armed = target.armed \ {gdb.at}
         /\ gdb.phase \notin Moves => t.armed = target.armed
         /\ gdb.phase \in {"halt", "interrupt"} => t.mode = "halted"
         /\ gdb.phase # "run" /\ target.mode = "halted" => t.mode = "halted"
         /\ gdb.phase # "step" => t.pc = target.pc
         /\ gdb.phase = "step" /\ target.mode = "halted"
            /\ target.pc \notin target.armed => t.pc = (target.pc + 1) % Code
<1>1. CASE gdb.phase \in {"halt", "interrupt"}
  <2>1. t \in Stopped
    BY <1>1 DEF ServerEffect
  <2>2. QED
    BY <1>1, <2>1, StoppedIs DEF Target, Moves
<1>2. CASE gdb.phase \in {"set", "rearm"}
  <2>1. t \in Armed(gdb.at) /\ gdb.at \in Places
    BY <1>2 DEF ServerEffect, Seated, Moves
  <2>2. QED
    BY <1>2, <2>1, ArmedIs DEF Target, Moves
<1>3. CASE gdb.phase \in {"clear", "disarm"}
  <2>1. t \in Cleared(gdb.at)
    BY <1>3 DEF ServerEffect
  <2>2. QED
    BY <1>3, <2>1, ClearedIs DEF Target, Moves
<1>4. CASE gdb.phase = "run"
  <2>1. t \in Resumed
    BY <1>4 DEF ServerEffect
  <2>2. QED
    BY <1>4, <2>1, ResumedIs DEF Target, Moves
<1>5. CASE gdb.phase = "step"
  <2>1. t \in Stepped
    BY <1>5 DEF ServerEffect
  <2>2. QED
    BY <1>5, <2>1, SteppedIs, AdvancedIs DEF Target, Moves
<1>6. CASE gdb.phase \notin {"halt", "interrupt", "set", "rearm", "clear", "disarm",
                             "run", "step"}
  <2>1. t = target
    BY <1>6, LookedIs DEF ServerEffect
  <2>2. QED
    BY <1>6, <2>1 DEF Moves
<1>7. QED
  BY <1>1, <1>2, <1>3, <1>4, <1>5, <1>6

-----------------------------------------------------------------------------
(* The server, operation by operation. *)

\* What follows an operation of the server that worked.
LEMMA ServerAfterIs ==
  /\ ServerAfter["core"] = IF HaltFirst THEN "halt" ELSE "units"
  /\ ServerAfter["halt"] = "units"     /\ ServerAfter["units"] = "stopped"
  /\ ServerAfter["set"] = "stopped"    /\ ServerAfter["clear"] = "stopped"
  /\ ServerAfter["registers"] = "stopped" /\ ServerAfter["register"] = "stopped"
  /\ ServerAfter["memory"] = "stopped" /\ ServerAfter["store"] = "stopped"
  /\ ServerAfter["run"] = "poll"       /\ ServerAfter["pc"] = AfterPc
  /\ ServerAfter["disarm"] = "step"    /\ ServerAfter["step"] = AfterStep
  /\ ServerAfter["rearm"] = IF gdb.stepped THEN "poll" ELSE "clean"
  /\ ServerAfter["poll"] = AfterPoll   /\ ServerAfter["status"] = "stopped"
  /\ ServerAfter["interrupt"] = "stopped"
BY DEF ServerAfter

\* The operations of the server, written out.
LEMMA AttemptsAre ==
  Attempts = {"core", "halt", "units", "register", "set", "clear", "registers",
              "memory", "store", "run", "pc", "disarm", "step", "rearm", "poll",
              "status", "interrupt"}
BY DEF Attempts, Once, Opening, Retried

\* An operation of the server works or fails.
LEMMA AttemptIs ==
  ASSUME Typed, Attempt
  PROVE  /\ gdb.phase \in Attempts
         /\ target' \in Target /\ trouble' \in 0..MaxTrouble
         /\ alone' \in [{"server", "command"} -> BOOLEAN]
         /\ alone'["server"] <=> alone["server"]
         /\ ~alone'["command"]
         /\ target' \in ServerEffect \cup {target}
         /\ (Worked /\ target' \in ServerEffect) \/ Failed
<1>1. target \in Target /\ trouble \in 0..MaxTrouble
      /\ alone \in [{"server", "command"} -> BOOLEAN]
  BY TypeParts DEF Typed
<1>2. PICK o \in Outcomes(ServerEffect) :
        Takes(o, "server") /\ IF o.ok THEN Worked ELSE Failed
  BY DEF Attempt
<1>3. /\ o.ok \in BOOLEAN /\ o.target \in ServerEffect \cup {target}
      /\ o.ok => o.target \in ServerEffect
      /\ trouble - o.lost \in 0..MaxTrouble
  BY <1>1, OutcomeIs
<1>4. /\ target' = o.target /\ trouble' = trouble - o.lost
      /\ alone' \in [{"server", "command"} -> BOOLEAN]
      /\ alone'["server"] <=> alone["server"]
      /\ ~alone'["command"]
  BY <1>1, <1>2, TakesIs
<1>5. target' \in Target
  BY <1>1, <1>3, <1>4, ServerEffects DEF Typed
<1>6. QED
  BY <1>2, <1>3, <1>4, <1>5 DEF Attempt

\* What an operation that worked makes of the server.
LEMMA WorkedIs ==
  ASSUME Typed, gdb.phase \in Attempts, Worked
  PROVE  /\ gdb' \in GdbType /\ Seated'
         /\ gdb'.phase = ServerAfter[gdb.phase] /\ gdb'.tries = 0
         /\ gdb'.held = CASE gdb.phase = "set"   -> gdb.held \cup {gdb.at}
                          [] gdb.phase = "clear" -> gdb.held \ {gdb.at}
                          [] OTHER               -> gdb.held
         /\ gdb'.at = IF gdb.phase = "pc" THEN target.pc ELSE gdb.at
         /\ gdb'.from = IF gdb.phase = "pc" THEN target.pc ELSE gdb.from
         /\ gdb'.rough = gdb.rough /\ gdb'.excused = gdb.excused
         /\ gdb'.stepped = gdb.stepped
<1>1. gdb \in GdbType /\ target \in Target /\ Seated
  BY TypeParts DEF Typed
<1> DEFINE phase == ServerAfter[gdb.phase]
           held  == CASE gdb.phase = "set"   -> gdb.held \cup {gdb.at}
                      [] gdb.phase = "clear" -> gdb.held \ {gdb.at}
                      [] OTHER               -> gdb.held
           at    == IF gdb.phase = "pc" THEN target.pc ELSE gdb.at
           from  == IF gdb.phase = "pc" THEN target.pc ELSE gdb.from
           line  == IF gdb.phase = "poll" /\ AfterPoll = "interrupt" THEN "open"
                    ELSE gdb.line
<1>2. gdb' = [gdb EXCEPT !.phase = phase, !.tries = 0, !.held = held, !.at = at,
                !.from = from, !.line = line]
  BY <1>1 DEF Worked, GdbType
<1>3. phase \in {"halt", "units", "stopped", "poll", "step", "disarm", "rearm",
                 "clean", "status", "interrupt"}
  BY AttemptsAre, ServerAfterIs DEF AfterPc, AfterStep, AfterPoll
<1>4. phase \in Attempts \cup {"off", "accept", "stopped", "clean", "attach"}
  BY <1>3, AttemptsAre
<1>5. /\ held \in SUBSET Places /\ at \in 0..(Code - 1) /\ from \in 0..(Code - 1)
      /\ line \in {"none", "open", "typed", "closed"}
  BY <1>1 DEF Seated, Moves, GdbType, Target
<1>6. /\ phase = "disarm" => at \in held
      /\ phase = "rearm" => at \in held
      /\ phase \in {"halt", "units"} => held = {}
  BY <1>1, AttemptsAre, ServerAfterIs
     DEF AfterPc, AfterStep, AfterPoll, Seated, Opening
<1> HIDE DEF phase, held, at, from, line
<1>7. /\ gdb' \in GdbType /\ gdb'.phase = phase /\ gdb'.tries = 0 /\ gdb'.held = held
      /\ gdb'.at = at /\ gdb'.from = from /\ gdb'.rough = gdb.rough
      /\ gdb'.excused = gdb.excused /\ gdb'.stepped = gdb.stepped
  BY <1>1, <1>2, <1>4, <1>5 DEF GdbType
<1>8. Seated'
  BY <1>3, <1>5, <1>6, <1>7 DEF Seated, Moves, Opening
<1>9. QED
  BY <1>7, <1>8 DEF phase, held, at, from

\* And one that failed: tried again, or given up.
LEMMA FailedIs ==
  ASSUME Typed, gdb.phase \in Attempts, Failed
  PROVE  /\ gdb' \in GdbType /\ Seated' /\ gdb'.rough
         /\ gdb'.held = gdb.held /\ gdb'.at = gdb.at
         /\ gdb'.excused = IF gdb.phase \in Moves THEN gdb.excused \cup {gdb.at}
                           ELSE gdb.excused
         /\ \/ gdb'.phase = gdb.phase /\ gdb.phase \in Retried
            \/ gdb'.phase = GivenUp
<1>1. gdb \in GdbType /\ Seated
  BY TypeParts DEF Typed
<1> DEFINE phase   == IF gdb.phase \in Retried /\ gdb.tries = 0 THEN gdb.phase ELSE GivenUp
           tries   == IF gdb.phase \in Retried /\ gdb.tries = 0 THEN 1 ELSE 0
           excused == IF gdb.phase \in Moves THEN gdb.excused \cup {gdb.at}
                      ELSE gdb.excused
           stepped == IF gdb.phase = "step" /\ gdb.tries = 1 THEN FALSE ELSE gdb.stepped
<1>2. gdb' = [gdb EXCEPT !.rough = TRUE, !.excused = excused, !.phase = phase,
                !.tries = tries, !.stepped = stepped]
  BY <1>1 DEF Failed, GdbType
<1>3. GivenUp \in {"attach", "stopped", "rearm", "clean"}
  BY DEF GivenUp
<1>4. phase \in Attempts \cup {"off", "accept", "stopped", "clean", "attach"}
  BY <1>3, AttemptsAre
<1>5. /\ excused \in SUBSET Places /\ tries \in {0, 1} /\ stepped \in BOOLEAN
  BY <1>1 DEF Seated, Moves, GdbType
<1>6. /\ GivenUp = "rearm" => gdb.at \in gdb.held
      /\ GivenUp = "attach" => gdb.held = {}
  BY <1>1 DEF GivenUp, AfterStep, Seated
<1> HIDE DEF phase, tries, excused, stepped
<1>7. /\ gdb' \in GdbType /\ gdb'.phase = phase /\ gdb'.held = gdb.held
      /\ gdb'.at = gdb.at /\ gdb'.excused = excused /\ gdb'.rough
  BY <1>1, <1>2, <1>4, <1>5 DEF GdbType
<1>8. (phase = gdb.phase /\ gdb.phase \in Retried) \/ phase = GivenUp
  BY DEF phase
<1>9. Seated'
  <2>1. gdb.held \in SUBSET Places
    BY <1>1 DEF GdbType
  <2>2. QED
    BY <1>1, <1>3, <1>6, <1>7, <1>8, <2>1 DEF Seated, Moves, Opening
<1>10. QED
  BY <1>7, <1>8, <1>9 DEF excused

\* Typed in the next state, variable by variable.
LEMMA TypedNext ==
  ASSUME target' \in Target, trouble' \in 0..MaxTrouble,
         alone' \in [{"server", "command"} -> BOOLEAN],
         gdb' \in GdbType, cli' \in CliType, Seated', Aimed'
  PROVE  Typed'
<1>1. Attempts' = Attempts /\ Operations' = Operations
  BY DEF Attempts, Once, Opening, Retried, Operations, BridgeAfter, OpenAfter,
         CoreAfter, ProgramAfter
<1>2. TypeOK'
  BY <1>1 DEF TypeOK, CoreTypeOK, GdbTypeOK, CommandTypeOK, GdbType, CliType
<1>3. QED
  BY <1>2 DEF Typed

\* What comes of a session that is cleaned up, one breakpoint at a time.
LEMMA CleanIs ==
  ASSUME Typed, Clean
  PROVE  /\ target' \in Target /\ trouble' \in 0..MaxTrouble
         /\ alone' \in [{"server", "command"} -> BOOLEAN]
         /\ alone'["server"] <=> alone["server"]
         /\ target'.held = target.held /\ target'.flash = target.flash
         /\ \/ /\ gdb.held = {} /\ target' = target /\ alone' = alone
               /\ gdb' = [gdb EXCEPT !.phase = "accept", !.line = "none"]
            \/ \E a \in gdb.held, failed \in BOOLEAN :
                 /\ ~alone'["command"]
                 /\ gdb' = [gdb EXCEPT !.held = gdb.held \ {a},
                              !.excused = IF failed THEN gdb.excused \cup {a}
                                          ELSE gdb.excused]
                 /\ target'.armed \subseteq target.armed
                 /\ ~failed => a \notin target'.armed
<1>1. /\ target \in Target /\ trouble \in 0..MaxTrouble /\ gdb \in GdbType
      /\ alone \in [{"server", "command"} -> BOOLEAN]
  BY TypeParts DEF Typed
<1>2. CASE gdb.held = {} /\ gdb' = [gdb EXCEPT !.phase = "accept", !.line = "none"]
           /\ UNCHANGED <<target, trouble, alone>>
  BY <1>1, <1>2
<1>3. ASSUME NEW a \in gdb.held, NEW o \in Outcomes(Cleared(a)), Takes(o, "server"),
             gdb' = [gdb EXCEPT !.held = @ \ {a},
                       !.excused = IF o.ok THEN @ ELSE @ \cup {a}]
      PROVE  /\ target' \in Target /\ trouble' \in 0..MaxTrouble
             /\ alone' \in [{"server", "command"} -> BOOLEAN]
             /\ alone'["server"] <=> alone["server"]
             /\ ~alone'["command"]
             /\ target'.held = target.held /\ target'.flash = target.flash
             /\ \E failed \in BOOLEAN :
                 /\ gdb' = [gdb EXCEPT !.held = gdb.held \ {a},
                              !.excused = IF failed THEN gdb.excused \cup {a}
                                          ELSE gdb.excused]
                 /\ target'.armed \subseteq target.armed
                 /\ ~failed => a \notin target'.armed
  <2>1. /\ o.ok \in BOOLEAN /\ o.target \in Cleared(a) \cup {target}
        /\ o.ok => o.target \in Cleared(a)
        /\ trouble - o.lost \in 0..MaxTrouble
    BY <1>1, OutcomeIs
  <2>2. /\ target' = o.target /\ trouble' = trouble - o.lost
        /\ alone' \in [{"server", "command"} -> BOOLEAN]
        /\ alone'["server"] <=> alone["server"]
        /\ ~alone'["command"]
    BY <1>1, <1>3, TakesIs
  <2>3. \A t \in Cleared(a) :
          /\ t \in Target /\ t = [target EXCEPT !.armed = target.armed \ {a}]
    BY <1>1, ClearedIs
  <2>4. /\ target' \in Target /\ target'.held = target.held
        /\ target'.flash = target.flash /\ target'.armed \subseteq target.armed
        /\ o.ok => a \notin target'.armed
    BY <1>1, <2>1, <2>2, <2>3 DEF Target
  <2> DEFINE failed == ~o.ok
  <2>5. failed \in BOOLEAN /\ (~failed => a \notin target'.armed)
    BY <2>4
  <2>6. gdb' = [gdb EXCEPT !.held = gdb.held \ {a},
                  !.excused = IF failed THEN gdb.excused \cup {a} ELSE gdb.excused]
    BY <1>1, <1>3, <2>1 DEF GdbType
  <2> HIDE DEF failed
  <2>7. QED
    BY <2>1, <2>2, <2>4, <2>5, <2>6
<1>4. QED
  BY <1>2, <1>3 DEF Clean

\* A session that is built again.
LEMMA MakeSessionIs ==
  ASSUME Typed, MakeSession
  PROVE  /\ target' \in Target /\ trouble' \in 0..MaxTrouble
         /\ alone' \in [{"server", "command"} -> BOOLEAN]
         /\ alone'["server"] <=> alone["server"]
         /\ ~alone'["command"]
         /\ target'.held = target.held /\ target'.flash = target.flash
         /\ target'.armed \subseteq target.armed
         /\ gdb' \in GdbType /\ gdb'.phase \in {"accept", "off"}
         /\ gdb'.held = gdb.held /\ gdb'.excused = gdb.excused
<1>1. /\ target \in Target /\ trouble \in 0..MaxTrouble /\ gdb \in GdbType
      /\ alone \in [{"server", "command"} -> BOOLEAN]
  BY TypeParts DEF Typed
<1> DEFINE S == {[t EXCEPT !.attached = TRUE] : t \in Dropped}
<1>2. PICK o \in Outcomes(S) :
        /\ Takes(o, "server")
        /\ gdb' = [gdb EXCEPT !.phase = IF o.ok THEN "accept" ELSE "off",
                     !.line = "none"]
  BY DEF MakeSession
<1>3. \A t \in S : /\ t \in Target /\ t.held = target.held /\ t.flash = target.flash
                   /\ t.armed \subseteq target.armed
  <2>1. ASSUME NEW d \in Dropped, NEW t, t = [d EXCEPT !.attached = TRUE]
        PROVE  /\ t \in Target /\ t.held = target.held /\ t.flash = target.flash
               /\ t.armed \subseteq target.armed
    BY <1>1, <2>1, DroppedIs DEF Target
  <2>2. QED
    BY <2>1
<1> HIDE DEF S
<1>4. /\ o.ok \in BOOLEAN /\ o.target \in S \cup {target}
      /\ trouble - o.lost \in 0..MaxTrouble
  BY <1>1, OutcomeIs
<1>5. /\ target' = o.target /\ trouble' = trouble - o.lost
      /\ alone' \in [{"server", "command"} -> BOOLEAN]
      /\ alone'["server"] <=> alone["server"]
      /\ ~alone'["command"]
  BY <1>1, <1>2, TakesIs
<1>6. /\ gdb' \in GdbType /\ gdb'.phase \in {"accept", "off"}
      /\ gdb'.held = gdb.held /\ gdb'.excused = gdb.excused
  BY <1>1, <1>2 DEF GdbType
<1>7. QED
  BY <1>1, <1>3, <1>4, <1>5, <1>6

\* The server keeps its types.
LEMMA GdbTyped ==
  ASSUME Typed, GdbNext, UNCHANGED cli
  PROVE  Typed'
<1>1. /\ target \in Target /\ trouble \in 0..MaxTrouble /\ gdb \in GdbType
      /\ alone \in [{"server", "command"} -> BOOLEAN] /\ cli' \in CliType
      /\ Seated /\ Aimed'
  BY TypeParts DEF Typed, Aimed
<1>2. CASE Attempt
  <2>1. gdb' \in GdbType /\ Seated'
    BY <1>2, AttemptIs, WorkedIs, FailedIs
  <2>2. QED
    BY <1>1, <1>2, <2>1, AttemptIs, TypedNext
<1>3. CASE Clean
  <2>1. gdb.phase = "clean"
    BY <1>3 DEF Clean
  <2>2. gdb' \in GdbType /\ Seated'
    <3>1. CASE gdb.held = {} /\ gdb' = [gdb EXCEPT !.phase = "accept", !.line = "none"]
      BY <1>1, <3>1 DEF GdbType, Seated, Moves, Opening
    <3>2. ASSUME NEW a \in gdb.held, NEW failed \in BOOLEAN,
                 gdb' = [gdb EXCEPT !.held = gdb.held \ {a},
                           !.excused = IF failed THEN gdb.excused \cup {a}
                                       ELSE gdb.excused]
          PROVE  gdb' \in GdbType /\ Seated'
      <4>1. gdb' \in GdbType /\ gdb'.phase = "clean"
        BY <1>1, <2>1, <3>2 DEF GdbType
      <4>2. QED
        BY <4>1 DEF Seated, Moves, Opening
    <3>3. QED
      BY <1>3, <3>1, <3>2, CleanIs
  <2>3. QED
    BY <1>1, <1>3, <2>2, CleanIs, TypedNext
<1>4. CASE MakeSession
  <2>1. gdb.phase = "attach"
    BY <1>4 DEF MakeSession
  <2>2. Seated'
    BY <1>1, <1>4, <2>1, MakeSessionIs DEF Seated, Moves, Opening
  <2>3. QED
    BY <1>1, <1>4, <2>2, MakeSessionIs, TypedNext
<1>5. CASE Connect
  <2>1. /\ gdb' = [NoSession EXCEPT !.phase = "core", !.line = "open",
                     !.sessions = gdb.sessions - 1,
                     !.packets = gdb.packets, !.excused = target.armed]
        /\ gdb.sessions > 0 /\ alone' = [alone EXCEPT !.server = TRUE]
        /\ UNCHANGED <<target, trouble>>
    BY <1>5 DEF Connect
  <2>2. gdb.sessions - 1 \in 0..MaxDebuggers /\ 0 \in 0..(Code - 1)
    BY <1>1, <2>1, CoreAssumption, GdbAssumption DEF GdbType
  <2>3. gdb' \in GdbType /\ gdb'.phase = "core" /\ gdb'.held = {}
    BY <1>1, <2>1, <2>2, AttemptsAre DEF NoSession, GdbType, Target
  <2>4. Seated'
    BY <2>3 DEF Seated, Moves, Opening
  <2>5. QED
    BY <1>1, <2>1, <2>3, <2>4, TypedNext
<1>6. ASSUME NEW phase \in Attempts, NEW at \in 0..(Code - 1), Packet(phase, at),
             phase \in {"set", "clear"} => at \in Places,
             phase = "clear" => at \in gdb.held,
             phase \notin Opening \cup {"disarm", "rearm"}
      PROVE  Typed'
  <2>1. /\ gdb' = [gdb EXCEPT !.phase = phase, !.at = at, !.packets = @ - 1,
                     !.rough = FALSE, !.stepped = TRUE]
        /\ gdb.packets > 0 /\ UNCHANGED <<target, trouble, alone>>
    BY <1>6 DEF Packet
  <2>2. gdb.packets - 1 \in 0..MaxPackets
    BY <1>1, <2>1, GdbAssumption DEF GdbType
  <2>3. /\ gdb' \in GdbType /\ gdb'.phase = phase /\ gdb'.at = at
        /\ gdb'.held = gdb.held
    BY <1>1, <1>6, <2>1, <2>2 DEF GdbType
  <2>4. Seated'
    BY <1>6, <2>3, AttemptsAre DEF Seated, Moves, Opening
  <2>5. QED
    BY <1>1, <2>1, <2>3, <2>4, TypedNext
<1>7. CASE AddBreakpoint
  BY <1>6, <1>7, AttemptsAre, CoreAssumption DEF AddBreakpoint, Opening
<1>8. CASE RemoveBreakpoint
  BY <1>1, <1>6, <1>8, AttemptsAre, CoreAssumption DEF RemoveBreakpoint, Opening, GdbType
<1>9. CASE Access
  BY <1>6, <1>9, AttemptsAre, CoreAssumption DEF Access, Opening
<1>10. CASE Resume
  BY <1>6, <1>10, AttemptsAre, CoreAssumption DEF Resume, Opening
<1>11. CASE Step
  BY <1>6, <1>11, AttemptsAre, CoreAssumption DEF Step, Opening
<1>12. ASSUME NEW phase, NEW line, gdb' = [gdb EXCEPT !.phase = phase, !.line = line],
              phase = gdb.phase \/ phase \in {"clean", "stopped", "interrupt"},
              line \in {"none", "open", "typed", "closed"},
              UNCHANGED <<target, trouble, alone>>
       PROVE  Typed'
  <2>1. /\ gdb' \in GdbType /\ gdb'.phase = phase /\ gdb'.at = gdb.at
        /\ gdb'.held = gdb.held
    BY <1>1, <1>12, AttemptsAre DEF GdbType
  <2>2. Seated'
    BY <1>1, <1>12, <2>1 DEF Seated, Moves, Opening
  <2>3. QED
    BY <1>1, <1>12, <2>1, <2>2, TypedNext
<1>13. CASE Type
  <2>1. gdb' = [gdb EXCEPT !.phase = gdb.phase, !.line = "typed"]
    BY <1>1, <1>13 DEF Type, GdbType
  <2>2. QED
    BY <1>12, <1>13, <2>1 DEF Type
<1>14. CASE HangUp
  <2>1. gdb' = [gdb EXCEPT !.phase = gdb.phase, !.line = "closed"]
    BY <1>1, <1>14 DEF HangUp, GdbType
  <2>2. QED
    BY <1>12, <1>14, <2>1 DEF HangUp
<1>15. CASE EndOfSession
  <2>1. gdb' = [gdb EXCEPT !.phase = "clean", !.line = gdb.line]
    BY <1>1, <1>15 DEF EndOfSession, GdbType
  <2>2. gdb.line = "closed"
    BY <1>15 DEF EndOfSession
  <2>3. QED
    BY <1>12, <1>15, <2>1, <2>2 DEF EndOfSession
<1>16. CASE TypedLate
  <2>1. PICK phase \in {"stopped", "interrupt"} :
          gdb' = [gdb EXCEPT !.line = "open", !.phase = phase]
    BY <1>16 DEF TypedLate
  <2>2. gdb' = [gdb EXCEPT !.phase = phase, !.line = "open"]
    BY <1>1, <2>1 DEF GdbType
  <2>3. QED
    BY <1>12, <1>16, <2>2 DEF TypedLate
<1>17. QED
  BY <1>2, <1>3, <1>4, <1>5, <1>7, <1>8, <1>9, <1>10, <1>11, <1>13, <1>14, <1>15,
     <1>16
     DEF GdbNext, ServerStep, Debugger

-----------------------------------------------------------------------------
(* A command, operation by operation. *)

\* The operations of a command, written out.
LEMMA OperationsAre ==
  /\ DOMAIN BridgeAfter = {"engine", "pins", "speed", "sample", "pulse", "last",
                           "assert", "release", "drive", "attach", "words"}
  /\ DOMAIN OpenAfter = {"find", "findUnder", "detach", "open", "hold", "let"}
  /\ DOMAIN CoreAfter = {"look", "halt", "step", "registers", "read", "stream",
                         "store", "check", "set", "run", "poll", "clear", "pc",
                         "reset", "resetHalt"}
  /\ DOMAIN ProgramAfter = {"backup", "erase", "download", "readback"}
  /\ Operations = {"engine", "pins", "speed", "sample", "pulse", "last", "assert",
                    "release", "drive", "attach", "words"}
                   \cup {"find", "findUnder", "detach", "open", "hold", "let"}
                   \cup {"look", "halt", "step", "registers", "read", "stream",
                         "store", "check", "set", "run", "poll", "clear", "pc",
                         "reset", "resetHalt"}
                   \cup {"backup", "erase", "download", "readback"}
<1>1. DOMAIN BridgeAfter = {"engine", "pins", "speed", "sample", "pulse", "last",
                            "assert", "release", "drive", "attach", "words"}
  BY DEF BridgeAfter
<1>2. DOMAIN OpenAfter = {"find", "findUnder", "detach", "open", "hold", "let"}
  BY DEF OpenAfter
<1>3. DOMAIN CoreAfter = {"look", "halt", "step", "registers", "read", "stream",
                          "store", "check", "set", "run", "poll", "clear", "pc",
                          "reset", "resetHalt"}
  BY DEF CoreAfter
<1>4. DOMAIN ProgramAfter = {"backup", "erase", "download", "readback"}
  BY DEF ProgramAfter
<1>5. QED
  BY <1>1, <1>2, <1>3, <1>4, Zenon DEF Operations

\* What follows each of them.
LEMMA AfterIs ==
  /\ cli.phase = "engine" => AfterSuccess = "pins"
  /\ cli.phase = "pins" => AfterSuccess = "speed"
  /\ cli.phase = "speed" => AfterSuccess = First
  /\ cli.phase \in {"sample", "pulse", "last"} => AfterSuccess = "done"
  /\ cli.phase = "assert" =>
       AfterSuccess = IF cli.run = "reset-cycle" THEN "release" ELSE "done"
  /\ cli.phase = "release" => AfterSuccess = AfterRelease
  /\ cli.phase = "drive" => AfterSuccess = IF cli.stop THEN "detach" ELSE "drive"
  /\ cli.phase = "attach" => AfterSuccess = "words"
  /\ cli.phase = "words" =>
       AfterSuccess = IF cli.run = "profile" THEN "done" ELSE "detach"
  /\ cli.phase \in {"find", "findUnder"} => AfterSuccess = "detach"
  /\ cli.phase = "detach" => AfterSuccess = AfterDetach
  /\ cli.phase = "open" => AfterSuccess = IF cli.under THEN "hold" ELSE Body
  /\ cli.phase = "hold" => AfterSuccess = "let"
  /\ cli.phase = "let" => AfterSuccess = Body
<1>1. cli.phase \in DOMAIN BridgeAfter => AfterSuccess = BridgeAfter[cli.phase]
  BY OperationsAre DEF AfterSuccess
<1>2. cli.phase \in DOMAIN OpenAfter => AfterSuccess = OpenAfter[cli.phase]
  BY OperationsAre DEF AfterSuccess
<1>3. /\ BridgeAfter["engine"] = "pins" /\ BridgeAfter["pins"] = "speed"
      /\ BridgeAfter["speed"] = First /\ BridgeAfter["sample"] = "done"
      /\ BridgeAfter["pulse"] = "done" /\ BridgeAfter["last"] = "done"
      /\ BridgeAfter["assert"] = IF cli.run = "reset-cycle" THEN "release" ELSE "done"
      /\ BridgeAfter["release"] = AfterRelease
      /\ BridgeAfter["drive"] = IF cli.stop THEN "detach" ELSE "drive"
      /\ BridgeAfter["attach"] = "words"
      /\ BridgeAfter["words"] = IF cli.run = "profile" THEN "done" ELSE "detach"
  BY DEF BridgeAfter
<1>4. /\ OpenAfter["find"] = "detach" /\ OpenAfter["findUnder"] = "detach"
      /\ OpenAfter["detach"] = AfterDetach
      /\ OpenAfter["open"] = IF cli.under THEN "hold" ELSE Body
      /\ OpenAfter["hold"] = "let" /\ OpenAfter["let"] = Body
  BY DEF OpenAfter
<1>5. QED
  BY <1>1, <1>2, <1>3, <1>4, OperationsAre

\* And those of a session.
LEMMA CoreAfterIs ==
  /\ cli.phase = "look" => AfterSuccess = AfterLook
  /\ cli.phase = "halt" => AfterSuccess = AfterHalt
  /\ cli.phase = "step" => AfterSuccess = IF cli.left > 0 THEN "step" ELSE "done"
  /\ cli.phase = "registers" => AfterSuccess = AfterRegisters
  /\ cli.phase = "read" => AfterSuccess = IF cli.run = "rtt" THEN "stream" ELSE "done"
  /\ cli.phase = "stream" => AfterSuccess = "stream"
  /\ cli.phase \in {"check", "reset", "resetHalt"} => AfterSuccess = "done"
  /\ cli.phase = "store" => AfterSuccess = "check"
  /\ cli.phase = "set" => AfterSuccess = IF cli.run = "run-to" THEN "run" ELSE "done"
  /\ cli.phase = "run" => AfterSuccess = IF cli.run = "run-to" THEN "poll" ELSE "done"
  /\ cli.phase = "poll" =>
       AfterSuccess = IF target.mode = "halted" THEN "clear" ELSE "poll"
  /\ cli.phase = "clear" =>
       AfterSuccess = IF cli.run # "run-to" THEN "done"
                      ELSE IF cli.reached THEN "pc" ELSE "failed"
  /\ cli.phase = "pc" => AfterSuccess = IF cli.cleared THEN "done" ELSE "failed"
  /\ cli.phase = "backup" => AfterSuccess = "erase"
  /\ cli.phase = "erase" => AfterSuccess = "download"
  /\ cli.phase = "download" =>
       AfterSuccess = IF cli.run = "program" THEN "readback" ELSE "reset"
  /\ cli.phase = "readback" => AfterSuccess = ReadBack
<1>1. cli.phase \in DOMAIN CoreAfter => AfterSuccess = CoreAfter[cli.phase]
  BY OperationsAre DEF AfterSuccess
<1>2. cli.phase \in DOMAIN ProgramAfter => AfterSuccess = ProgramAfter[cli.phase]
  BY OperationsAre DEF AfterSuccess
<1>3. /\ CoreAfter["look"] = AfterLook /\ CoreAfter["halt"] = AfterHalt
      /\ CoreAfter["step"] = IF cli.left > 0 THEN "step" ELSE "done"
      /\ CoreAfter["registers"] = AfterRegisters
      /\ CoreAfter["read"] = IF cli.run = "rtt" THEN "stream" ELSE "done"
      /\ CoreAfter["stream"] = "stream"
      /\ CoreAfter["store"] = "check" /\ CoreAfter["check"] = "done"
      /\ CoreAfter["set"] = IF cli.run = "run-to" THEN "run" ELSE "done"
      /\ CoreAfter["run"] = IF cli.run = "run-to" THEN "poll" ELSE "done"
      /\ CoreAfter["poll"] = IF target.mode = "halted" THEN "clear" ELSE "poll"
      /\ CoreAfter["clear"] = IF cli.run # "run-to" THEN "done"
                              ELSE IF cli.reached THEN "pc" ELSE "failed"
      /\ CoreAfter["pc"] = IF cli.cleared THEN "done" ELSE "failed"
      /\ CoreAfter["reset"] = "done" /\ CoreAfter["resetHalt"] = "done"
  BY DEF CoreAfter
<1>4. /\ ProgramAfter["backup"] = "erase" /\ ProgramAfter["erase"] = "download"
      /\ ProgramAfter["download"] = IF cli.run = "program" THEN "readback" ELSE "reset"
      /\ ProgramAfter["readback"] = ReadBack
  BY DEF ProgramAfter
<1>5. QED
  BY <1>1, <1>2, <1>3, <1>4, OperationsAre

\* What an operation of a command may do.
LEMMA CommandEffects ==
  ASSUME target \in Target, Aimed, cli.phase \in Operations, NEW t \in CommandEffect
  PROVE  /\ t \in Target
         /\ t.held = CASE cli.phase \in {"assert", "hold", "drive"} -> TRUE
                       [] cli.phase \in {"release", "last", "let", "pulse",
                                         "findUnder"} -> FALSE
                       [] OTHER -> target.held
         /\ cli.phase \notin {"erase", "download"} => t.flash = target.flash
         /\ cli.phase = "download" => \A b \in Banks \cap cli.banks : t.flash[b] = "new"
         /\ cli.phase \in {"erase", "download"} => ~target.held
         /\ t.armed = CASE cli.phase = "set"   -> target.armed \cup {cli.to}
                        [] cli.phase = "clear" -> target.armed \ {cli.to}
                        [] OTHER               -> target.armed
         /\ cli.phase \in {"set", "clear", "pc", "poll"} =>
              t.mode = target.mode /\ t.pc = target.pc
         /\ cli.phase = "run" =>
              \/ t.mode = "running"
              \/ t = target /\ target.mode = "halted" /\ target.pc \in target.armed
<1>1. 0 \in 0..(Code - 1)
  BY CoreAssumption
<1>2. \A yes \in BOOLEAN : \A r \in ResetHeld(yes) :
        /\ r \in Target /\ r.held = yes /\ r.flash = target.flash
        /\ r.armed = target.armed
  BY <1>1 DEF ResetHeld, Target
<1>3. \A attached \in BOOLEAN : \A r \in ResetPulsed(attached) :
        /\ r \in Target /\ r.held = FALSE /\ r.flash = target.flash
        /\ r.armed = target.armed
  BY <1>1 DEF ResetPulsed, Target
<1>4. CASE cli.phase \in {"engine", "pins", "sample", "detach", "attach", "find", "open"}
  <2>1. PICK yes \in BOOLEAN : t \in Attached(yes)
    BY <1>4 DEF CommandEffect
  <2>2. QED
    BY <1>4, <2>1 DEF Attached, Target
<1>5. CASE cli.phase \in {"assert", "hold"}
  BY <1>2, <1>5 DEF CommandEffect
<1>6. CASE cli.phase \in {"release", "last", "let"}
  BY <1>2, <1>6 DEF CommandEffect
<1>7. CASE cli.phase \in {"pulse", "findUnder"}
  <2>1. target.attached \in BOOLEAN
    BY DEF Target
  <2>2. t \in ResetPulsed(FALSE) \/ t \in ResetPulsed(TRUE)
        \/ t \in ResetPulsed(target.attached)
    BY <1>7 DEF CommandEffect
  <2>3. t \in Target /\ t.held = FALSE /\ t.flash = target.flash
        /\ t.armed = target.armed
    BY <1>3, <2>1, <2>2
  <2>4. QED
    BY <1>7, <2>3
<1>8. CASE cli.phase = "drive"
  <2>1. PICK r \in ResetHeld(TRUE) : t = [r EXCEPT !.attached = FALSE]
    BY <1>8 DEF CommandEffect, SwdioDriven
  <2>2. QED
    BY <1>2, <1>8, <2>1 DEF Target
<1>9. CASE cli.phase = "halt"
  BY <1>9, StoppedIs DEF CommandEffect, Target
<1>10. CASE cli.phase = "run"
  BY <1>10, ResumedIs DEF CommandEffect, Target
<1>11. CASE cli.phase = "step"
  BY <1>11, SteppedIs, AdvancedIs DEF CommandEffect, Target
<1>12. CASE cli.phase = "set"
  <2>1. cli.to \in Places /\ t \in Armed(cli.to)
    BY <1>12 DEF CommandEffect, Aimed
  <2>2. QED
    BY <1>12, <2>1, ArmedIs DEF Target
<1>13. CASE cli.phase = "clear"
  <2>1. t \in Cleared(cli.to)
    BY <1>13 DEF CommandEffect
  <2>2. QED
    BY <1>13, <2>1, ClearedIs DEF Target
<1>14. CASE cli.phase \in {"reset", "resetHalt"}
  <2>1. t \in Restarted("running") \cup Restarted("halted")
    BY <1>14 DEF CommandEffect
  <2>2. \E mode \in {"running", "halted"} :
          t = [target EXCEPT !.mode = mode, !.pc = 0]
    BY <2>1, OnCoreIs DEF Restarted
  <2>3. QED
    BY <1>1, <1>14, <2>2 DEF Target
<1>15. CASE cli.phase = "erase"
  <2>1. PICK s \in Touched : t \in Flashed("partial", s)
    BY <1>15 DEF CommandEffect
  <2>2. QED
    BY <1>15, <2>1, FlashedIs DEF Contents
<1>16. CASE cli.phase = "download"
  <2>1. t \in Flashed("new", cli.banks)
    BY <1>16 DEF CommandEffect
  <2>2. QED
    BY <1>16, <2>1, FlashedIs DEF Contents
<1>17. CASE cli.phase \in {"words", "speed", "look", "registers", "read", "stream", "store",
                           "check", "poll", "pc", "backup", "readback"}
  <2>1. t = target
    <3>1. CASE cli.phase = "words"
      BY <3>1, OnCoreIs DEF CommandEffect
    <3>2. CASE cli.phase = "speed"
      BY <3>2 DEF CommandEffect
    <3>3. CASE cli.phase \in {"look", "registers", "read", "stream", "store", "check",
                             "poll", "pc", "backup", "readback"}
      <4>1. t \in Looked
        BY <3>3 DEF CommandEffect
      <4>2. QED
        BY <4>1, LookedIs
    <3>4. QED
      BY <1>17, <3>1, <3>2, <3>3
  <2>2. QED
    BY <1>17, <2>1
<1>18. QED
  BY <1>4, <1>5, <1>6, <1>7, <1>8, <1>9, <1>10, <1>11, <1>12, <1>13, <1>14, <1>15,
     <1>16, <1>17, OperationsAre

\* What follows an operation is an operation, or the end.
LEMMA Follows ==
  ASSUME cli.phase \in Operations
  PROVE  /\ AfterSuccess \in Operations \cup {"done", "failed"}
         /\ AfterFailure \in Operations \cup {"done", "failed"}
<1>1. {First, AfterRelease, AfterDetach, Body, AfterLook, AfterHalt, AfterRegisters,
       ReadBack} \subseteq Operations \cup {"done", "failed"}
  <2>1. First \in Operations \cup {"done", "failed"}
    BY OperationsAre DEF First
  <2>2. AfterRelease \in Operations \cup {"done", "failed"}
    BY OperationsAre DEF AfterRelease
  <2>3. AfterDetach \in Operations \cup {"done", "failed"}
    BY OperationsAre DEF AfterDetach
  <2>4. Body \in Operations \cup {"done", "failed"}
    BY OperationsAre DEF Body, Writing
  <2>5. AfterLook \in Operations \cup {"done", "failed"}
    BY OperationsAre DEF AfterLook, Stops
  <2>6. AfterHalt \in Operations \cup {"done", "failed"}
    BY OperationsAre DEF AfterHalt
  <2>7. AfterRegisters \in Operations \cup {"done", "failed"}
    BY OperationsAre DEF AfterRegisters
  <2>8. ReadBack \in Operations \cup {"done", "failed"}
    BY OperationsAre DEF ReadBack
  <2>9. QED
    BY <2>1, <2>2, <2>3, <2>4, <2>5, <2>6, <2>7, <2>8
<1> DEFINE next == AfterSuccess
<1>2. next \in {"pins", "speed", "done", "words", "release", "drive", "detach", "hold",
                "let", "step", "stream", "check", "run", "poll", "clear", "pc", "failed",
                "erase", "download", "readback", "reset"}
               \cup {First, AfterRelease, AfterDetach, Body, AfterLook, AfterHalt,
                     AfterRegisters, ReadBack}
  <2>1. CASE cli.phase \in DOMAIN BridgeAfter
    BY <2>1, OperationsAre, AfterIs
  <2>2. CASE cli.phase \in DOMAIN OpenAfter
    BY <2>2, OperationsAre, AfterIs
  <2>3. CASE cli.phase \in DOMAIN CoreAfter
    BY <2>3, OperationsAre, CoreAfterIs
  <2>4. CASE cli.phase \in DOMAIN ProgramAfter
    BY <2>4, OperationsAre, CoreAfterIs
  <2>5. QED
    BY <2>1, <2>2, <2>3, <2>4 DEF Operations
<1>3. next \in Operations \cup {"done", "failed"}
  BY <1>1, <1>2, OperationsAre
<1>4. AfterFailure \in Operations \cup {"done", "failed"}
  BY <1>1, OperationsAre DEF AfterFailure
<1>5. QED
  BY <1>3, <1>4

\* The backup holds the largest region, or the zeros read in its place.
LEMMA BackupIs ==
  ASSUME target \in Target
  PROVE  /\ Backup \in [Banks -> {"none", "zeros"} \cup Contents]
         /\ Backup[Largest] = IF target.held THEN "zeros" ELSE target.flash[Largest]
<1>1. target.flash \in [Banks -> Contents] /\ target.held \in BOOLEAN /\ Largest \in Banks
  BY CoreAssumption DEF Target
<1>2. \A b \in Banks : Backup[b] = IF b # Largest THEN "none"
                                  ELSE IF target.held THEN "zeros" ELSE target.flash[b]
  BY <1>1 DEF Backup
<1>3. DOMAIN Backup = Banks /\ Backup = [b \in Banks |-> Backup[b]]
  BY DEF Backup
<1>4. QED
  BY <1>1, <1>2, <1>3

\* What the end of an operation makes of the command.
LEMMA LeavesIs ==
  ASSUME Typed, cli.phase \in Operations, NEW ok \in BOOLEAN,
         NEW next \in Operations \cup {"done", "failed"}, Leaves(next, ok)
  PROVE  /\ cli' \in CliType /\ Aimed'
         /\ cli'.phase = IF next \notin {"done", "failed"} THEN next
                         ELSE IF Opened THEN "drop" ELSE "idle"
         /\ cli'.result = CASE next = "done" -> "Ok" [] next = "failed" -> "Err"
                            [] OTHER -> cli.result
         /\ cli'.rough = (cli.rough \/ ~ok)
         /\ cli'.under = (cli.under \/ (cli.phase = "findUnder" /\ ok))
         /\ cli'.reached = (cli.reached \/ (cli.phase = "poll" /\ next = "clear"))
         /\ cli'.cleared = IF cli.phase = "clear" THEN ok ELSE cli.cleared
         /\ cli'.backup = IF cli.phase = "backup" /\ ok THEN Backup ELSE cli.backup
         /\ cli'.banks = cli.banks /\ cli'.run = cli.run /\ cli'.to = cli.to
         /\ cli'.found = cli.found
         /\ cli'.image = cli.image /\ cli'.stop = cli.stop
<1>1. cli \in CliType /\ target \in Target /\ Aimed
  BY TypeParts DEF Typed
<1> DEFINE phase   == IF next \notin {"done", "failed"} THEN next
                      ELSE IF Opened THEN "drop" ELSE "idle"
           result  == CASE next = "done" -> "Ok" [] next = "failed" -> "Err"
                        [] OTHER -> cli.result
           rough   == cli.rough \/ ~ok
           under   == cli.under \/ (cli.phase = "findUnder" /\ ok)
           was     == IF cli.phase = "look" THEN target.mode = "running" ELSE cli.was
           left    == IF cli.phase = "step" THEN 0 ELSE cli.left
           reached == cli.reached \/ (cli.phase = "poll" /\ next = "clear")
           cleared == IF cli.phase = "clear" THEN ok ELSE cli.cleared
           backup  == IF cli.phase = "backup" /\ ok THEN Backup ELSE cli.backup
<1>2. cli' = [cli EXCEPT !.phase = phase, !.result = result, !.rough = rough,
                !.under = under, !.was = was, !.left = left, !.reached = reached,
                !.cleared = cleared, !.backup = backup]
  BY Zenon DEF Leaves
<1>3. phase \in Operations \cup {"idle", "drop"}
  OBVIOUS
<1>4. result \in {"none", "Ok", "Err", "killed"}
  BY <1>1 DEF CliType
<1>5. {rough, under, was, reached, cleared} \subseteq BOOLEAN
  BY <1>1 DEF CliType
<1>6. left \in {0, 1} /\ backup \in [Banks -> {"none", "zeros"} \cup Contents]
  BY <1>1, BackupIs DEF CliType
<1> HIDE DEF phase, result, rough, under, was, left, reached, cleared, backup
<1>7. /\ cli' \in CliType /\ cli'.phase = phase /\ cli'.result = result
      /\ cli'.rough = rough /\ cli'.under = under /\ cli'.reached = reached
      /\ cli'.cleared = cleared /\ cli'.backup = backup
      /\ cli'.run = cli.run /\ cli'.to = cli.to /\ cli'.found = cli.found
      /\ cli'.image = cli.image /\ cli'.stop = cli.stop /\ cli'.banks = cli.banks
  BY <1>1, <1>2, <1>3, <1>4, <1>5, <1>6 DEF CliType
<1>8. Aimed'
  BY <1>1, <1>7, OperationsAre DEF Aimed
<1>9. QED
  BY <1>7, <1>8 DEF phase, result, rough, under, reached, cleared, backup

\* An operation of a command works or fails.
LEMMA OperationIs ==
  ASSUME Typed, Operation
  PROVE  /\ cli.phase \in Operations
         /\ target' \in Target /\ trouble' \in 0..MaxTrouble
         /\ alone' \in [{"server", "command"} -> BOOLEAN]
         /\ alone'["command"] <=> alone["command"]
         /\ ~alone'["server"]
         /\ target' \in CommandEffect \cup {target}
         /\ \/ Leaves(AfterSuccess, TRUE) /\ target' \in CommandEffect
            \/ Leaves(AfterFailure, FALSE)
<1>1. /\ target \in Target /\ trouble \in 0..MaxTrouble
      /\ alone \in [{"server", "command"} -> BOOLEAN]
  BY TypeParts DEF Typed
<1>2. PICK o \in Outcomes(CommandEffect) :
        Takes(o, "command") /\ Leaves(IF o.ok THEN AfterSuccess ELSE AfterFailure, o.ok)
  BY DEF Operation
<1>3. /\ o.ok \in BOOLEAN /\ o.target \in CommandEffect \cup {target}
      /\ o.ok => o.target \in CommandEffect
      /\ trouble - o.lost \in 0..MaxTrouble
  BY <1>1, OutcomeIs
<1>4. /\ target' = o.target /\ trouble' = trouble - o.lost
      /\ alone' \in [{"server", "command"} -> BOOLEAN]
      /\ alone'["command"] <=> alone["command"]
      /\ ~alone'["server"]
  BY <1>1, <1>2, TakesIs
<1>5. cli.phase \in Operations
  BY DEF Operation
<1>6. target' \in Target
  BY <1>1, <1>3, <1>4, <1>5, CommandEffects DEF Typed
<1>7. \/ Leaves(AfterSuccess, TRUE) /\ o.target \in CommandEffect
      \/ Leaves(AfterFailure, FALSE)
  <2>1. CASE o.ok = TRUE
    BY <1>2, <1>3, <2>1
  <2>2. CASE o.ok = FALSE
    BY <1>2, <2>2
  <2>3. QED
    BY <1>3, <2>1, <2>2
<1>8. QED
  BY <1>3, <1>4, <1>5, <1>6, <1>7

\* A session that is dropped on the way out of a command.
LEMMA DropIs ==
  ASSUME Typed, Drop
  PROVE  /\ target' \in Target /\ trouble' \in 0..MaxTrouble
         /\ alone' \in [{"server", "command"} -> BOOLEAN]
         /\ alone'["command"] <=> alone["command"]
         /\ ~alone'["server"]
         /\ target'.held = target.held /\ target'.mode = target.mode
         /\ target'.pc = target.pc /\ target'.flash = target.flash
         /\ target'.armed \subseteq target.armed
         /\ cli.phase = "drop" /\ cli' = [cli EXCEPT !.phase = "idle"]
<1>1. /\ target \in Target /\ trouble \in 0..MaxTrouble
      /\ alone \in [{"server", "command"} -> BOOLEAN]
  BY TypeParts DEF Typed
<1>2. PICK o \in Outcomes(Dropped) : Takes(o, "command")
  BY DEF Drop
<1>3. o.target \in Dropped \cup {target} /\ trouble - o.lost \in 0..MaxTrouble
  BY <1>1, OutcomeIs
<1>4. /\ target' = o.target /\ trouble' = trouble - o.lost
      /\ alone' \in [{"server", "command"} -> BOOLEAN]
      /\ alone'["command"] <=> alone["command"]
      /\ ~alone'["server"]
  BY <1>1, <1>2, TakesIs
<1>5. /\ o.target \in Target /\ o.target.held = target.held
      /\ o.target.mode = target.mode /\ o.target.pc = target.pc
      /\ o.target.flash = target.flash /\ o.target.armed \subseteq target.armed
  BY <1>1, <1>3, DroppedIs
<1>6. QED
  BY <1>3, <1>4, <1>5 DEF Drop

\* A command that begins knows nothing yet.
LEMMA BeginIs ==
  ASSUME Typed, Begin
  PROVE  /\ cli' \in CliType /\ Aimed' /\ cli.phase = "idle"
         /\ target' = target /\ trouble' = trouble
         /\ alone' = [alone EXCEPT !.command = TRUE]
         /\ cli'.phase = "engine" /\ cli'.result = "none" /\ cli'.found = target
         /\ ~cli'.rough /\ ~cli'.reached /\ cli'.cleared
         /\ ~cli'.stop
         /\ cli'.under <=> cli'.run = "probe-under"
<1>1. cli \in CliType /\ target \in Target
  BY TypeParts DEF Typed
<1>2. PICK run \in cli.menu, to \in Places, image \in {"bin", "elf"}, left \in {0, 1},
           banks \in SUBSET Banks, idle \in BOOLEAN :
        /\ to = 0 \/ run \in {"run-to", "break-set", "break-clear"}
        /\ image = "bin" \/ run = "program"
        /\ left = 0 \/ run = "step"
        /\ banks # {} <=> run \in {"flash", "program"}
        /\ idle => run = "rtt"
        /\ cli' = [NoRun EXCEPT !.run = run, !.phase = "engine",
                     !.runs = cli.runs - 1, !.menu = cli.menu, !.to = to,
                     !.image = image, !.left = left, !.banks = banks, !.idle = idle,
                     !.under = (run = "probe-under")]
  BY Zenon DEF Begin
<1>3. /\ cli.phase = "idle" /\ cli.runs > 0 /\ target' = target /\ trouble' = trouble
      /\ alone' = [alone EXCEPT !.command = TRUE]
  BY Zenon DEF Begin
<1>4. cli.runs - 1 \in 0..MaxRuns /\ run \in AllRuns
  BY <1>1, <1>2, <1>3, CommandAssumption DEF CliType
<1> DEFINE under == run = "probe-under"
           none  == [b \in Banks |-> "none"]
<1>5. under \in BOOLEAN /\ none \in [Banks -> {"none", "zeros"} \cup Contents]
  OBVIOUS
<1>6. cli' = [run |-> run, phase |-> "engine", result |-> "none", runs |-> cli.runs - 1,
              menu |-> cli.menu, under |-> under, stop |-> FALSE, was |-> FALSE,
              left |-> left, to |-> to, reached |-> FALSE, cleared |-> TRUE,
              image |-> image, banks |-> banks, backup |-> none, idle |-> idle,
              rough |-> FALSE, found |-> target]
  BY <1>2 DEF NoRun
<1> HIDE DEF under, none
<1>7. /\ cli'.phase = "engine" /\ cli'.result = "none"
      /\ cli'.found = target /\ cli'.rough = FALSE
      /\ cli'.reached = FALSE /\ cli'.cleared = TRUE /\ cli'.stop = FALSE
      /\ cli'.under = under /\ cli'.run = run /\ cli'.to = to
  BY <1>6
<1>8. cli' \in CliType
  <2>1. "engine" \in Operations \cup {"idle", "drop"}
    BY OperationsAre
  <2>2. cli.menu \in SUBSET AllRuns
    BY <1>1 DEF CliType
  <2>3. QED
    BY <1>1, <1>4, <1>5, <1>6, <2>1, <2>2 DEF CliType
<1>9. QED
  BY <1>3, <1>7, <1>8 DEF Aimed, under

\* The commands keep the types.
LEMMA CommandTyped ==
  ASSUME Typed, CommandNext, UNCHANGED gdb
  PROVE  Typed'
<1>1. /\ target \in Target /\ trouble \in 0..MaxTrouble /\ gdb \in GdbType
      /\ alone \in [{"server", "command"} -> BOOLEAN] /\ cli \in CliType
      /\ Seated /\ Aimed
  BY TypeParts DEF Typed
<1>2. gdb' \in GdbType /\ Seated'
  <2>1. Attempts' = Attempts
    BY DEF Attempts, Once, Opening, Retried
  <2>2. QED
    BY <1>1, <2>1 DEF GdbType, Seated, Moves, Opening
<1>3. CASE Begin
  BY <1>1, <1>2, <1>3, BeginIs, TypedNext
<1>4. CASE Operation
  <2>1. \E ok \in BOOLEAN, next \in Operations \cup {"done", "failed"} : Leaves(next, ok)
    BY <1>4, OperationIs, Follows
  <2>2. cli' \in CliType /\ Aimed'
    BY <1>4, <2>1, OperationIs, LeavesIs
  <2>3. QED
    BY <1>2, <1>4, <2>2, OperationIs, TypedNext
<1>5. CASE Deadline
  <2>1. cli' = [cli EXCEPT !.phase = "clear"] /\ cli.phase = "poll"
        /\ UNCHANGED <<target, trouble, alone>>
    BY <1>5 DEF Deadline
  <2>2. cli' \in CliType /\ cli'.to = cli.to
    BY <1>1, <2>1, OperationsAre DEF CliType
  <2>3. QED
    BY <1>1, <1>2, <2>1, <2>2, TypedNext DEF Aimed
<1>6. CASE Drop
  <2>1. cli' = [cli EXCEPT !.phase = "idle"]
    BY <1>6, DropIs
  <2>2. cli' \in CliType /\ cli'.phase = "idle"
    BY <1>1, <2>1 DEF CliType
  <2>3. QED
    BY <1>2, <1>6, <2>2, DropIs, TypedNext DEF Aimed
<1>7. CASE CtrlC
  <2>1. /\ cli.phase # "idle" /\ UNCHANGED <<target, trouble, alone>>
        /\ \/ cli' = [cli EXCEPT !.stop = TRUE]
           \/ cli' = [cli EXCEPT !.phase = "idle", !.result = "killed"]
    BY <1>7 DEF CtrlC
  <2>2. cli' \in CliType /\ cli'.to = cli.to
    BY <1>1, <2>1 DEF CliType
  <2>3. QED
    BY <1>1, <1>2, <2>1, <2>2, TypedNext DEF Aimed
<1>8. CASE Quiet
  <2>1. /\ cli.phase \in Operations /\ TRUE \in BOOLEAN
        /\ "done" \in Operations \cup {"done", "failed"} /\ Leaves("done", TRUE)
        /\ UNCHANGED <<target, trouble, alone>>
    BY <1>8, OperationsAre DEF Quiet
  <2>2. cli' \in CliType /\ Aimed'
    BY <2>1, LeavesIs
  <2>3. QED
    BY <1>1, <1>2, <2>1, <2>2, TypedNext
<1>9. QED
  BY <1>3, <1>4, <1>5, <1>6, <1>7, <1>8 DEF CommandNext

\* The target that runs by itself.
LEMMA ExecuteIs ==
  ASSUME Typed, Execute
  PROVE  /\ target' \in Target /\ trouble' = trouble /\ alone' = alone
         /\ target'.held = target.held /\ target'.flash = target.flash
         /\ target'.armed = target.armed /\ target.mode = "running"
         /\ target'.pc = (target.pc + 1) % Code
         /\ target'.mode = IF target'.pc \in target.armed THEN "halted" ELSE "running"
<1>1. target \in Target /\ Advanced \in Target
  BY TypeParts, AdvancedIs DEF Typed
<1>2. Advanced = [target EXCEPT !.pc = (target.pc + 1) % Code]
  BY <1>1, AdvancedIs
<1>3. /\ target.mode = "running" /\ trouble' = trouble /\ alone' = alone
      /\ target' = [Advanced EXCEPT !.mode =
           IF (target.pc + 1) % Code \in target.armed THEN "halted" ELSE @]
  BY DEF Execute
<1>4. QED
  BY <1>1, <1>2, <1>3 DEF Target

\* One step of anybody keeps the types.
LEMMA StepTyped ==
  ASSUME Typed, [Next]_vars
  PROVE  Typed'
<1>1. CASE GdbNext /\ UNCHANGED cli
  BY <1>1, GdbTyped
<1>2. CASE CommandNext /\ UNCHANGED gdb
  BY <1>2, CommandTyped
<1>3. ASSUME target' \in Target, trouble' = trouble, alone' = alone, UNCHANGED <<gdb, cli>>
      PROVE  Typed'
  <2>1. /\ trouble \in 0..MaxTrouble /\ gdb \in GdbType /\ cli \in CliType
        /\ alone \in [{"server", "command"} -> BOOLEAN] /\ Seated /\ Aimed
    BY TypeParts DEF Typed
  <2>2. Attempts' = Attempts /\ Operations' = Operations
    BY DEF Attempts, Once, Opening, Retried, Operations, BridgeAfter, OpenAfter,
           CoreAfter, ProgramAfter
  <2>3. gdb' \in GdbType /\ cli' \in CliType /\ Seated' /\ Aimed'
    BY <1>3, <2>1, <2>2 DEF GdbType, CliType, Seated, Aimed, Moves, Opening
  <2>4. QED
    BY <1>3, <2>1, <2>3, TypedNext
<1>4. CASE Execute /\ UNCHANGED <<gdb, cli>>
  BY <1>3, <1>4, ExecuteIs
<1>5. CASE UNCHANGED vars
  <2>1. target' = target /\ trouble' = trouble /\ alone' = alone
        /\ UNCHANGED <<gdb, cli>>
    BY <1>5 DEF vars
  <2>2. target \in Target
    BY TypeParts DEF Typed
  <2>3. QED
    BY <1>3, <2>1, <2>2
<1>6. QED
  BY <1>1, <1>2, <1>4, <1>5 DEF Next

\* So do the states they begin in: one debugger's server, or none, and nothing run.
LEMMA InitTyped ==
  ASSUME Init
  PROVE  Typed
<1>1. PICK m \in Mixes :
        /\ CoreInit(m.debuggers > 0, m.trouble)
        /\ gdb = [NoSession EXCEPT !.sessions = m.debuggers, !.packets = m.packets,
                    !.phase = IF m.debuggers > 0 THEN @ ELSE "off"]
        /\ cli = [NoRun EXCEPT !.runs = m.commands, !.menu = m.menu]
  BY DEF Init
<1>2. /\ m.debuggers \in 0..MaxDebuggers /\ m.packets \in 0..MaxPackets
      /\ m.commands \in 0..MaxRuns /\ m.menu \in SUBSET AllRuns
      /\ m.trouble \in 0..MaxTrouble /\ (m.debuggers > 0) \in BOOLEAN
  BY HostAssumption
<1>3. 0 \in 0..(Code - 1)
  BY CoreAssumption
<1> DEFINE attached == m.debuggers > 0
           old      == [b \in Banks |-> "old"]
           none     == [b \in Banks |-> "none"]
<1>4. /\ target \in Target /\ trouble \in 0..MaxTrouble
      /\ alone \in [{"server", "command"} -> BOOLEAN]
  <2>1. /\ target = [attached |-> attached, held |-> FALSE, mode |-> "running",
                     pc |-> 0, armed |-> {}, flash |-> old]
        /\ trouble = m.trouble
        /\ alone = [p \in {"server", "command"} |-> TRUE]
    BY <1>1, Zenon DEF CoreInit
  <2>2. attached \in BOOLEAN /\ old \in [Banks -> Contents]
    BY <1>2 DEF Contents
  <2> HIDE DEF attached, old
  <2>3. target \in Target
    BY <1>3, <2>1, <2>2 DEF Target
  <2>4. alone \in [{"server", "command"} -> BOOLEAN]
    BY <2>1
  <2>5. QED
    BY <1>2, <2>1, <2>3, <2>4
<1> DEFINE phase == IF m.debuggers > 0 THEN "accept" ELSE "off"
<1>5. /\ gdb = [NoSession EXCEPT !.sessions = m.debuggers, !.packets = m.packets,
                  !.phase = phase]
      /\ phase \in {"accept", "off"}
  BY <1>1 DEF NoSession
<1> HIDE DEF phase
<1>6. gdb \in GdbType /\ gdb.phase \in {"accept", "off"} /\ gdb.held = {}
  BY <1>2, <1>3, <1>5 DEF NoSession, GdbType
<1>7. cli \in CliType /\ cli.phase = "idle"
  <2>1. cli = [run |-> "status", phase |-> "idle", result |-> "none",
               runs |-> m.commands, menu |-> m.menu, under |-> FALSE, stop |-> FALSE,
               was |-> FALSE, left |-> 0, to |-> 0, reached |-> FALSE,
               cleared |-> TRUE, image |-> "bin", banks |-> {}, backup |-> none,
               idle |-> FALSE, rough |-> FALSE, found |-> target]
    BY <1>1 DEF NoRun
  <2>2. "status" \in AllRuns /\ none \in [Banks -> {"none", "zeros"} \cup Contents]
    BY DEF AllRuns, Sessions
  <2> HIDE DEF none
  <2>3. QED
    BY <1>2, <1>4, <2>1, <2>2 DEF CliType
<1>8. Seated /\ Aimed
  BY <1>6, <1>7 DEF Seated, Aimed, Moves, Opening
<1>9. QED
  BY <1>4, <1>6, <1>7, <1>8, TypeParts DEF Typed

\* Typed is an inductive invariant: also no operation of the server is ever about
\* a breakpoint it does not have, or a place no breakpoint can be.
THEOREM AlwaysTyped == Spec => []Typed
<1>1. Init => Typed
  BY InitTyped
<1>2. Typed /\ [Next]_vars => Typed'
  BY StepTyped
<1>3. QED
  BY <1>1, <1>2, PTL DEF Spec

\* The server, the command and the target keep their types, whatever fails.
THEOREM TypeCorrect == Spec => []TypeOK
<1>1. Typed => TypeOK
  BY DEF Typed
<1>2. QED
  BY <1>1, AlwaysTyped, PTL

-----------------------------------------------------------------------------
(* The debugger: whether the program is stopped, its breakpoints, its steps. *)

Safe == gdb.phase \in {"units", "stopped", "set", "clear", "registers", "register",
                       "memory", "store", "pc", "disarm", "step", "rearm", "status"}

\* From the halt to the next resume the core is halted, also during a step.
Halted == HaltFirst /\ alone["server"] /\ Safe => target.mode = "halted"

\* The breakpoint an operation is moving, which has a unit or has none.
Moving == IF gdb.phase \in {"clear", "disarm", "step", "rearm"} THEN {gdb.at} ELSE {}

\* The server's breakpoints and the units agree but for the one that is moving and
\* for those that an attempt failed on.
Lined == alone["server"] =>
           /\ gdb.phase # "clean" => gdb.held \ Moving \subseteq target.armed
           /\ target.armed \subseteq gdb.held \cup gdb.excused

\* A step begins where the core is, on an instruction with no unit armed.
Pinned ==
  HaltFirst /\ alone["server"] /\ ~gdb.rough /\ gdb.phase \in {"disarm", "step"} =>
    /\ target.pc = gdb.from /\ gdb.from = gdb.at
    /\ gdb.phase = "step" /\ gdb.from \notin gdb.excused => gdb.from \notin target.armed

Trusted == Typed /\ Halted /\ Lined /\ Pinned

-----------------------------------------------------------------------------
(* Steps that leave the target alone. *)

\* A debugger that comes, one that asks for something, and what passes it by.
LEMMA DebuggerIs ==
  ASSUME Typed, Debugger \/ EndOfSession \/ TypedLate
  PROVE  /\ target' = target
         /\ \/ /\ gdb'.phase = "core" /\ gdb'.held = {}
               /\ gdb'.excused = target.armed
            \/ /\ alone' = alone /\ gdb'.held = gdb.held /\ gdb'.excused = gdb.excused
               /\ gdb'.phase = gdb.phase /\ gdb'.at = gdb.at /\ gdb'.from = gdb.from
               /\ gdb'.rough = gdb.rough
            \/ /\ alone' = alone /\ gdb'.held = gdb.held /\ gdb'.excused = gdb.excused
               /\ gdb.phase = "stopped"
               /\ gdb'.phase \in {"stopped", "set", "clear", "registers", "register",
                                  "memory", "store", "run", "pc", "clean", "interrupt"}
<1>1. gdb \in GdbType
  BY TypeParts DEF Typed
<1>2. CASE Connect
  BY <1>1, <1>2 DEF Connect, NoSession
<1>3. ASSUME NEW phase, NEW at, Packet(phase, at)
      PROVE  /\ target' = target /\ alone' = alone /\ gdb'.held = gdb.held
             /\ gdb'.excused = gdb.excused /\ gdb.phase = "stopped"
             /\ gdb'.phase = phase
  BY <1>1, <1>3 DEF Packet, GdbType
<1>4. CASE AddBreakpoint \/ RemoveBreakpoint \/ Access \/ Resume \/ Step
  <2>1. \E phase \in {"set", "clear", "registers", "register", "memory", "store", "run",
                      "pc"}, at \in Places \cup {0} : Packet(phase, at)
    BY <1>1, <1>4 DEF AddBreakpoint, RemoveBreakpoint, Access, Resume, Step, GdbType
  <2>2. QED
    BY <1>3, <2>1
<1>5. CASE Type
  BY <1>1, <1>5 DEF Type, GdbType
<1>6. CASE HangUp
  BY <1>1, <1>6 DEF HangUp, GdbType
<1>7. CASE EndOfSession
  BY <1>1, <1>7 DEF EndOfSession, GdbType
<1>8. CASE TypedLate
  BY <1>1, <1>8 DEF TypedLate, GdbType
<1>9. QED
  BY <1>2, <1>4, <1>5, <1>6, <1>7, <1>8 DEF Debugger

\* They keep what the debugger relies on.
LEMMA DebuggerKeeps ==
  ASSUME Trusted, Debugger \/ EndOfSession \/ TypedLate
  PROVE  Halted' /\ Lined' /\ Pinned'
<1>1. Typed
  BY DEF Trusted
<1>2. CASE gdb'.phase = "core" /\ gdb'.held = {} /\ gdb'.excused = target.armed
  BY <1>1, <1>2, DebuggerIs DEF Halted, Lined, Pinned, Safe, Moving
<1>3. CASE /\ alone' = alone /\ gdb'.held = gdb.held /\ gdb'.excused = gdb.excused
           /\ gdb'.phase = gdb.phase /\ gdb'.at = gdb.at /\ gdb'.from = gdb.from
           /\ gdb'.rough = gdb.rough
  BY <1>1, <1>3, DebuggerIs DEF Trusted, Halted, Lined, Pinned, Safe, Moving
<1>4. CASE /\ alone' = alone /\ gdb'.held = gdb.held /\ gdb'.excused = gdb.excused
           /\ gdb.phase = "stopped"
           /\ gdb'.phase \in {"stopped", "set", "clear", "registers", "register",
                              "memory", "store", "run", "pc", "clean", "interrupt"}
  BY <1>1, <1>4, DebuggerIs DEF Trusted, Halted, Lined, Pinned, Safe, Moving
<1>5. QED
  BY <1>1, <1>2, <1>3, <1>4, DebuggerIs

-----------------------------------------------------------------------------
(* Steps of the server. *)

\* The core stays halted through every operation but a resume.
LEMMA HaltedKept ==
  ASSUME Trusted, Attempt
  PROVE  Halted'
<1>1. Typed /\ Halted /\ target \in Target /\ Seated
  BY TypeParts DEF Trusted, Typed
<1>2. SUFFICES ASSUME HaltFirst, alone'["server"], Safe'
               PROVE  target'.mode = "halted"
  BY DEF Halted
<1>3. alone["server"]
  BY <1>1, <1>2, AttemptIs
<1>4. target' = target \/ target' \in ServerEffect
  BY <1>1, AttemptIs
<1>5. CASE Worked /\ target' \in ServerEffect
  <2>1. gdb'.phase = ServerAfter[gdb.phase] /\ gdb.phase \in Attempts
    BY <1>1, <1>5, AttemptIs, WorkedIs
  <2>2. /\ gdb.phase \notin {"core", "run"}
        /\ gdb.phase = "poll" => target.mode = "halted"
        /\ Safe \/ gdb.phase \in {"halt", "interrupt", "poll"}
    BY <1>2, <2>1, ServerAfterIs, AttemptsAre DEF Safe, AfterPoll
  <2>3. target.mode = "halted" \/ gdb.phase \in {"halt", "interrupt"}
    BY <1>1, <1>2, <1>3, <2>2 DEF Halted
  <2>4. QED
    BY <1>1, <1>5, <2>2, <2>3, ServerEffects
<1>6. CASE Failed
  <2>1. /\ gdb.phase \in Attempts
        /\ (gdb'.phase = gdb.phase /\ gdb.phase \in Retried) \/ gdb'.phase = GivenUp
    BY <1>1, <1>6, AttemptIs, FailedIs
  <2>2. Safe
    BY <1>2, <2>1 DEF Safe, GivenUp, Opening
  <2>3. gdb.phase # "run"
    BY <2>2 DEF Safe
  <2>4. target.mode = "halted"
    BY <1>1, <1>2, <1>3, <2>2 DEF Halted
  <2>5. QED
    BY <1>1, <1>4, <2>3, <2>4, ServerEffects
<1>7. QED
  BY <1>1, <1>5, <1>6, AttemptIs

\* An operation that works moves the breakpoint it is about, and one that fails
\* leaves it excused.
LEMMA LinedKept ==
  ASSUME Trusted, Attempt
  PROVE  Lined'
<1>1. Typed /\ Lined /\ target \in Target /\ gdb \in GdbType /\ Seated
  BY TypeParts DEF Trusted, Typed
<1>2. SUFFICES ASSUME alone'["server"]
               PROVE  /\ gdb'.phase # "clean" => gdb'.held \ Moving' \subseteq target'.armed
                      /\ target'.armed \subseteq gdb'.held \cup gdb'.excused
  BY DEF Lined
<1>3. alone["server"] /\ gdb.phase \in Attempts
  BY <1>1, <1>2, AttemptIs
<1>4. gdb.phase # "clean"
  BY <1>3, AttemptsAre
<1>5. /\ gdb.held \ Moving \subseteq target.armed
      /\ target.armed \subseteq gdb.held \cup gdb.excused
  BY <1>1, <1>3, <1>4 DEF Lined
<1>6. \A t \in ServerEffect :
        /\ gdb.phase \in {"set", "rearm"} => t.armed = target.armed \cup {gdb.at}
        /\ gdb.phase \in {"clear", "disarm"} => t.armed = target.armed \ {gdb.at}
        /\ gdb.phase \notin Moves => t.armed = target.armed
  BY <1>1, ServerEffects
<1>7. CASE Worked /\ target' \in ServerEffect
  <2>1. /\ gdb'.phase = ServerAfter[gdb.phase] /\ gdb'.excused = gdb.excused
        /\ gdb'.held = CASE gdb.phase = "set"   -> gdb.held \cup {gdb.at}
                         [] gdb.phase = "clear" -> gdb.held \ {gdb.at}
                         [] OTHER               -> gdb.held
        /\ gdb'.at = IF gdb.phase = "pc" THEN target.pc ELSE gdb.at
    BY <1>1, <1>3, <1>7, WorkedIs
  <2>2. CASE gdb.phase = "set"
    BY <1>5, <1>6, <1>7, <2>1, <2>2, ServerAfterIs DEF Moving
  <2>3. CASE gdb.phase = "clear"
    BY <1>5, <1>6, <1>7, <2>1, <2>3, ServerAfterIs DEF Moving
  <2>4. CASE gdb.phase = "disarm"
    BY <1>5, <1>6, <1>7, <2>1, <2>4, ServerAfterIs DEF Moving
  <2>5. CASE gdb.phase = "rearm"
    <3>1. gdb.at \in gdb.held
      BY <1>1, <2>5 DEF Seated
    <3>2. QED
      BY <1>5, <1>6, <1>7, <2>1, <2>5, <3>1, ServerAfterIs DEF Moving
  <2>6. CASE gdb.phase \notin Moves
    <3>1. target'.armed = target.armed /\ gdb'.held = gdb.held
      BY <1>6, <1>7, <2>1, <2>6 DEF Moves
    <3>2. CASE gdb.phase = "step"
      BY <1>5, <2>1, <3>1, <3>2, ServerAfterIs DEF Moving, AfterStep
    <3>3. CASE gdb.phase # "step"
      BY <1>5, <2>1, <2>6, <3>1, <3>3 DEF Moving, Moves
    <3>4. QED
      BY <3>2, <3>3
  <2>7. QED
    BY <2>2, <2>3, <2>4, <2>5, <2>6 DEF Moves
<1>8. CASE Failed
  <2>1. /\ gdb'.held = gdb.held /\ gdb'.at = gdb.at
        /\ gdb'.excused = IF gdb.phase \in Moves THEN gdb.excused \cup {gdb.at}
                          ELSE gdb.excused
        /\ (gdb'.phase = gdb.phase /\ gdb.phase \in Retried) \/ gdb'.phase = GivenUp
        /\ target' = target \/ target' \in ServerEffect
    BY <1>1, <1>3, <1>8, AttemptIs, FailedIs
  <2>2. /\ target'.armed \subseteq gdb'.held \cup gdb'.excused
        /\ gdb.phase \notin Moves => target'.armed = target.armed
        /\ gdb.phase \in {"set", "rearm"} => target.armed \subseteq target'.armed
        /\ gdb.phase \in {"clear", "disarm"} => target.armed \ {gdb.at} \subseteq target'.armed
    BY <1>5, <1>6, <2>1 DEF Moves
  <2>3. CASE gdb'.phase = gdb.phase
    BY <1>5, <2>1, <2>2, <2>3 DEF Moving, Moves
  <2>4. CASE gdb'.phase = GivenUp
    <3>1. \/ gdb'.phase = "clean"
          \/ gdb'.phase = "attach" /\ gdb.held = {}
          \/ gdb'.phase = "stopped" /\ gdb.phase = "memory"
          \/ gdb'.phase = "rearm" /\ gdb.phase = "step"
      BY <1>1, <2>4 DEF GivenUp, Seated
    <3>2. QED
      BY <1>5, <2>1, <2>2, <3>1 DEF Moving, Moves
  <2>5. QED
    BY <2>1, <2>2, <2>3, <2>4
<1>9. QED
  BY <1>1, <1>7, <1>8, AttemptIs

\* A step begins after the read of the program counter, its own breakpoint cleared.
LEMMA PinnedKept ==
  ASSUME Trusted, Attempt
  PROVE  Pinned'
<1>1. Typed /\ Halted /\ Lined /\ Pinned /\ target \in Target /\ gdb \in GdbType
  BY TypeParts DEF Trusted, Typed
<1>2. SUFFICES ASSUME HaltFirst, alone'["server"], ~gdb'.rough,
                      gdb'.phase \in {"disarm", "step"}
               PROVE  /\ target'.pc = gdb'.from /\ gdb'.from = gdb'.at
                      /\ gdb'.phase = "step" /\ gdb'.from \notin gdb'.excused
                           => gdb'.from \notin target'.armed
  BY DEF Pinned
<1>3. alone["server"] /\ gdb.phase \in Attempts
  BY <1>1, <1>2, AttemptIs
<1>4. Worked /\ target' \in ServerEffect
  BY <1>1, <1>2, <1>3, AttemptIs, FailedIs
<1>5. /\ gdb'.phase = ServerAfter[gdb.phase] /\ gdb'.excused = gdb.excused
      /\ gdb'.at = IF gdb.phase = "pc" THEN target.pc ELSE gdb.at
      /\ gdb'.from = IF gdb.phase = "pc" THEN target.pc ELSE gdb.from
      /\ gdb'.rough = gdb.rough
  BY <1>1, <1>3, <1>4, WorkedIs
<1>6. \/ gdb.phase = "pc" /\ gdb'.phase = AfterPc
      \/ gdb.phase = "disarm" /\ gdb'.phase = "step"
  BY <1>2, <1>3, <1>5, AttemptsAre, ServerAfterIs DEF AfterStep, AfterPoll
<1>7. CASE gdb.phase = "pc"
  <2>1. target'.pc = target.pc /\ target'.armed = target.armed
    BY <1>1, <1>4, <1>7, ServerEffects DEF Typed, Moves
  <2>2. target.armed \subseteq gdb.held \cup gdb.excused
    BY <1>1, <1>3 DEF Lined
  <2>3. QED
    BY <1>5, <1>6, <1>7, <2>1, <2>2 DEF AfterPc
<1>8. CASE gdb.phase = "disarm"
  <2>1. target'.pc = target.pc /\ target'.armed = target.armed \ {gdb.at}
    BY <1>1, <1>4, <1>8, ServerEffects DEF Typed
  <2>2. target.pc = gdb.from /\ gdb.from = gdb.at
    BY <1>1, <1>2, <1>3, <1>5, <1>8 DEF Pinned
  <2>3. QED
    BY <1>5, <1>8, <2>1, <2>2
<1>9. QED
  BY <1>6, <1>7, <1>8

\* What the server does after a debugger.
LEMMA AfterwardsKeeps ==
  ASSUME Trusted, Clean \/ MakeSession
  PROVE  Halted' /\ Lined' /\ Pinned'
<1>1. Typed /\ Lined /\ gdb \in GdbType /\ Seated
  BY TypeParts DEF Trusted, Typed
<1>2. CASE Clean
  <2>1. gdb.phase = "clean" /\ (alone'["server"] <=> alone["server"])
    BY <1>1, <1>2, CleanIs DEF Clean
  <2>2. CASE /\ gdb.held = {} /\ target' = target
             /\ gdb' = [gdb EXCEPT !.phase = "accept", !.line = "none"]
    <3>1. gdb'.phase = "accept" /\ gdb'.held = {} /\ gdb'.excused = gdb.excused
      BY <1>1, <2>2 DEF GdbType
    <3>2. QED
      BY <1>1, <2>1, <2>2, <3>1 DEF Halted, Lined, Pinned, Safe
  <2>3. ASSUME NEW a \in gdb.held, NEW failed \in BOOLEAN,
               gdb' = [gdb EXCEPT !.held = gdb.held \ {a},
                         !.excused = IF failed THEN gdb.excused \cup {a}
                                     ELSE gdb.excused],
               target'.armed \subseteq target.armed, ~failed => a \notin target'.armed
        PROVE  Halted' /\ Lined' /\ Pinned'
    <3>1. /\ gdb'.phase = "clean" /\ gdb'.held = gdb.held \ {a}
          /\ gdb'.excused = IF failed THEN gdb.excused \cup {a} ELSE gdb.excused
      BY <1>1, <2>1, <2>3 DEF GdbType
    <3>2. QED
      BY <1>1, <2>1, <2>3, <3>1 DEF Halted, Lined, Pinned, Safe
  <2>4. QED
    BY <1>1, <1>2, <2>2, <2>3, CleanIs
<1>3. CASE MakeSession
  <2>1. gdb.held = {}
    BY <1>1, <1>3 DEF MakeSession, Seated
  <2>2. QED
    BY <1>1, <1>3, <2>1, MakeSessionIs DEF Halted, Lined, Pinned, Safe
<1>4. QED
  BY <1>2, <1>3

\* What the target and the command do beside it.
LEMMA BesideKeeps ==
  ASSUME Trusted, Execute \/ CommandNext, UNCHANGED gdb
  PROVE  Halted' /\ Lined' /\ Pinned'
<1>1. Typed /\ target \in Target /\ alone \in [{"server", "command"} -> BOOLEAN]
  BY TypeParts DEF Trusted, Typed
<1>2. Moving' = Moving /\ Safe' = Safe /\ gdb' = gdb
  BY DEF Moving, Safe
<1>3. CASE Execute
  <2>1. /\ target'.armed = target.armed /\ target.mode = "running" /\ alone' = alone
    BY <1>1, <1>3, ExecuteIs
  <2>2. QED
    BY <1>2, <2>1 DEF Trusted, Halted, Lined, Pinned, Safe
<1>4. CASE Operation \/ Drop
  <2>1. ~alone'["server"]
    BY <1>1, <1>4, OperationIs, DropIs
  <2>2. QED
    BY <2>1 DEF Halted, Lined, Pinned
<1>5. CASE Begin \/ Deadline \/ CtrlC
  <2>1. target' = target /\ (alone'["server"] <=> alone["server"])
    BY <1>1, <1>5 DEF Begin, Deadline, CtrlC
  <2>2. QED
    BY <1>2, <2>1 DEF Trusted, Halted, Lined, Pinned
<1>6. CASE Quiet
  <2>1. target' = target /\ (alone'["server"] <=> alone["server"])
    BY <1>1, <1>6 DEF Quiet
  <2>2. QED
    BY <1>2, <2>1 DEF Trusted, Halted, Lined, Pinned
<1>7. QED
  BY <1>3, <1>4, <1>5, <1>6 DEF CommandNext

\* Trusted is inductive: whatever fails, and whoever is beside the server.
THEOREM AlwaysTrusted == Spec => []Trusted
<1>1. Init => Trusted
  <2>1. SUFFICES ASSUME Init
                 PROVE  Halted /\ Lined /\ Pinned
    BY InitTyped DEF Trusted
  <2>2. gdb.phase \in {"accept", "off"} /\ target.armed = {} /\ gdb.held = {}
    <3>1. PICK m \in Mixes :
            gdb = [NoSession EXCEPT !.sessions = m.debuggers, !.packets = m.packets,
                     !.phase = IF m.debuggers > 0 THEN @ ELSE "off"]
      BY <2>1 DEF Init
    <3>2. target.armed = {}
      BY <2>1 DEF Init, CoreInit
    <3>3. QED
      BY <3>1, <3>2 DEF NoSession
  <2>3. QED
    BY <2>2 DEF Halted, Lined, Pinned, Safe
<1>2. Trusted /\ [Next]_vars => Trusted'
  <2>1. SUFFICES ASSUME Trusted, [Next]_vars
                 PROVE  Halted' /\ Lined' /\ Pinned'
    BY StepTyped DEF Trusted
  <2>2. CASE Attempt
    BY <2>1, <2>2, HaltedKept, LinedKept, PinnedKept
  <2>3. CASE Debugger \/ EndOfSession \/ TypedLate
    BY <2>1, <2>3, DebuggerKeeps
  <2>4. CASE Clean \/ MakeSession
    BY <2>1, <2>4, AfterwardsKeeps
  <2>5. CASE (Execute \/ CommandNext) /\ UNCHANGED gdb
    BY <2>1, <2>5, BesideKeeps
  <2>6. CASE UNCHANGED vars
    BY <2>1, <2>6 DEF Trusted, Halted, Lined, Pinned, Safe, Moving, vars
  <2>7. QED
    BY <2>1, <2>2, <2>3, <2>4, <2>5, <2>6 DEF Next, GdbNext, ServerStep
<1>3. QED
  BY <1>1, <1>2, PTL DEF Spec

-----------------------------------------------------------------------------
(* What follows. *)

\* While the debugger believes the program stopped, it is.
THEOREM StopsAreTrue == Spec => []StoppedIsHalted
<1>1. Trusted => StoppedIsHalted
  <2>1. alone.server = alone["server"]
    OBVIOUS
  <2>2. QED
    BY <2>1 DEF Trusted, Halted, Safe, StoppedIsHalted
<1>2. QED
  BY <1>1, AlwaysTrusted, PTL

\* What the debugger was told of its breakpoints is so.
THEOREM BreakpointsTrue == Spec => []BreakpointsAreArmed
<1>1. Trusted => BreakpointsAreArmed
  BY DEF Trusted, Lined, Moving, BreakpointsAreArmed
<1>2. QED
  BY <1>1, AlwaysTrusted, PTL

\* After a session the units are those it was not able to clear.
THEOREM LeavesNothing == Spec => []NothingLeftArmed
<1>1. Trusted => NothingLeftArmed
  BY DEF Trusted, Typed, Seated, Lined, NothingLeftArmed
<1>2. QED
  BY <1>1, AlwaysTrusted, PTL

\* A step on which nothing failed is one instruction.
THEOREM OneInstruction == Spec => StepsOnce
<1> DEFINE OneStep == gdb.phase = "step" /\ gdb'.phase \in {"rearm", "poll"} /\ ~gdb'.rough
                      /\ HaltFirst /\ alone.server /\ gdb.from \notin gdb.excused
                    => target'.pc = (gdb.from + 1) % Code
<1>1. Trusted /\ [Next]_vars => [OneStep]_<<gdb, target, alone>>
  <2>1. SUFFICES ASSUME Trusted, [Next]_vars, gdb.phase = "step",
                        gdb'.phase \in {"rearm", "poll"}, ~gdb'.rough, HaltFirst,
                        alone["server"], gdb.from \notin gdb.excused
                 PROVE  target'.pc = (gdb.from + 1) % Code
    OBVIOUS
  <2>2. Typed /\ target \in Target /\ Seated
    BY <2>1, TypeParts DEF Trusted, Typed
  <2>3. Attempt
    <3>1. gdb' # gdb
      BY <2>1
    <3>2. ~(Debugger \/ EndOfSession \/ TypedLate)
      BY <2>1, <2>2, DebuggerIs
    <3>3. ~Clean /\ ~MakeSession
      BY <2>1 DEF Clean, MakeSession
    <3>4. QED
      BY <2>1, <3>1, <3>2, <3>3 DEF Next, GdbNext, ServerStep, vars
  <2>4. Worked /\ target' \in ServerEffect /\ gdb.phase \in Attempts
    BY <2>1, <2>2, <2>3, AttemptIs, FailedIs
  <2>5. gdb'.rough = gdb.rough
    BY <2>2, <2>4, WorkedIs
  <2>6. target.mode = "halted"
    BY <2>1 DEF Trusted, Halted, Safe
  <2>7. target.pc = gdb.from /\ target.pc \notin target.armed
    BY <2>1, <2>5 DEF Trusted, Pinned
  <2>8. QED
    BY <2>1, <2>2, <2>4, <2>6, <2>7, ServerEffects
<1>2. QED
  BY <1>1, AlwaysTrusted, PTL DEF Spec, StepsOnce
=============================================================================
