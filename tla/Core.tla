-------------------------------- MODULE Core --------------------------------
(***************************************************************************)
(* What the host's processes share: the probe, the target's core and its    *)
(* flash, as the operations that gdb.rs and main.rs call reach them.  Most  *)
(* of it is external, the probe-rs operations on a Cortex-M core; the       *)
(* bridge commands are those of Hub, without the pads.                      *)
(***************************************************************************)
EXTENDS Integers, FiniteSets

CONSTANTS
  Code,       \* instructions of the program the core runs, in a loop
  Places,     \* where a breakpoint may be set
  Units,      \* hardware breakpoint units of the core
  Banks,      \* regions of its flash: the Nvm regions of its description
  Largest,    \* the largest of them
  MaxTrouble  \* bound of the exploration

ASSUME CoreAssumption ==
  /\ {Code, Units} \subseteq Nat \ {0} /\ MaxTrouble \in Nat
  /\ Places \subseteq 0..(Code - 1)
  /\ Largest \in Banks

VARIABLES
  target,  \* bridge_attached, the reset line, the core, its units, its flash
  trouble, \* how often the wire will still fail
  alone    \* history: who has had the target to itself since it began

Contents == {"old", "partial", "new"}
Target == [attached : BOOLEAN, held : BOOLEAN, mode : {"running", "halted"},
           pc : 0..(Code - 1), armed : SUBSET Places,
           flash : [Banks -> Contents]]

-----------------------------------------------------------------------------
(* What an operation makes of the target: the states it may leave, none for   *)
(* one that cannot succeed.                                                 *)

OnBus(states)  == IF target.attached THEN states ELSE {}
OnCore(states) == IF target.held THEN {} ELSE OnBus(states)

Advanced == [target EXCEPT !.pc = (@ + 1) % Code]

Looked  == OnBus({target})
Stopped == OnCore({[target EXCEPT !.mode = "halted"]})

\* A core halted on an armed instruction may halt on it again.
Resumed ==
  OnCore({[target EXCEPT !.mode = "running"]}
         \cup IF target.mode = "halted" /\ target.pc \in target.armed
              THEN {target} ELSE {})
Stepped ==
  OnCore(IF target.mode = "running" THEN {[target EXCEPT !.mode = "halted"]}
         ELSE IF target.pc \in target.armed THEN {Advanced, target}
         ELSE {Advanced})

Armed(a) ==
  OnCore(IF a \in target.armed THEN {target}
         ELSE IF Cardinality(target.armed) < Units
              THEN {[target EXCEPT !.armed = @ \cup {a}]} ELSE {})
Cleared(a) ==
  OnCore(IF a \in target.armed THEN {[target EXCEPT !.armed = @ \ {a}]} ELSE {})

Restarted(mode) == OnCore({[target EXCEPT !.mode = mode, !.pc = 0]})
\* The flash algorithm runs on the core, which it leaves halted.
Flashed(contents, where) ==
  OnCore({[target EXCEPT !.mode = "halted",
             !.flash = [b \in Banks |-> IF b \in where THEN contents ELSE @[b]]]})

\* Bridge commands.  The core is in reset as long as the line is held.
Attached(yes)  == {[target EXCEPT !.attached = yes]}
ResetHeld(yes) ==
  {IF target.held = yes THEN target
   ELSE [target EXCEPT !.held = yes, !.mode = "running", !.pc = 0]}
ResetPulsed(attached) ==
  {[target EXCEPT !.held = FALSE, !.mode = "running", !.pc = 0,
      !.attached = attached]}
SwdioDriven == {[t EXCEPT !.attached = FALSE] : t \in ResetHeld(TRUE)}

\* A session that ends: the library may detach, and may clear what is armed.
Dropped ==
  LET kept == {target, [target EXCEPT !.attached = FALSE]}
  IN kept \cup IF OnCore({0}) = {} THEN {} ELSE {[t EXCEPT !.armed = {}] : t \in kept}

\* An operation is answered, or refused, or lost: before or after it took effect.
Outcomes(states) ==
  {[ok |-> TRUE, target |-> t, lost |-> 0] : t \in states}
  \cup (IF states = {} THEN {[ok |-> FALSE, target |-> target, lost |-> 0]} ELSE {})
  \cup (IF trouble = 0 THEN {}
        ELSE {[ok |-> FALSE, target |-> t, lost |-> 1] : t \in states \cup {target}})

Takes(o, who) ==
  /\ target' = o.target
  /\ trouble' = trouble - o.lost
  /\ alone' = [p \in DOMAIN alone |-> alone[p] /\ p = who]

\* The target runs; an armed instruction stops it.
Execute ==
  /\ target.mode = "running" /\ ~target.held
  /\ target' = [Advanced EXCEPT
       !.mode = IF (target.pc + 1) % Code \in target.armed THEN "halted" ELSE @]
  /\ UNCHANGED <<trouble, alone>>

CoreInit(attached, faults) ==
  /\ target = [attached |-> attached, held |-> FALSE, mode |-> "running", pc |-> 0,
               armed |-> {}, flash |-> [b \in Banks |-> "old"]]
  /\ trouble = faults
  /\ alone = [p \in {"server", "command"} |-> TRUE]

CoreTypeOK ==
  /\ target \in Target
  /\ trouble \in 0..MaxTrouble
  /\ alone \in [{"server", "command"} -> BOOLEAN]
=============================================================================
