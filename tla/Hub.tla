-------------------------------- MODULE Hub --------------------------------
(***************************************************************************)
(* The command engine of the firmware: struct Hub of esprobe-firmware,     *)
(* with the SwdLink and the pads it owns.                                  *)
(*                                                                         *)
(* Every bridge command runs to its end under the Hub mutex, so a command  *)
(* is one action; what the target, its power supply, its firmware and the  *)
(* probe's own reboots do happens between commands.  Calls of the ESP-IDF  *)
(* drivers (gpio_set_direction, uart_set_pin, uart reads) fail only on a   *)
(* pin or port that does not exist and are taken to succeed; everything    *)
(* that travels over SWD may fail at any transfer.                         *)
(*                                                                         *)
(* The variables diag, tainted, missed and evidence are history: no action *)
(* reads them except to maintain them.                                     *)
(***************************************************************************)
EXTENDS Integers

CONSTANTS
  RecoveryCycles, \* clocks Attach spends on an abandoned data phase
  DataPhase,      \* the longest data phase a target can be left in, in clocks
  CycleCounts,    \* the clock counts a RecoverLine request may name
  Disturbances    \* what the environment does beside answering

DisturbanceNames == {"power", "ownReset", "claim", "noise", "reboot"}

ASSUME HubAssumption ==
  /\ RecoveryCycles \in Nat
  /\ DataPhase \in Nat \ {0}
  /\ DataPhase <= RecoveryCycles
  /\ CycleCounts \subseteq Nat
  /\ Disturbances \subseteq DisturbanceNames

VARIABLES
  attached,   \* Hub.bridge_attached
  resetHeld,  \* Hub.reset_held, the intent the guard consults
  resetLow,   \* the reset pad is an output, driving low
  pads,       \* the SWD pads whose output driver is enabled
  engine,     \* EspSwdIo.engine
  selected,   \* SwdLink.selected
  cswWritten, \* SwdLink.csw_written
  target,     \* the chip at the other end
  last,       \* the reply to the latest command
  diag,       \* pads left driven by DiagnosticSwdio
  tainted,    \* raw traffic may have moved SELECT or CSW behind the cache
  missed,     \* the target dropped the data of a write the cache records
  evidence    \* proof of target power since the pads were last released

probe   == <<attached, resetHeld, resetLow, pads, engine, selected, cswWritten>>
history == <<diag, tainted, missed, evidence>>
vars    == <<probe, target, last, history>>

Both    == {"swdio", "swclk"}
Engines == {"hardware", "bitbang"}

MemoryCommands == {"MemoryRead", "Profile"}
RawReads       == {"ReadRegister", "ReadRegisterBlock"}
RawWrites      == {"WriteRegister", "WriteRegisterBlock"}
\* touches_target_bus of bridge_command
BusCommands    == MemoryCommands \cup RawReads \cup RawWrites \cup {"SwjSequence"}
\* Commands whose handlers leave the hub, the link and the pads alone: Hello
\* stands for Ping, PinMap, Echo, Capabilities, Wifi* and UartReceive as well.
Stateless == {"Hello", "Extension"}
WaveProbes == {"WireProbe", "ApWriteProbe", "SpiLoopback"}
\* Commands whose payload is checked before anything is touched.
Checked == BusCommands \cup {"Hello", "RecoveryProbe", "DiagnosticSwdio",
             "UartResetCapture", "SetSpeed", "RecoverLine", "ApWriteProbe",
             "SpiLoopback", "SetEngine", "SetPinMap"}
Commands == Checked \cup Stateless \cup WaveProbes \cup
            {"Attach", "AttachUnderReset", "PadSelfTest", "UartSend", "Detach",
             "LineState", "ResetLineState", "ResetAssert", "ResetRelease"}

Statuses == {"Ok", "NotAttached", "TargetInReset", "Unsupported",
             "LineHeldLow", "BadRequest", "BusError"}
Replies  == [cmd : Commands, status : Statuses,
             data : {"none", "live", "zeros", "wrong"}]
\* No command has been answered since the environment last moved.
Quiet == [cmd |-> "Hello", status |-> "Ok", data |-> "none"]

-----------------------------------------------------------------------------
(* The target: power, whether its debug port follows the line (synced),    *)
(* the registers the probe caches, its own reset, whether its firmware has *)
(* claimed SWDIO as a pin it drives low, and the clocks left of a read     *)
(* data phase it was abandoned in, with the bit it presents meanwhile.     *)

TargetState ==
  [power : BOOLEAN, synced : BOOLEAN, select : {"zero", "other"},
   csw : {"word", "other"}, ownReset : BOOLEAN, claimed : BOOLEAN,
   phase : 0..DataPhase, bit : BOOLEAN]

Unpowered == [power |-> FALSE, synced |-> FALSE, select |-> "other",
              csw |-> "other", ownReset |-> FALSE, claimed |-> FALSE,
              phase |-> 0, bit |-> FALSE]
PoweredUp == [Unpowered EXCEPT !.power = TRUE]

\* What sample_lines reads on the released SWDIO: the target's pull-up.
SwdioHigh(t) == t.power /\ ~t.claimed /\ (t.phase > 0 => t.bit)
\* reset.is_high(): nobody pulls the shared net down and the pull-up has power.
ResetIsHigh(t) == t.power /\ ~t.ownReset /\ ~resetLow
CoreInReset(t) == resetLow \/ t.ownReset
Answers(t) == t.power /\ t.synced /\ ~t.claimed /\ t.phase = 0

MayClaim == IF "claim" \in Disturbances THEN BOOLEAN ELSE {FALSE}
\* Left part-way through a data phase by a transfer that went wrong.
Abandoned(t) ==
  IF t.power /\ t.synced /\ "noise" \in Disturbances
  THEN {[t EXCEPT !.phase = left[1], !.bit = left[2]] :
          left \in (1..DataPhase) \X BOOLEAN}
  ELSE {}
Disturbed(t) == {t, [t EXCEPT !.phase = 0, !.bit = FALSE]} \cup Abandoned(t)
\* A reset pulse: the pins return to their reset function, until the target's
\* firmware, running again, takes SWDIO back.
Pulsed(t) ==
  IF t.power THEN {[t EXCEPT !.claimed = c] : c \in MayClaim} ELSE {t}
\* A count of clocks that runs below zero.
ClockedUnsaturated(t, n) == {[t EXCEPT !.phase = @ - n, !.bit = FALSE]}
\* n clocks with SWDIO released run an abandoned data phase out.
Clocked(t, n) ==
  IF t.phase <= n
  THEN {[t EXCEPT !.phase = 0, !.bit = FALSE]}
  ELSE {[t EXCEPT !.phase = @ - n, !.bit = b] : b \in BOOLEAN}
\* line_reset_and_switch: 136 clocks, more than any data phase, ending in a
\* line reset the debug port follows unless its pin is taken.
LineReset(t) ==
  IF ~t.power \/ t.claimed THEN {t}
  ELSE {[t EXCEPT !.phase = 0, !.bit = FALSE, !.synced = s] :
          s \in (IF t.phase = 0 THEN {TRUE} ELSE BOOLEAN)}
\* Diagnostic waveforms leave the debug port anywhere.
Scrambled(t) ==
  IF t.power
  THEN {[t EXCEPT !.synced = s[1], !.phase = s[2], !.bit = (s[2] > 0 /\ s[3])] :
          s \in BOOLEAN \X {0, DataPhase} \X BOOLEAN}
  ELSE {t}
\* initialize_prepared and the AP write probe write zero to SELECT on the way.
Selected(t) == IF t.synced THEN {t, [t EXCEPT !.select = "zero"]} ELSE {t}

-----------------------------------------------------------------------------
(* What the handlers are made of. *)

Reply(c, s)       == last' = [cmd |-> c, status |-> s, data |-> "none"]
ReplyData(c, d)   == last' = [cmd |-> c, status |-> "Ok", data |-> d]

\* Before the reset line was tracked as intent the guard sampled the pad.
HoldResetUnrecorded(held) == resetLow' = held /\ UNCHANGED resetHeld

\* Hub::hold_reset: set_low, then the direction, then the record of intent.
HoldReset(held) == resetLow' = held /\ resetHeld' = held
ResetUntouched  == UNCHANGED <<resetHeld, resetLow>>

\* A disconnect that forgets the link's cache but not the output drivers.
DisconnectKeepingPads ==
  /\ selected' = "none" /\ cswWritten' = FALSE
  /\ evidence' = "none" /\ tainted' = FALSE /\ missed' = FALSE
  /\ UNCHANGED <<pads, diag>>

\* SwdLink::disconnect: release both pads and forget the cache.
Disconnect ==
  /\ pads' = {} /\ selected' = "none" /\ cswWritten' = FALSE
  /\ diag' = FALSE /\ evidence' = "none"
  /\ tainted' = FALSE /\ missed' = FALSE

\* Hub::release_pads
ReleasePads == Disconnect /\ attached' = FALSE

\* line_reset_and_switch drives both pads and forgets the cache.
LinkUp(proof) ==
  /\ attached' = TRUE
  /\ pads' = Both /\ selected' = "none" /\ cswWritten' = FALSE
  /\ diag' = FALSE /\ evidence' = proof
  /\ tainted' = FALSE /\ missed' = FALSE

\* require_target_power and Attach: if released SWDIO is low while reset is
\* high, pulse reset once and look again.
PulseNeeded == ~SwdioHigh(target) /\ ResetIsHigh(target)
Coaxed      == IF PulseNeeded THEN Pulsed(target) ELSE {target}
ResetCoaxed == IF PulseNeeded THEN HoldReset(FALSE) ELSE ResetUntouched

\* The pads after a transfer that ended in a read, or that was refused: the
\* hardware engine leaves SWDIO an input until the next transfer begins.
PadsAfterRead == IF engine = "hardware" THEN {"swclk"} ELSE Both
PadsAfterRefusal == {PadsAfterRead, Both}

-----------------------------------------------------------------------------
(* bridge_command: what is refused before any handler runs. *)

Passes(c) == /\ c \in BusCommands => attached
             /\ c \in MemoryCommands => ~resetHeld

Refuse(c) ==
  /\ \/ /\ c \in BusCommands /\ ~attached
        /\ Reply(c, "NotAttached")
     \/ /\ c \in MemoryCommands /\ attached /\ resetHeld
        /\ Reply(c, "TargetInReset")
  /\ UNCHANGED <<probe, target, history>>

\* A payload the handler rejects before it touches anything.
RejectPayload(c) ==
  /\ c \in Checked /\ Passes(c)
  /\ Reply(c, "BadRequest")
  /\ UNCHANGED <<probe, target, history>>

\* WireProbe reads its payload only after it has released the pads.
RejectWireProbe ==
  /\ ReleasePads
  /\ Reply("WireProbe", "BadRequest")
  /\ UNCHANGED <<resetHeld, resetLow, engine, target>>

AnswerStateless(c) ==
  /\ c \in Stateless
  /\ Reply(c, IF c = "Extension" THEN "Unsupported" ELSE "Ok")
  /\ UNCHANGED <<probe, target, history>>

-----------------------------------------------------------------------------
(* Opening the link. *)

\* Attach before it gained recover_line: a low line is refused at once.
AttachWithoutRecovery ==
  /\ \E t \in Coaxed :
       \/ /\ SwdioHigh(t)
          /\ target' \in LineReset(t) /\ LinkUp("pullup")
          /\ diag' = FALSE /\ Reply("Attach", "Ok")
       \/ /\ ~SwdioHigh(t)
          /\ target' = t /\ ReleasePads /\ Reply("Attach", "LineHeldLow")
  /\ ResetCoaxed /\ UNCHANGED engine

Attach ==
  /\ \E p \in Coaxed :
       \E t \in (IF SwdioHigh(p) THEN {p} ELSE Clocked(p, RecoveryCycles)) :
         \/ /\ SwdioHigh(t)
            /\ target' \in LineReset(t)
            /\ LinkUp("pullup") /\ diag' = FALSE
            /\ Reply("Attach", "Ok")
         \/ /\ ~SwdioHigh(t)
            /\ target' = t
            /\ ReleasePads
            /\ Reply("Attach", "LineHeldLow")
  /\ ResetCoaxed
  /\ UNCHANGED engine

InReset(t) == [t EXCEPT !.claimed = FALSE]

\* Switched to SWD while reset is low, and again once it is released.
AttachUnderReset ==
  /\ \E a \in LineReset(InReset(target)) :
       \E b \in Pulsed(a) : target' \in LineReset(b)
  /\ HoldReset(FALSE)
  /\ LinkUp("forced") /\ diag' = FALSE
  /\ Reply("AttachUnderReset", "Ok")
  /\ UNCHANGED engine

\* The version that released reset only after the last fallible step.
RecoveryProbeEarlyReturn ==
  /\ \E a \in LineReset(InReset(target)) : \E b \in Pulsed(a) :
       \/ /\ Answers(b)
          /\ target' = [b EXCEPT !.select = "zero"]
          /\ HoldReset(FALSE) /\ Reply("RecoveryProbe", "Ok")
       \/ /\ target' = a
          /\ HoldReset(TRUE) /\ Reply("RecoveryProbe", "BusError")
  /\ ReleasePads
  /\ UNCHANGED engine

\* Everything fallible first; reset and pads are released on every path.
RecoveryProbe ==
  /\ \E a \in LineReset(InReset(target)) : \E b \in Pulsed(a) :
       \/ /\ Answers(b)
          /\ target' = [b EXCEPT !.select = "zero"]
          /\ Reply("RecoveryProbe", "Ok")
       \/ /\ \E u \in Selected(b) : target' \in Disturbed(u)
          /\ Reply("RecoveryProbe", "BusError")
  /\ HoldReset(FALSE)
  /\ ReleasePads
  /\ UNCHANGED engine

-----------------------------------------------------------------------------
(* Releasing the link, and the diagnostics that do so first. *)

Detach == ReleasePads /\ Reply("Detach", "Ok")
          /\ UNCHANGED <<resetHeld, resetLow, engine, target>>

LineState == ReleasePads /\ Reply("LineState", "Ok")
             /\ UNCHANGED <<resetHeld, resetLow, engine, target>>

SetPinMap == ReleasePads /\ Reply("SetPinMap", "Ok")
             /\ UNCHANGED <<resetHeld, resetLow, engine, target>>

SetEngine ==
  /\ engine' \in Engines
  /\ ReleasePads
  /\ Reply("SetEngine", "Ok")
  /\ UNCHANGED <<resetHeld, resetLow, target>>

RecoverLine ==
  /\ \E n \in CycleCounts : target' \in Clocked(target, n)
  /\ ReleasePads
  /\ Reply("RecoverLine", "Ok")
  /\ UNCHANGED <<resetHeld, resetLow, engine>>

WaveProbe(c) ==
  /\ c \in WaveProbes
  /\ \E t \in Scrambled(target) : target' \in Selected(t)
  /\ ReleasePads
  /\ Reply(c, "Ok")
  /\ UNCHANGED <<resetHeld, resetLow, engine>>

ResetLineState ==
  /\ target' \in Pulsed(target)
  /\ HoldReset(FALSE)
  /\ ReleasePads
  /\ Reply("ResetLineState", "Ok")
  /\ UNCHANGED engine

PadSelfTest ==
  /\ \E t \in {target} \cup Clocked(target, 1) : target' \in Pulsed(t)
  /\ HoldReset(FALSE)
  /\ ReleasePads
  /\ Reply("PadSelfTest", "Ok")
  /\ UNCHANGED engine

\* Leaves SWDIO driven and reset low, for a meter, until Detach.
DiagnosticSwdio ==
  /\ \E t \in {target} \cup Clocked(target, 1) : target' = InReset(t)
  /\ HoldReset(TRUE)
  /\ attached' = FALSE
  /\ pads' = Both /\ selected' = "none" /\ cswWritten' = FALSE
  /\ diag' = TRUE /\ evidence' = "none"
  /\ tainted' = FALSE /\ missed' = FALSE
  /\ Reply("DiagnosticSwdio", "Ok")
  /\ UNCHANGED engine

\* With the bit-bang engine the rate is measured with both outputs disabled.
SetSpeed ==
  /\ pads' = (IF engine = "bitbang" THEN {} ELSE pads)
  /\ diag' = (diag /\ engine # "bitbang")
  /\ Reply("SetSpeed", "Ok")
  /\ UNCHANGED <<attached, resetHeld, resetLow, engine, selected, cswWritten,
                 target, tainted, missed, evidence>>

\* Reset drives its own net and leaves the link as it was.
ResetAssert ==
  /\ HoldReset(TRUE)
  /\ target' = InReset(target)
  /\ Reply("ResetAssert", "Ok")
  /\ UNCHANGED <<attached, pads, engine, selected, cswWritten, history>>

ResetRelease ==
  /\ HoldReset(FALSE)
  /\ Reply("ResetRelease", "Ok")
  /\ UNCHANGED <<attached, pads, engine, selected, cswWritten, target, history>>

-----------------------------------------------------------------------------
(* The target's serial port. *)

\* An attached link counts as proof of target power; without one the pull-up
\* is sampled first.
UartSend ==
  \/ /\ attached
     /\ Reply("UartSend", "Ok")
     /\ UNCHANGED <<probe, target, history>>
  \/ /\ ~attached
     /\ \E t \in Coaxed :
          /\ target' = t
          /\ evidence' = (IF SwdioHigh(t) THEN "pullup" ELSE "none")
          /\ Reply("UartSend", IF SwdioHigh(t) THEN "Ok" ELSE "LineHeldLow")
     /\ ResetCoaxed
     /\ pads' = {} /\ selected' = "none" /\ cswWritten' = FALSE
     /\ diag' = FALSE /\ tainted' = FALSE /\ missed' = FALSE
     /\ UNCHANGED <<attached, engine>>

\* Drops the link and pulses reset, but leaves bridge_attached as it was.
UartResetCapture ==
  /\ target' \in Pulsed(target)
  /\ Disconnect
  /\ HoldReset(FALSE)
  /\ Reply("UartResetCapture", "Ok")
  /\ UNCHANGED <<attached, engine>>

-----------------------------------------------------------------------------
(* Commands that touch the target's bus. *)

RawRead(c) ==
  /\ c \in RawReads /\ Passes(c)
  /\ \/ /\ Answers(target)
        /\ pads' = PadsAfterRead /\ UNCHANGED target
        /\ Reply(c, "Ok")
     \/ /\ target' \in Disturbed(target)
        /\ pads' \in PadsAfterRefusal
        /\ Reply(c, "BusError")
  /\ UNCHANGED <<attached, resetHeld, resetLow, engine, selected, cswWritten,
                 history>>

\* A raw write may move SELECT or CSW; the link's cache is not told.
RawWrite(c) ==
  /\ c \in RawWrites /\ Passes(c)
  /\ \E s \in {"zero", "other"}, w \in {"word", "other"} :
       LET t == [target EXCEPT !.select = s, !.csw = w] IN
       /\ \/ /\ Answers(target)
             /\ target' = t /\ pads' = Both
             /\ Reply(c, "Ok")
          \/ /\ Answers(target)
             /\ target' \in Disturbed(t) /\ pads' \in PadsAfterRefusal
             /\ Reply(c, "BusError")
       /\ tainted' = (tainted \/ s # target.select \/ w # target.csw)
  /\ UNCHANGED <<attached, resetHeld, resetLow, engine, selected, cswWritten,
                 diag, missed, evidence>>

RawWriteUnanswered(c) ==
  /\ c \in RawWrites /\ Passes(c)
  /\ target' \in Disturbed(target)
  /\ pads' \in PadsAfterRefusal
  /\ Reply(c, "BusError")
  /\ UNCHANGED <<attached, resetHeld, resetLow, engine, selected, cswWritten,
                 history>>

\* Host-made bits, a line reset among them; the cache is not told either.
SwjSequence ==
  /\ Passes("SwjSequence")
  /\ target' \in Scrambled(target) \cup LineReset(target)
  /\ pads' = Both
  /\ tainted' = TRUE
  /\ Reply("SwjSequence", "Ok")
  /\ UNCHANGED <<attached, resetHeld, resetLow, engine, selected, cswWritten,
                 diag, missed, evidence>>

\* The target once select_bank_zero has written what the cache calls for.  In
\* another bank than zero the write meant for CSW falls on another register.
NeedsSelect == selected # "zero"
NeedsCsw    == NeedsSelect \/ ~cswWritten
WithSelect  == [target EXCEPT !.select = IF NeedsSelect THEN "zero" ELSE @]
CswArrives  == NeedsCsw /\ WithSelect.select = "zero"
WithCsw     == [WithSelect EXCEPT !.csw = IF CswArrives THEN "word" ELSE @]
ReadData(t) == IF CoreInReset(t) THEN "zeros"
               ELSE IF t.select = "zero" /\ t.csw = "word" THEN "live"
               ELSE "wrong"

\* The cache updated before the write it records is known to have arrived.
SelectRefusedEarlyUpdate ==
  /\ NeedsSelect
  /\ target' \in Disturbed(target) /\ selected' = "zero" /\ UNCHANGED cswWritten

SelectRefused ==
  /\ NeedsSelect
  /\ \E u \in Selected(target) : target' \in Disturbed(u)
  /\ UNCHANGED <<selected, cswWritten>>

CswRefused ==
  /\ NeedsCsw
  /\ NeedsSelect => Answers(target)
  /\ \E u \in {WithSelect} \cup {t \in {WithCsw} : Answers(target)} :
       target' \in Disturbed(u)
  /\ selected' = "zero" /\ cswWritten' = FALSE

\* TAR or a data transfer refused, the posted value never collected.
WordsRefused ==
  /\ NeedsCsw => Answers(target)
  /\ target' \in Disturbed(WithCsw)
  /\ selected' = "zero" /\ cswWritten' = TRUE

\* The target acknowledges a write and then drops its data for parity.  The
\* link has recorded the write by then; the target faults the next transfer,
\* so this command is refused and the record outlives it.
DataDropped(write) ==
  /\ "noise" \in Disturbances /\ Answers(target)
  /\ selected' = "zero"
  /\ \/ /\ write = "SELECT" /\ NeedsSelect
        /\ target' \in Disturbed(target) /\ cswWritten' = FALSE
     \/ /\ write = "CSW" /\ NeedsCsw
        /\ target' \in Disturbed(WithSelect) /\ cswWritten' = TRUE

WordsRead ==
  /\ Answers(target)
  /\ target' = WithCsw
  /\ selected' = "zero" /\ cswWritten' = TRUE

\* read_words: bank and CSW if the cache says they are needed, then TAR and a
\* posted block per span.  Profile runs it and returns only timings.
ReadMemory(c) ==
  /\ c \in MemoryCommands /\ Passes(c)
  /\ \/ /\ \/ /\ SelectRefused \/ CswRefused \/ WordsRefused
              /\ UNCHANGED missed
           \/ /\ \E write \in {"SELECT", "CSW"} : DataDropped(write)
              /\ missed' = TRUE
        /\ pads' \in PadsAfterRefusal
        /\ Reply(c, "BusError")
     \/ /\ WordsRead
        /\ pads' = PadsAfterRead
        /\ ReplyData(c, IF c = "MemoryRead" THEN ReadData(WithCsw) ELSE "none")
        /\ UNCHANGED missed
  /\ tainted' = (tainted /\ ~(NeedsSelect /\ cswWritten'))
  /\ UNCHANGED <<attached, resetHeld, resetLow, engine, diag, evidence>>

-----------------------------------------------------------------------------
(* The environment. *)

Env(d) == /\ d \in Disturbances
          /\ last' = Quiet

SwitchPower ==
  /\ Env("power")
  /\ target' = (IF target.power THEN Unpowered ELSE PoweredUp)
  /\ UNCHANGED <<probe, history>>

TargetResetsItself ==
  /\ Env("ownReset") /\ target.power
  /\ target' = [target EXCEPT !.ownReset = ~@, !.claimed = FALSE]
  /\ UNCHANGED <<probe, history>>

\* The target's firmware takes SWDIO as an ordinary pin and drives it low.
ClaimSwdio ==
  /\ Env("claim") /\ target.power /\ ~CoreInReset(target) /\ ~target.claimed
  /\ target' = [target EXCEPT !.claimed = TRUE]
  /\ UNCHANGED <<probe, history>>

\* The ESP32 restarts, at worst in the middle of a read: every pad an input,
\* reset released, the default engine.
Reboot ==
  /\ Env("reboot")
  /\ attached' = FALSE /\ resetHeld' = FALSE /\ resetLow' = FALSE
  /\ engine' = "hardware"
  /\ Disconnect
  /\ target' \in {target} \cup (IF attached THEN Abandoned(target) ELSE {})

Init ==
  /\ attached = FALSE /\ resetHeld = FALSE /\ resetLow = FALSE
  /\ pads = {} /\ engine = "hardware"
  /\ selected = "none" /\ cswWritten = FALSE
  /\ target \in {Unpowered, PoweredUp}
  /\ last = Quiet
  /\ diag = FALSE /\ tainted = FALSE /\ missed = FALSE /\ evidence = "none"

Command ==
  \/ \E c \in Commands :
       \/ Refuse(c) \/ RejectPayload(c) \/ AnswerStateless(c) \/ WaveProbe(c)
       \/ RawRead(c) \/ RawWrite(c) \/ RawWriteUnanswered(c) \/ ReadMemory(c)
  \/ RejectWireProbe \/ Attach \/ AttachUnderReset \/ RecoveryProbe
  \/ Detach \/ LineState \/ SetPinMap \/ SetEngine \/ RecoverLine
  \/ ResetLineState \/ PadSelfTest \/ DiagnosticSwdio \/ SetSpeed
  \/ ResetAssert \/ ResetRelease \/ UartSend \/ UartResetCapture \/ SwjSequence

Environment == SwitchPower \/ TargetResetsItself \/ ClaimSwdio \/ Reboot

Next == Command \/ Environment

Spec == Init /\ [][Next]_vars

-----------------------------------------------------------------------------
(* What the hub promises. *)

\* Every variable keeps its type.
TypeOK ==
  /\ attached \in BOOLEAN /\ resetHeld \in BOOLEAN /\ resetLow \in BOOLEAN
  /\ pads \in SUBSET Both
  /\ engine \in Engines
  /\ selected \in {"none", "zero"} /\ cswWritten \in BOOLEAN
  /\ target \in TargetState
  /\ last \in Replies
  /\ diag \in BOOLEAN /\ tainted \in BOOLEAN /\ missed \in BOOLEAN
  /\ evidence \in {"none", "pullup", "forced"}

\* With no debug link the SWD pads float, whatever command ended the link and
\* however it failed; only DiagnosticSwdio, on purpose, leaves them driven.
IdlePadsReleased == ~attached /\ ~diag => pads = {}

\* A MemoryRead that succeeds never returns the zeros of a core this probe is
\* holding in reset: the intent bridge_command consults is never out of step
\* with the pad, across every command that asserts, pulses or releases reset.
NoBlankRead == last.data = "zeros" => ~resetLow /\ target.ownReset

\* What the link believes it wrote to SELECT and CSW is what the target holds,
\* through refused writes, power cycles and re-attaches.  It is not after raw
\* traffic past the cache, nor after a write the target acknowledged and then
\* dropped, until the link forgets: the code protects against neither.
CacheCoherent ==
  target.synced /\ ~tainted /\ ~missed =>
    /\ selected = "zero" => target.select = "zero"
    /\ cswWritten => selected = "zero" /\ target.csw = "word"

\* So a successful MemoryRead reads the address space it was asked for, on its
\* first attempt or retried after any refusal but that of a dropped write.
LiveWords == last.data = "wrong" => tainted \/ missed

ResetCyclers == {"AttachUnderReset", "PadSelfTest", "RecoveryProbe",
                 "ResetLineState", "UartResetCapture", "ResetRelease"}

\* Reset stays asserted only because ResetAssert or DiagnosticSwdio asserted
\* it: a command that cycles reset leaves it released on every path.
HoldIsDeliberate ==
  [][resetLow' => \/ last'.cmd \in {"ResetAssert", "DiagnosticSwdio"}
                  \/ /\ resetLow
                     /\ \/ last'.cmd \notin ResetCyclers
                        \/ last'.status = "BadRequest"]_vars

\* Attach reports a held-low line only for a target without power or whose
\* firmware took SWDIO back: an abandoned data phase is always run out first.
HeldLowIsHonest ==
  [][last'.cmd = "Attach" /\ last'.status = "LineHeldLow"
       => ~target.power \/ target'.claimed]_vars

\* uart-send drives the line only when released SWDIO has proved power
\* (esprobe-firmware/README.md, uart-send).
UartSendIsProven ==
  last.cmd = "UartSend" /\ last.status = "Ok" => evidence = "pullup"

\* While something is attached there is a debug link that a power check would
\* tear down (the comment in UartSend).
AttachedLinkIsLive == attached => evidence # "none"
=============================================================================
