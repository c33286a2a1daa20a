----------------------------- MODULE HubProofs -----------------------------
(* Theorems about the command engine of module Hub, for every recovery      *)
(* length, data phase and set of disturbances HubAssumption admits.         *)
EXTENDS Hub, TLAPS

-----------------------------------------------------------------------------
(* What the transformers of the target keep. *)

\* The registers the probe caches, and whether the port follows the line.
SameRegisters(t, u) ==
  u.select = t.select /\ u.csw = t.csw /\ u.synced = t.synced

\* Clocks and failed transfers keep a target well formed and do not write its
\* registers (Clocked, Disturbed: swd.rs recover_line and transfer).
LEMMA DisturbedKeeps ==
  ASSUME NEW t \in TargetState, NEW u \in Disturbed(t)
  PROVE  u \in TargetState /\ SameRegisters(t, u) /\ u.ownReset = t.ownReset
<1>1. CASE u = t
  BY <1>1 DEF SameRegisters
<1>2. CASE u = [t EXCEPT !.phase = 0, !.bit = FALSE]
  <2>1. 0 \in 0..DataPhase
    BY HubAssumption
  <2>2. QED
    BY <1>2, <2>1 DEF SameRegisters, TargetState
<1>3. CASE u \in Abandoned(t)
  <2>1. PICK left \in (1..DataPhase) \X BOOLEAN :
          u = [t EXCEPT !.phase = left[1], !.bit = left[2]]
    BY <1>3 DEF Abandoned
  <2>2. left[1] \in 0..DataPhase /\ left[2] \in BOOLEAN
    BY HubAssumption
  <2>3. QED
    BY <2>1, <2>2 DEF SameRegisters, TargetState
<1>4. QED
  BY <1>1, <1>2, <1>3 DEF Disturbed

\* Spare clocks (swd.rs recover_line) write no register of the target.
LEMMA ClockedKeeps ==
  ASSUME NEW t \in TargetState, NEW n \in Nat, NEW u \in Clocked(t, n)
  PROVE  u \in TargetState /\ SameRegisters(t, u)
<1>1. CASE t.phase <= n
  <2>1. u = [t EXCEPT !.phase = 0, !.bit = FALSE]
    BY <1>1 DEF Clocked
  <2>2. 0 \in 0..DataPhase
    BY HubAssumption
  <2>3. QED
    BY <2>1, <2>2 DEF SameRegisters, TargetState
<1>2. CASE ~(t.phase <= n)
  <2>1. PICK b \in BOOLEAN : u = [t EXCEPT !.phase = @ - n, !.bit = b]
    BY <1>2 DEF Clocked
  <2>2. t.phase \in 0..DataPhase
    BY DEF TargetState
  <2>3. t.phase - n \in 0..DataPhase
    BY <1>2, <2>2, HubAssumption
  <2>4. QED
    BY <2>1, <2>3 DEF SameRegisters, TargetState
<1>3. QED
  BY <1>1, <1>2

\* Nor does a reset pulse (pulse_reset_low_release): the debug port survives it.
LEMMA PulsedKeeps ==
  ASSUME NEW t \in TargetState, NEW u \in Pulsed(t)
  PROVE  u \in TargetState /\ SameRegisters(t, u)
BY DEF Pulsed, MayClaim, SameRegisters, TargetState

\* A reset pulse neither powers a target nor takes its power away.
LEMMA PulsedPower ==
  ASSUME NEW t \in TargetState, NEW u \in Pulsed(t)
  PROVE  u.power = t.power
BY DEF Pulsed, MayClaim, TargetState

\* A line reset (line_reset_and_switch) leaves a well-formed target.
LEMMA LineResetKeeps ==
  ASSUME NEW t \in TargetState, NEW u \in LineReset(t)
  PROVE  u \in TargetState
<1>1. CASE ~t.power \/ t.claimed
  BY <1>1 DEF LineReset
<1>2. CASE ~(~t.power \/ t.claimed)
  <2>1. PICK s \in BOOLEAN :
          u = [t EXCEPT !.phase = 0, !.bit = FALSE, !.synced = s]
    BY <1>2 DEF LineReset
  <2>2. 0 \in 0..DataPhase
    BY HubAssumption
  <2>3. QED
    BY <2>1, <2>2 DEF TargetState
<1>3. QED
  BY <1>1, <1>2

\* So do the wire probes, wherever they leave the debug port.
LEMMA ScrambledKeeps ==
  ASSUME NEW t \in TargetState, NEW u \in Scrambled(t)
  PROVE  u \in TargetState
<1>1. CASE ~t.power
  BY <1>1 DEF Scrambled
<1>2. CASE t.power
  <2>1. PICK s \in BOOLEAN \X {0, DataPhase} \X BOOLEAN :
          u = [t EXCEPT !.synced = s[1], !.phase = s[2],
                        !.bit = (s[2] > 0 /\ s[3])]
    BY <1>2 DEF Scrambled
  <2>2. s[1] \in BOOLEAN /\ s[2] \in 0..DataPhase
    BY HubAssumption
  <2>3. (s[2] > 0 /\ s[3]) \in BOOLEAN
    OBVIOUS
  <2>4. QED
    BY <2>1, <2>2, <2>3 DEF TargetState
<1>3. QED
  BY <1>1, <1>2

\* Writing zero to SELECT moves SELECT at most, and only to zero.
LEMMA SelectedKeeps ==
  ASSUME NEW t \in TargetState, NEW u \in Selected(t)
  PROVE  /\ u \in TargetState
         /\ u.csw = t.csw /\ u.synced = t.synced
         /\ u.select = t.select \/ u.select = "zero"
BY DEF Selected, TargetState

\* What a power switch leaves is a well-formed target.
LEMMA ConstantTargets == Unpowered \in TargetState /\ PoweredUp \in TargetState
<1>1. 0 \in 0..DataPhase
  BY HubAssumption
<1>2. QED
  BY <1>1 DEF Unpowered, PoweredUp, TargetState

\* Asserting reset takes the pins from the target's firmware and nothing else.
LEMMA InResetKeeps ==
  ASSUME NEW t \in TargetState
  PROVE  InReset(t) \in TargetState /\ SameRegisters(t, InReset(t))
BY DEF InReset, SameRegisters, TargetState

\* require_target_power, with its pulse or without, leaves a well-formed target.
LEMMA CoaxedKeeps ==
  ASSUME target \in TargetState, NEW t \in Coaxed
  PROVE  t \in TargetState
BY PulsedKeeps DEF Coaxed

\* The pulses that reopen a target under reset: line reset, release, line reset.
LEMMA ReopenedKeeps ==
  ASSUME target \in TargetState,
         NEW a \in LineReset(InReset(target)), NEW b \in Pulsed(a)
  PROVE  a \in TargetState /\ b \in TargetState
BY InResetKeeps, LineResetKeeps, PulsedKeeps

-----------------------------------------------------------------------------
(* The inductive invariant. *)

\* The intent bridge_command consults is the state of the pad.
HoldTracked == resetHeld = resetLow

\* A link that knows CSW knows SELECT (SwdLink::select_bank_zero).
CacheOrdered == cswWritten => selected = "zero"

IInv == /\ TypeOK /\ HoldTracked /\ CacheOrdered
        /\ IdlePadsReleased /\ NoBlankRead /\ CacheCoherent /\ LiveWords

\* A reply that carries no words is of the right form.
LEMMA ReplyPlain ==
  ASSUME NEW c \in Commands, NEW s \in Statuses, Reply(c, s)
  PROVE  last' \in Replies /\ last'.data = "none"
BY DEF Reply, Replies

\* The state before any command has been answered counts as such a reply.
LEMMA QuietPlain == Quiet \in Replies /\ Quiet.data = "none"
BY DEF Quiet, Replies, Commands, Stateless, Statuses

\* A probe that has just booted (run) satisfies the invariant.
LEMMA InitInvariant == Init => IInv
<1>1. SUFFICES ASSUME Init PROVE IInv
  OBVIOUS
<1>2. TypeOK
  BY <1>1, ConstantTargets, QuietPlain DEF Init, TypeOK, Engines
<1>3. HoldTracked /\ CacheOrdered /\ IdlePadsReleased /\ CacheCoherent
  BY <1>1 DEF Init, HoldTracked, CacheOrdered, IdlePadsReleased, CacheCoherent
<1>4. NoBlankRead /\ LiveWords
  BY <1>1, QuietPlain DEF Init, NoBlankRead, LiveWords
<1>5. QED
  BY <1>2, <1>3, <1>4 DEF IInv

\* A step that answers without data, keeps intent and pad together, and ends
\* with the pads floating unless a link or a diagnostic owns them.
PlainStep ==
  /\ attached' \in BOOLEAN /\ resetLow' \in BOOLEAN /\ HoldTracked'
  /\ pads' \in SUBSET Both /\ engine' \in Engines
  /\ target' \in TargetState
  /\ last' \in Replies /\ last'.data = "none"
  /\ diag' \in BOOLEAN /\ evidence' \in {"none", "pullup", "forced"}
  /\ attached' \/ diag' \/ pads' = {}

\* A step after which the link remembers nothing keeps the invariant, whatever
\* it did to the target.
LEMMA ForgetfulStep ==
  ASSUME PlainStep, tainted' \in BOOLEAN, missed' \in BOOLEAN,
         selected' = "none", cswWritten' = FALSE
  PROVE  IInv'
<1>1. TypeOK'
  BY DEF PlainStep, HoldTracked, TypeOK
<1>2. HoldTracked' /\ CacheOrdered' /\ IdlePadsReleased' /\ CacheCoherent'
  BY DEF PlainStep, CacheOrdered, IdlePadsReleased, CacheCoherent
<1>3. NoBlankRead' /\ LiveWords'
  BY DEF PlainStep, NoBlankRead, LiveWords
<1>4. QED
  BY <1>1, <1>2, <1>3 DEF IInv

\* So does one that keeps the cache, if the registers stay as they were, the
\* target lost the link, or the cache is marked as bypassed.
LEMMA CachedStep ==
  ASSUME IInv, PlainStep, tainted' \in BOOLEAN, tainted => tainted',
         UNCHANGED <<selected, cswWritten, missed>>,
         tainted' \/ ~target'.synced \/ SameRegisters(target, target')
  PROVE  IInv'
<1>1. TypeOK'
  BY DEF IInv, PlainStep, HoldTracked, TypeOK
<1>2. HoldTracked' /\ CacheOrdered' /\ IdlePadsReleased'
  BY DEF IInv, PlainStep, CacheOrdered, IdlePadsReleased
<1>3. CacheCoherent'
  BY DEF IInv, CacheCoherent, SameRegisters
<1>4. NoBlankRead' /\ LiveWords'
  BY DEF PlainStep, NoBlankRead, LiveWords
<1>5. QED
  BY <1>1, <1>2, <1>3, <1>4 DEF IInv

-----------------------------------------------------------------------------
(* One lemma per family of actions. *)

ResetDriven == ResetUntouched \/ HoldReset(FALSE) \/ HoldReset(TRUE)

\* hold_reset, or leaving reset alone, keeps the intent equal to the pad.
LEMMA ResetTracked ==
  ASSUME IInv, ResetDriven
  PROVE  resetLow' \in BOOLEAN /\ HoldTracked'
BY DEF IInv, TypeOK, HoldTracked, ResetDriven, ResetUntouched, HoldReset

\* Commands that end by releasing the pads.
LEMMA ReleaseStep ==
  ASSUME IInv, ReleasePads, ResetDriven, engine' \in Engines,
         target' \in TargetState,
         last' \in Replies, last'.data = "none"
  PROVE  IInv'
<1>1. PlainStep
  BY ResetTracked DEF ReleasePads, Disconnect, PlainStep
<1>2. /\ tainted' \in BOOLEAN /\ missed' \in BOOLEAN
      /\ selected' = "none" /\ cswWritten' = FALSE
  BY DEF ReleasePads, Disconnect
<1>3. QED
  BY <1>1, <1>2, ForgetfulStep

\* Commands that end with a fresh link.
LEMMA LinkStep ==
  ASSUME IInv, LinkUp("pullup") \/ LinkUp("forced"), ResetDriven,
         engine' \in Engines, target' \in TargetState,
         last' \in Replies, last'.data = "none"
  PROVE  IInv'
<1>1. PlainStep
  BY ResetTracked DEF LinkUp, PlainStep, Both
<1>2. /\ tainted' \in BOOLEAN /\ missed' \in BOOLEAN
      /\ selected' = "none" /\ cswWritten' = FALSE
  BY DEF LinkUp
<1>3. QED
  BY <1>1, <1>2, ForgetfulStep

\* The commands and statuses the handlers name are among the hub's.
LEMMA Named ==
  /\ Statuses = {"Ok", "NotAttached", "TargetInReset", "Unsupported",
                 "LineHeldLow", "BadRequest", "BusError"}
  /\ Checked \cup Stateless \cup WaveProbes \subseteq Commands
  /\ {"Attach", "AttachUnderReset", "PadSelfTest", "UartSend", "Detach",
      "LineState", "ResetLineState", "ResetAssert", "ResetRelease",
      "WireProbe", "RecoveryProbe", "DiagnosticSwdio", "UartResetCapture",
      "SetSpeed", "RecoverLine", "SetEngine", "SetPinMap",
      "SwjSequence"} \subseteq Commands
BY DEF Statuses, Commands, Checked, BusCommands, WaveProbes

\* Commands refused, rejected or answered before anything is touched.
LEMMA UntouchedStep ==
  ASSUME IInv, UNCHANGED <<probe, target, history>>,
         last' \in Replies, last'.data = "none"
  PROVE  IInv'
<1>1. PlainStep
  BY DEF IInv, TypeOK, HoldTracked, IdlePadsReleased, PlainStep, probe, history
<1>2. /\ tainted' \in BOOLEAN /\ (tainted => tainted')
      /\ UNCHANGED <<selected, cswWritten, missed>>
      /\ SameRegisters(target, target')
  BY DEF IInv, TypeOK, probe, history, SameRegisters
<1>3. QED
  BY <1>1, <1>2, CachedStep

LEMMA AnsweredUntouched ==
  ASSUME IInv, NEW c \in Commands,
         Refuse(c) \/ RejectPayload(c) \/ AnswerStateless(c)
  PROVE  IInv'
<1>1. UNCHANGED <<probe, target, history>>
  BY DEF Refuse, RejectPayload, AnswerStateless
<1>2. \E s \in Statuses : Reply(c, s)
  BY Named DEF Refuse, RejectPayload, AnswerStateless
<1>3. last' \in Replies /\ last'.data = "none"
  BY <1>2, ReplyPlain
<1>4. QED
  BY <1>1, <1>3, UntouchedStep

\* Attach, whichever way it finds the line.
LEMMA AttachStep ==
  ASSUME IInv, Attach
  PROVE  IInv'
<1>1. PICK p \in Coaxed :
        \E t \in (IF SwdioHigh(p) THEN {p} ELSE Clocked(p, RecoveryCycles)) :
          \/ target' \in LineReset(t) /\ LinkUp("pullup") /\ Reply("Attach", "Ok")
          \/ target' = t /\ ReleasePads /\ Reply("Attach", "LineHeldLow")
  BY DEF Attach
<1>2. PICK t \in (IF SwdioHigh(p) THEN {p} ELSE Clocked(p, RecoveryCycles)) :
          \/ target' \in LineReset(t) /\ LinkUp("pullup") /\ Reply("Attach", "Ok")
          \/ target' = t /\ ReleasePads /\ Reply("Attach", "LineHeldLow")
  BY <1>1
<1>3. p \in TargetState
  BY CoaxedKeeps DEF IInv, TypeOK
<1>4. t \in TargetState
  BY <1>2, <1>3, ClockedKeeps, HubAssumption
<1>5. ResetDriven /\ engine' \in Engines
  BY DEF Attach, ResetCoaxed, ResetDriven, IInv, TypeOK
<1>6. CASE target' \in LineReset(t) /\ LinkUp("pullup") /\ Reply("Attach", "Ok")
  <2>1. target' \in TargetState
    BY <1>4, <1>6, LineResetKeeps
  <2>2. last' \in Replies /\ last'.data = "none"
    BY <1>6, Named, ReplyPlain
  <2>3. QED
    BY <1>5, <1>6, <2>1, <2>2, LinkStep
<1>7. CASE target' = t /\ ReleasePads /\ Reply("Attach", "LineHeldLow")
  <2>1. last' \in Replies /\ last'.data = "none"
    BY <1>7, Named, ReplyPlain
  <2>2. QED
    BY <1>4, <1>5, <1>7, <2>1, ReleaseStep
<1>8. QED
  BY <1>2, <1>6, <1>7

\* AttachUnderReset, which switches the port twice.
LEMMA AttachUnderResetStep ==
  ASSUME IInv, AttachUnderReset
  PROVE  IInv'
<1>1. PICK a \in LineReset(InReset(target)) :
        \E b \in Pulsed(a) : target' \in LineReset(b)
  BY DEF AttachUnderReset
<1>2. PICK b \in Pulsed(a) : target' \in LineReset(b)
  BY <1>1
<1>3. b \in TargetState
  BY ReopenedKeeps DEF IInv, TypeOK
<1>4. target' \in TargetState
  BY <1>2, <1>3, LineResetKeeps
<1>5. last' \in Replies /\ last'.data = "none"
  BY Named, ReplyPlain DEF AttachUnderReset
<1>6. ResetDriven /\ engine' \in Engines /\ LinkUp("forced")
  BY DEF AttachUnderReset, ResetDriven, IInv, TypeOK
<1>7. QED
  BY <1>4, <1>5, <1>6, LinkStep

\* RecoveryProbe, its failing path included.
LEMMA RecoveryProbeStep ==
  ASSUME IInv, RecoveryProbe
  PROVE  IInv'
<1>1. PICK a \in LineReset(InReset(target)) : \E b \in Pulsed(a) :
        \/ /\ target' = [b EXCEPT !.select = "zero"]
           /\ Reply("RecoveryProbe", "Ok")
        \/ /\ \E u \in Selected(b) : target' \in Disturbed(u)
           /\ Reply("RecoveryProbe", "BusError")
  BY DEF RecoveryProbe
<1>2. PICK b \in Pulsed(a) :
        \/ /\ target' = [b EXCEPT !.select = "zero"]
           /\ Reply("RecoveryProbe", "Ok")
        \/ /\ \E u \in Selected(b) : target' \in Disturbed(u)
           /\ Reply("RecoveryProbe", "BusError")
  BY <1>1
<1>3. b \in TargetState
  BY ReopenedKeeps DEF IInv, TypeOK
<1>4. target' \in TargetState
  <2>1. [b EXCEPT !.select = "zero"] \in TargetState
    BY <1>3 DEF TargetState
  <2>2. ASSUME NEW u \in Selected(b), target' \in Disturbed(u)
        PROVE  target' \in TargetState
    BY <1>3, <2>2, SelectedKeeps, DisturbedKeeps
  <2>3. QED
    BY <1>2, <2>1, <2>2
<1>5. last' \in Replies /\ last'.data = "none"
  BY <1>2, Named, ReplyPlain
<1>6. ResetDriven /\ engine' \in Engines /\ ReleasePads
  BY DEF RecoveryProbe, ResetDriven, IInv, TypeOK
<1>7. QED
  BY <1>4, <1>5, <1>6, ReleaseStep

\* Commands that leave the target alone and release the pads.
LEMMA DetachedStep ==
  ASSUME IInv,
         Detach \/ LineState \/ SetPinMap \/ SetEngine \/ RejectWireProbe
  PROVE  IInv'
<1>1. ReleasePads /\ ResetDriven /\ engine' \in Engines
  BY DEF Detach, LineState, SetPinMap, SetEngine, RejectWireProbe, ResetDriven,
         ResetUntouched, IInv, TypeOK
<1>2. target' \in TargetState
  BY DEF Detach, LineState, SetPinMap, SetEngine, RejectWireProbe, IInv, TypeOK
<1>3. last' \in Replies /\ last'.data = "none"
  BY Named, ReplyPlain
     DEF Detach, LineState, SetPinMap, SetEngine, RejectWireProbe
<1>4. QED
  BY <1>1, <1>2, <1>3, ReleaseStep

\* RecoverLine, for any count of clocks.
LEMMA RecoverLineStep ==
  ASSUME IInv, RecoverLine
  PROVE  IInv'
<1>1. target' \in TargetState
  BY ClockedKeeps, HubAssumption DEF RecoverLine, IInv, TypeOK
<1>2. last' \in Replies /\ last'.data = "none"
  BY Named, ReplyPlain DEF RecoverLine
<1>3. ReleasePads /\ ResetDriven /\ engine' \in Engines
  BY DEF RecoverLine, ResetDriven, ResetUntouched, IInv, TypeOK
<1>4. QED
  BY <1>1, <1>2, <1>3, ReleaseStep

\* WireProbe, ApWriteProbe and SpiLoopback.
LEMMA WaveProbeStep ==
  ASSUME IInv, NEW c \in Commands, WaveProbe(c)
  PROVE  IInv'
<1>1. target' \in TargetState
  BY ScrambledKeeps, SelectedKeeps DEF WaveProbe, IInv, TypeOK
<1>2. last' \in Replies /\ last'.data = "none"
  BY Named, ReplyPlain DEF WaveProbe
<1>3. ReleasePads /\ ResetDriven /\ engine' \in Engines
  BY DEF WaveProbe, ResetDriven, ResetUntouched, IInv, TypeOK
<1>4. QED
  BY <1>1, <1>2, <1>3, ReleaseStep

\* The two diagnostics that pulse reset.
LEMMA ResetCycleStep ==
  ASSUME IInv, ResetLineState \/ PadSelfTest
  PROVE  IInv'
<1>1. target' \in TargetState
  BY PulsedKeeps, ClockedKeeps DEF ResetLineState, PadSelfTest, IInv, TypeOK
<1>2. last' \in Replies /\ last'.data = "none"
  BY Named, ReplyPlain DEF ResetLineState, PadSelfTest
<1>3. ReleasePads /\ ResetDriven /\ engine' \in Engines
  BY DEF ResetLineState, PadSelfTest, ResetDriven, IInv, TypeOK
<1>4. QED
  BY <1>1, <1>2, <1>3, ReleaseStep

\* DiagnosticSwdio, which leaves pads driven and reset held on purpose.
LEMMA DiagnosticSwdioStep ==
  ASSUME IInv, DiagnosticSwdio
  PROVE  IInv'
<1>1. target' \in TargetState
  BY ClockedKeeps, InResetKeeps DEF DiagnosticSwdio, IInv, TypeOK
<1>2. last' \in Replies /\ last'.data = "none"
  BY Named, ReplyPlain DEF DiagnosticSwdio
<1>3. ResetDriven
  BY DEF DiagnosticSwdio, ResetDriven
<1>4. PlainStep
  BY <1>1, <1>2, <1>3, ResetTracked
     DEF DiagnosticSwdio, PlainStep, Both, IInv, TypeOK
<1>5. QED
  BY <1>4, ForgetfulStep DEF DiagnosticSwdio

\* UartSend, with an attachment and without.
LEMMA UartSendStep ==
  ASSUME IInv, UartSend
  PROVE  IInv'
<1>1. last' \in Replies /\ last'.data = "none"
  BY Named, ReplyPlain DEF UartSend
<1>2. CASE attached
  BY <1>1, <1>2, UntouchedStep DEF UartSend
<1>3. CASE ~attached
  <2>1. target' \in TargetState
    BY <1>3, CoaxedKeeps DEF UartSend, IInv, TypeOK
  <2>2. ResetDriven
    BY <1>3 DEF UartSend, ResetCoaxed, ResetDriven
  <2>3. PlainStep
    BY <1>1, <1>3, <2>1, <2>2, ResetTracked DEF UartSend, PlainStep, IInv, TypeOK
  <2>4. QED
    BY <1>3, <2>3, ForgetfulStep DEF UartSend
<1>4. QED
  BY <1>2, <1>3 DEF IInv, TypeOK

\* UartResetCapture, which drops the link but not the attachment.
LEMMA UartResetCaptureStep ==
  ASSUME IInv, UartResetCapture
  PROVE  IInv'
<1>1. target' \in TargetState
  BY PulsedKeeps DEF UartResetCapture, IInv, TypeOK
<1>2. last' \in Replies /\ last'.data = "none"
  BY Named, ReplyPlain DEF UartResetCapture
<1>3. ResetDriven
  BY DEF UartResetCapture, ResetDriven
<1>4. PlainStep
  BY <1>1, <1>2, <1>3, ResetTracked
     DEF UartResetCapture, Disconnect, PlainStep, IInv, TypeOK
<1>5. QED
  BY <1>4, ForgetfulStep DEF UartResetCapture, Disconnect

\* ResetAssert and ResetRelease.
LEMMA ResetLineStep ==
  ASSUME IInv, ResetAssert \/ ResetRelease
  PROVE  IInv'
<1>1. target' \in TargetState /\ SameRegisters(target, target')
  BY InResetKeeps DEF ResetAssert, ResetRelease, SameRegisters, IInv, TypeOK
<1>2. last' \in Replies /\ last'.data = "none"
  BY Named, ReplyPlain DEF ResetAssert, ResetRelease
<1>3. ResetDriven
  BY DEF ResetAssert, ResetRelease, ResetDriven
<1>4. PlainStep
  BY <1>1, <1>2, <1>3, ResetTracked DEF ResetAssert, ResetRelease, PlainStep,
     history, IInv, TypeOK, IdlePadsReleased
<1>5. /\ tainted' \in BOOLEAN /\ (tainted => tainted')
      /\ UNCHANGED <<selected, cswWritten, missed>>
  BY DEF ResetAssert, ResetRelease, history, IInv, TypeOK
<1>6. QED
  BY <1>1, <1>4, <1>5, CachedStep

\* SetSpeed, which may release the pads of an attached link.
LEMMA SetSpeedStep ==
  ASSUME IInv, SetSpeed
  PROVE  IInv'
<1>1. last' \in Replies /\ last'.data = "none"
  BY Named, ReplyPlain DEF SetSpeed
<1>2. pads' \in SUBSET Both /\ (attached' \/ diag' \/ pads' = {})
  BY DEF SetSpeed, IInv, TypeOK, IdlePadsReleased
<1>3. PlainStep
  BY <1>1, <1>2 DEF SetSpeed, PlainStep, IInv, TypeOK, HoldTracked
<1>4. /\ tainted' \in BOOLEAN /\ (tainted => tainted')
      /\ UNCHANGED <<selected, cswWritten, missed>>
      /\ SameRegisters(target, target')
  BY DEF SetSpeed, IInv, TypeOK, SameRegisters
<1>5. QED
  BY <1>3, <1>4, CachedStep

-----------------------------------------------------------------------------
(* Raw traffic past the cache. *)

\* Whatever engine made the transfer, only the two SWD pads are driven after it.
LEMMA PadsTyped ==
  PadsAfterRead \in SUBSET Both /\ PadsAfterRefusal \subseteq SUBSET Both
BY DEF PadsAfterRead, PadsAfterRefusal, Both

\* Raw reads, and raw writes the target did not take.
LEMMA RawReadStep ==
  ASSUME IInv, NEW c \in Commands, RawRead(c) \/ RawWriteUnanswered(c)
  PROVE  IInv'
<1>1. target' \in Disturbed(target)
  BY DEF RawRead, RawWriteUnanswered, Disturbed
<1>2. target' \in TargetState /\ SameRegisters(target, target')
  BY <1>1, DisturbedKeeps DEF IInv, TypeOK
<1>3. last' \in Replies /\ last'.data = "none"
  BY Named, ReplyPlain DEF RawRead, RawWriteUnanswered
<1>4. attached /\ pads' \in SUBSET Both
  BY PadsTyped DEF RawRead, RawWriteUnanswered, Passes, BusCommands
<1>5. PlainStep
  BY <1>2, <1>3, <1>4 DEF RawRead, RawWriteUnanswered, history, PlainStep, IInv,
     TypeOK, HoldTracked
<1>6. /\ tainted' \in BOOLEAN /\ (tainted => tainted')
      /\ UNCHANGED <<selected, cswWritten, missed>>
  BY DEF RawRead, RawWriteUnanswered, history, IInv, TypeOK
<1>7. QED
  BY <1>2, <1>5, <1>6, CachedStep

\* A raw write that moves SELECT or CSW marks the cache as bypassed.
LEMMA RawWriteStep ==
  ASSUME IInv, NEW c \in Commands, RawWrite(c)
  PROVE  IInv'
<1>1. PICK s \in {"zero", "other"}, w \in {"word", "other"} :
        /\ target' \in Disturbed([target EXCEPT !.select = s, !.csw = w])
        /\ tainted' = (tainted \/ s # target.select \/ w # target.csw)
  BY DEF RawWrite, Disturbed
<1>2. [target EXCEPT !.select = s, !.csw = w] \in TargetState
  BY DEF IInv, TypeOK, TargetState
<1>3. /\ target' \in TargetState
      /\ SameRegisters([target EXCEPT !.select = s, !.csw = w], target')
  BY <1>1, <1>2, DisturbedKeeps
<1>4. tainted' \/ SameRegisters(target, target')
  BY <1>1, <1>3 DEF SameRegisters, IInv, TypeOK, TargetState
<1>5. last' \in Replies /\ last'.data = "none"
  BY Named, ReplyPlain DEF RawWrite
<1>6. attached /\ pads' \in SUBSET Both
  BY PadsTyped DEF RawWrite, Passes, BusCommands
<1>7. PlainStep
  BY <1>3, <1>5, <1>6 DEF RawWrite, PlainStep, IInv, TypeOK, HoldTracked
<1>8. /\ tainted' \in BOOLEAN /\ (tainted => tainted')
      /\ UNCHANGED <<selected, cswWritten, missed>>
  BY <1>1 DEF RawWrite, IInv, TypeOK
<1>9. QED
  BY <1>4, <1>7, <1>8, CachedStep

\* Host-made bits mark the cache as bypassed.
LEMMA SwjSequenceStep ==
  ASSUME IInv, SwjSequence
  PROVE  IInv'
<1>1. target' \in TargetState
  BY ScrambledKeeps, LineResetKeeps DEF SwjSequence, IInv, TypeOK
<1>2. last' \in Replies /\ last'.data = "none"
  BY Named, ReplyPlain DEF SwjSequence
<1>3. attached
  BY DEF SwjSequence, Passes, BusCommands
<1>4. PlainStep
  BY <1>1, <1>2, <1>3 DEF SwjSequence, PlainStep, IInv, TypeOK, HoldTracked
<1>5. QED
  BY <1>4, CachedStep DEF SwjSequence

-----------------------------------------------------------------------------
(* Memory reads, the only commands that consult the cache. *)

\* What the target holds once the writes the cache called for have arrived.
LEMMA WrittenTargets ==
  ASSUME target \in TargetState
  PROVE  /\ WithSelect \in TargetState /\ WithCsw \in TargetState
         /\ WithSelect.select = (IF NeedsSelect THEN "zero" ELSE target.select)
         /\ WithCsw.select = (IF NeedsSelect THEN "zero" ELSE target.select)
         /\ WithSelect.csw = target.csw
         /\ WithCsw.csw = (IF CswArrives THEN "word" ELSE target.csw)
         /\ WithSelect.synced = target.synced /\ WithCsw.synced = target.synced
         /\ WithCsw.ownReset = target.ownReset
BY DEF WithSelect, WithCsw, TargetState

\* A read refused at any point, or carried through, leaves the cache right or
\* the loss on record.
LEMMA ReadCoherent ==
  ASSUME IInv, tainted' = (tainted /\ ~(NeedsSelect /\ cswWritten')),
         \/ /\ SelectRefused \/ CswRefused \/ WordsRefused \/ WordsRead
            /\ missed' = missed
         \/ /\ \E write \in {"SELECT", "CSW"} : DataDropped(write)
            /\ missed' = TRUE
  PROVE  /\ target' \in TargetState /\ selected' \in {"none", "zero"}
         /\ cswWritten' \in BOOLEAN /\ CacheOrdered' /\ CacheCoherent'
<1>1. target \in TargetState
  BY DEF IInv, TypeOK
<1>2. CASE SelectRefused
  <2>1. PICK u \in Selected(target) : target' \in Disturbed(u)
    BY <1>2 DEF SelectRefused
  <2>2. target' \in TargetState
    BY <1>1, <2>1, SelectedKeeps, DisturbedKeeps
  <2>3. selected' = "none" /\ cswWritten' = FALSE
    BY <1>2 DEF SelectRefused, NeedsSelect, IInv, TypeOK, CacheOrdered
  <2>4. QED
    BY <2>2, <2>3 DEF CacheOrdered, CacheCoherent
<1>3. CASE CswRefused /\ missed' = missed
  <2>1. PICK u \in {WithSelect, WithCsw} : target' \in Disturbed(u)
    BY <1>3 DEF CswRefused
  <2>2. target' \in TargetState /\ SameRegisters(u, target')
    BY <1>1, <2>1, WrittenTargets, DisturbedKeeps
  <2>3. selected' = "zero" /\ cswWritten' = FALSE
    BY <1>3 DEF CswRefused
  <2>4. CacheCoherent'
    BY <1>1, <1>3, <2>1, <2>2, <2>3, WrittenTargets
       DEF IInv, TypeOK, CacheCoherent, SameRegisters, NeedsSelect
  <2>5. QED
    BY <2>2, <2>3, <2>4 DEF CacheOrdered
<1>4. CASE (WordsRefused \/ WordsRead) /\ missed' = missed
  <2>1. target' \in Disturbed(WithCsw)
    BY <1>4 DEF WordsRefused, WordsRead, Disturbed
  <2>2. target' \in TargetState /\ SameRegisters(WithCsw, target')
    BY <1>1, <2>1, WrittenTargets, DisturbedKeeps
  <2>3. selected' = "zero" /\ cswWritten' = TRUE
    BY <1>4 DEF WordsRefused, WordsRead
  <2>4. CacheCoherent'
    BY <1>1, <1>4, <2>2, <2>3, WrittenTargets
       DEF IInv, TypeOK, CacheCoherent, SameRegisters, NeedsSelect, NeedsCsw,
           CswArrives
  <2>5. QED
    BY <2>2, <2>3, <2>4 DEF CacheOrdered
<1>5. CASE missed' = TRUE /\ \E write \in {"SELECT", "CSW"} : DataDropped(write)
  <2>1. PICK u \in {target, WithSelect} : target' \in Disturbed(u)
    BY <1>5 DEF DataDropped
  <2>2. target' \in TargetState
    BY <1>1, <2>1, WrittenTargets, DisturbedKeeps
  <2>3. selected' = "zero" /\ cswWritten' \in BOOLEAN
    BY <1>5 DEF DataDropped
  <2>4. QED
    BY <1>5, <2>2, <2>3 DEF CacheOrdered, CacheCoherent
<1>6. QED
  BY <1>2, <1>3, <1>4, <1>5

\* MemoryRead and Profile, refused at any point or carried through.
LEMMA ReadMemoryStep ==
  ASSUME IInv, NEW c \in Commands, ReadMemory(c)
  PROVE  IInv'
<1>1. tainted' = (tainted /\ ~(NeedsSelect /\ cswWritten'))
  BY DEF ReadMemory
<1>2. /\ \/ /\ SelectRefused \/ CswRefused \/ WordsRefused \/ WordsRead
            /\ missed' = missed
         \/ /\ \E write \in {"SELECT", "CSW"} : DataDropped(write)
            /\ missed' = TRUE
      /\ missed' \in BOOLEAN
  BY DEF ReadMemory, IInv, TypeOK
<1>3. /\ target' \in TargetState /\ selected' \in {"none", "zero"}
      /\ cswWritten' \in BOOLEAN /\ CacheOrdered' /\ CacheCoherent'
  BY <1>1, <1>2, ReadCoherent
<1>4. attached /\ ~resetHeld /\ pads' \in SUBSET Both
  BY PadsTyped DEF ReadMemory, Passes, BusCommands
<1>5. HoldTracked' /\ IdlePadsReleased'
  BY <1>4 DEF ReadMemory, IInv, HoldTracked, IdlePadsReleased
<1>6. CASE Reply(c, "BusError")
  <2>1. last' \in Replies /\ last'.data = "none"
    BY <1>6, Named, ReplyPlain
  <2>2. TypeOK'
    BY <1>1, <1>2, <1>3, <1>4, <2>1 DEF ReadMemory, IInv, TypeOK
  <2>3. NoBlankRead' /\ LiveWords'
    BY <2>1 DEF NoBlankRead, LiveWords
  <2>4. QED
    BY <1>3, <1>5, <2>2, <2>3 DEF IInv
<1>7. CASE /\ WordsRead /\ missed' = missed
           /\ ReplyData(c, IF c = "MemoryRead" THEN ReadData(WithCsw) ELSE "none")
  <2>1. /\ last'.data \in {"none", ReadData(WithCsw)}
        /\ ReadData(WithCsw) \in {"live", "zeros", "wrong"}
    BY <1>7 DEF ReplyData, ReadData
  <2>2. last' \in Replies
    BY <1>7, <2>1, Named DEF ReplyData, Replies
  <2>3. TypeOK'
    BY <1>1, <1>2, <1>3, <1>4, <2>2 DEF ReadMemory, IInv, TypeOK
  <2>4. target' = WithCsw /\ target.synced /\ cswWritten' = TRUE
    BY <1>7 DEF WordsRead, Answers
  <2>5. NoBlankRead'
    <3>1. ~resetLow' /\ ~resetLow
      BY <1>4 DEF ReadMemory, IInv, HoldTracked
    <3>2. ReadData(WithCsw) = "zeros" => target'.ownReset
      BY <2>4, <3>1 DEF ReadData, CoreInReset
    <3>3. QED
      BY <2>1, <3>1, <3>2 DEF NoBlankRead
  <2>6. LiveWords'
    <3>1. SUFFICES ASSUME ReadData(WithCsw) = "wrong", ~missed' PROVE tainted'
      BY <2>1 DEF LiveWords
    <3>2. ~(WithCsw.select = "zero" /\ WithCsw.csw = "word")
      BY <3>1 DEF ReadData
    <3>3. target.synced = TRUE /\ missed = FALSE
      BY <1>7, <3>1 DEF WordsRead, Answers, IInv, TypeOK, TargetState
    <3>4. ~NeedsSelect /\ tainted
      BY <3>2, <3>3, WrittenTargets
         DEF NeedsSelect, NeedsCsw, CswArrives, IInv, TypeOK, CacheCoherent
    <3>5. QED
      BY <1>1, <3>4
  <2>7. QED
    BY <1>3, <1>5, <2>3, <2>5, <2>6 DEF IInv
<1>8. QED
  BY <1>6, <1>7 DEF ReadMemory

-----------------------------------------------------------------------------
(* The environment, and every step. *)

\* Power, the target's own reset, its firmware and a reboot of the probe.
LEMMA EnvironmentStep ==
  ASSUME IInv, Environment
  PROVE  IInv'
<1>1. CASE SwitchPower
  <2>1. target' \in TargetState /\ ~target'.synced
    BY <1>1, ConstantTargets DEF SwitchPower, Unpowered, PoweredUp
  <2>2. PlainStep
    BY <1>1, <2>1, QuietPlain DEF SwitchPower, Env, PlainStep, probe, history,
       IInv, TypeOK, HoldTracked, IdlePadsReleased
  <2>3. QED
    BY <1>1, <2>1, <2>2, CachedStep DEF SwitchPower, probe, history, IInv, TypeOK
<1>2. CASE TargetResetsItself \/ ClaimSwdio
  <2>1. target' \in TargetState /\ SameRegisters(target, target')
    BY <1>2 DEF TargetResetsItself, ClaimSwdio, IInv, TypeOK, TargetState,
       SameRegisters
  <2>2. PlainStep
    BY <1>2, <2>1, QuietPlain DEF TargetResetsItself, ClaimSwdio, Env,
       PlainStep, probe, history, IInv, TypeOK, HoldTracked, IdlePadsReleased
  <2>3. QED
    BY <1>2, <2>1, <2>2, CachedStep
       DEF TargetResetsItself, ClaimSwdio, probe, history, IInv, TypeOK
<1>3. CASE Reboot
  <2>1. target' \in Disturbed(target)
    BY <1>3 DEF Reboot, Disturbed
  <2>2. target' \in TargetState
    BY <2>1, DisturbedKeeps DEF IInv, TypeOK
  <2>3. PlainStep
    BY <1>3, <2>2, QuietPlain
       DEF Reboot, Env, Disconnect, PlainStep, HoldTracked, Engines
  <2>4. QED
    BY <1>3, <2>3, ForgetfulStep DEF Reboot, Disconnect
<1>4. QED
  BY <1>1, <1>2, <1>3 DEF Environment

\* Every step of the hub and of its environment keeps the invariant.
LEMMA StepInvariant == IInv /\ [Next]_vars => IInv'
<1>1. SUFFICES ASSUME IInv, [Next]_vars PROVE IInv'
  OBVIOUS
<1>2. CASE UNCHANGED vars
  BY <1>1, <1>2 DEF vars, probe, history, IInv, TypeOK, HoldTracked,
     CacheOrdered, IdlePadsReleased, NoBlankRead, CacheCoherent, LiveWords
<1>3. ASSUME NEW c \in Commands,
             \/ Refuse(c) \/ RejectPayload(c) \/ AnswerStateless(c)
             \/ WaveProbe(c) \/ RawRead(c) \/ RawWrite(c)
             \/ RawWriteUnanswered(c) \/ ReadMemory(c)
      PROVE  IInv'
  BY <1>1, <1>3, AnsweredUntouched, WaveProbeStep, RawReadStep, RawWriteStep,
     ReadMemoryStep
<1>4. CASE \/ RejectWireProbe \/ Attach \/ AttachUnderReset \/ RecoveryProbe
           \/ Detach \/ LineState \/ SetPinMap \/ SetEngine \/ RecoverLine
           \/ ResetLineState \/ PadSelfTest \/ DiagnosticSwdio \/ SetSpeed
           \/ ResetAssert \/ ResetRelease \/ UartSend \/ UartResetCapture
           \/ SwjSequence
  BY <1>1, <1>4, DetachedStep, AttachStep, AttachUnderResetStep,
     RecoveryProbeStep, RecoverLineStep, ResetCycleStep, DiagnosticSwdioStep,
     SetSpeedStep, ResetLineStep, UartSendStep, UartResetCaptureStep,
     SwjSequenceStep
<1>5. CASE Environment
  BY <1>1, <1>5, EnvironmentStep
<1>6. QED
  BY <1>1, <1>2, <1>3, <1>4, <1>5 DEF Next, Command

\* The inductive invariant holds of every behaviour of the hub.
THEOREM Inductive == Spec => []IInv
BY InitInvariant, StepInvariant, PTL DEF Spec

-----------------------------------------------------------------------------
(* The properties. *)

\* Every variable of the hub keeps its type.
THEOREM TypeCorrect == Spec => []TypeOK
<1>1. IInv => TypeOK
  BY DEF IInv
<1>2. QED
  BY <1>1, Inductive, PTL

\* However a command ends, the SWD pads float when nothing is attached.
THEOREM PadsReleased == Spec => []IdlePadsReleased
<1>1. IInv => IdlePadsReleased
  BY DEF IInv
<1>2. QED
  BY <1>1, Inductive, PTL

\* No MemoryRead returns the zeros of a core this probe holds in reset.
THEOREM NeverBlank == Spec => []NoBlankRead
<1>1. IInv => NoBlankRead
  BY DEF IInv
<1>2. QED
  BY <1>1, Inductive, PTL

\* SELECT and CSW are what the link's cache says, unless raw traffic moved them
\* or the target dropped the data of a write it had acknowledged.
THEOREM CacheTrue == Spec => []CacheCoherent
<1>1. IInv => CacheCoherent
  BY DEF IInv
<1>2. QED
  BY <1>1, Inductive, PTL

\* A MemoryRead, retried after whatever refusal, returns the words it was asked
\* for unless raw traffic or a dropped write left the registers elsewhere.
THEOREM WordsTrue == Spec => []LiveWords
<1>1. IInv => LiveWords
  BY DEF IInv
<1>2. QED
  BY <1>1, Inductive, PTL

\* One step's part of HoldIsDeliberate.
HoldStep ==
  resetLow' => \/ last'.cmd \in {"ResetAssert", "DiagnosticSwdio"}
               \/ /\ resetLow
                  /\ \/ last'.cmd \notin ResetCyclers
                     \/ last'.status = "BadRequest"

\* What a reply says is what the handler put there.
LEMMA ReplyFields ==
  ASSUME NEW c, NEW s, Reply(c, s)
  PROVE  last'.cmd = c /\ last'.status = s
BY DEF Reply

LEMMA EveryHoldDeliberate == [Next]_vars => [HoldStep]_vars
<1>1. SUFFICES ASSUME Next PROVE HoldStep
  OBVIOUS
<1>2. ASSUME NEW c \in Commands, ReadMemory(c) PROVE HoldStep
  BY <1>2 DEF ReadMemory, Reply, ReplyData, HoldStep, ResetCyclers,
     MemoryCommands
<1>3. ASSUME NEW c \in Commands, Refuse(c) \/ AnswerStateless(c)
      PROVE  HoldStep
  <2>1. c \notin ResetCyclers /\ last'.cmd = c
    BY <1>3, ReplyFields DEF Refuse, AnswerStateless, ResetCyclers, BusCommands,
       MemoryCommands, RawReads, RawWrites, Stateless
  <2>2. resetLow' = resetLow
    BY <1>3 DEF Refuse, AnswerStateless, probe
  <2>3. QED
    BY <2>1, <2>2 DEF HoldStep
<1>4. ASSUME NEW c \in Commands, RejectPayload(c) PROVE HoldStep
  BY <1>4, ReplyFields DEF RejectPayload, probe, HoldStep
<1>5. ASSUME NEW c \in Commands,
             WaveProbe(c) \/ RawRead(c) \/ RawWrite(c) \/ RawWriteUnanswered(c)
      PROVE  HoldStep
  <2>1. c \notin ResetCyclers /\ last'.cmd = c
    BY <1>5, ReplyFields DEF WaveProbe, RawRead, RawWrite, RawWriteUnanswered,
       ResetCyclers, RawReads, RawWrites, WaveProbes
  <2>2. resetLow' = resetLow
    BY <1>5 DEF WaveProbe, RawRead, RawWrite, RawWriteUnanswered
  <2>3. QED
    BY <2>1, <2>2 DEF HoldStep
<1>6. CASE Attach \/ UartSend
  <2>1. last'.cmd \in {"Attach", "UartSend"}
    BY <1>6, ReplyFields DEF Attach, UartSend
  <2>2. resetLow' = FALSE \/ resetLow' = resetLow
    BY <1>6 DEF Attach, UartSend, ResetCoaxed, HoldReset, ResetUntouched, probe
  <2>3. QED
    BY <2>1, <2>2 DEF HoldStep, ResetCyclers
<1>7. CASE \/ RejectWireProbe \/ Detach \/ LineState \/ SetPinMap \/ SetEngine
           \/ RecoverLine \/ SetSpeed \/ SwjSequence
  <2>1. last'.cmd \in {"WireProbe", "Detach", "LineState", "SetPinMap",
                       "SetEngine", "RecoverLine", "SetSpeed", "SwjSequence"}
    BY <1>7, ReplyFields DEF RejectWireProbe, Detach, LineState, SetPinMap,
       SetEngine, RecoverLine, SetSpeed, SwjSequence
  <2>2. resetLow' = resetLow
    BY <1>7 DEF RejectWireProbe, Detach, LineState, SetPinMap, SetEngine,
       RecoverLine, SetSpeed, SwjSequence
  <2>3. QED
    BY <2>1, <2>2 DEF HoldStep, ResetCyclers
<1>8. CASE DiagnosticSwdio \/ ResetAssert
  BY <1>8, ReplyFields DEF DiagnosticSwdio, ResetAssert, HoldStep
<1>9. CASE \/ AttachUnderReset \/ RecoveryProbe \/ ResetLineState
           \/ PadSelfTest \/ ResetRelease \/ UartResetCapture
  BY <1>9 DEF AttachUnderReset, RecoveryProbe, ResetLineState, PadSelfTest,
     ResetRelease, UartResetCapture, HoldReset, HoldStep
<1>10. CASE Environment
  <2>1. last'.cmd = "Hello"
    BY <1>10 DEF Environment, SwitchPower, TargetResetsItself, ClaimSwdio,
       Reboot, Env, Quiet
  <2>2. resetLow' = FALSE \/ resetLow' = resetLow
    BY <1>10 DEF Environment, SwitchPower, TargetResetsItself, ClaimSwdio,
       Reboot, probe
  <2>3. QED
    BY <2>1, <2>2 DEF HoldStep, ResetCyclers
<1>11. QED
  BY <1>1, <1>2, <1>3, <1>4, <1>5, <1>6, <1>7, <1>8, <1>9, <1>10 DEF Next, Command

\* A command that cycles reset leaves it released on every path, the failing
\* ones included.
THEOREM ResetReleased == Spec => HoldIsDeliberate
BY EveryHoldDeliberate, PTL DEF Spec, HoldIsDeliberate, HoldStep

\* One step's part of HeldLowIsHonest.
HonestStep ==
  last'.cmd = "Attach" /\ last'.status = "LineHeldLow"
    => ~target.power \/ target'.claimed

\* Only the Attach handler answers Attach with a held-low line.
LEMMA OnlyAttachRefusesAttach ==
  ASSUME Next, last'.cmd = "Attach", last'.status = "LineHeldLow"
  PROVE  Attach
<1>1. ASSUME NEW c \in Commands,
             \/ Refuse(c) \/ RejectPayload(c) \/ AnswerStateless(c)
             \/ WaveProbe(c) \/ RawRead(c) \/ RawWrite(c)
             \/ RawWriteUnanswered(c) \/ ReadMemory(c)
      PROVE  last'.status # "LineHeldLow"
  BY <1>1 DEF Refuse, RejectPayload, AnswerStateless, WaveProbe, RawRead,
     RawWrite, RawWriteUnanswered, ReadMemory, Reply, ReplyData
<1>2. CASE \/ RejectWireProbe \/ AttachUnderReset \/ RecoveryProbe
           \/ Detach \/ LineState \/ SetPinMap \/ SetEngine \/ RecoverLine
           \/ ResetLineState \/ PadSelfTest \/ DiagnosticSwdio \/ SetSpeed
           \/ ResetAssert \/ ResetRelease \/ UartSend \/ UartResetCapture
           \/ SwjSequence
  <2>1. last'.cmd \in {"WireProbe", "AttachUnderReset", "RecoveryProbe",
          "Detach", "LineState", "SetPinMap", "SetEngine", "RecoverLine",
          "ResetLineState", "PadSelfTest", "DiagnosticSwdio", "SetSpeed",
          "ResetAssert", "ResetRelease", "UartSend", "UartResetCapture",
          "SwjSequence"}
    BY <1>2, ReplyFields DEF RejectWireProbe, AttachUnderReset, RecoveryProbe,
       Detach, LineState, SetPinMap, SetEngine, RecoverLine, ResetLineState,
       PadSelfTest, DiagnosticSwdio, SetSpeed, ResetAssert, ResetRelease,
       UartSend, UartResetCapture, SwjSequence
  <2>2. QED
    BY <2>1
<1>3. CASE Environment
  BY <1>3 DEF Environment, SwitchPower, TargetResetsItself, ClaimSwdio, Reboot,
     Env, Quiet
<1>4. QED
  BY <1>1, <1>2, <1>3 DEF Next, Command

\* RecoveryCycles outlasts every data phase, so a line Attach still finds low
\* is held by the target's firmware or has no power behind it.
LEMMA EveryRefusalHonest == IInv /\ [Next]_vars => [HonestStep]_vars
<1>1. SUFFICES ASSUME IInv, Attach, last'.status = "LineHeldLow"
               PROVE  ~target.power \/ target'.claimed
  BY OnlyAttachRefusesAttach DEF HonestStep
<1>2. SUFFICES ASSUME target.power PROVE target'.claimed
  OBVIOUS
<1>3. PICK p \in Coaxed :
        \E t \in (IF SwdioHigh(p) THEN {p} ELSE Clocked(p, RecoveryCycles)) :
          target' = t /\ ~SwdioHigh(t)
  BY <1>1 DEF Attach, Reply
<1>4. p \in TargetState /\ p.power = TRUE
  <2>1. target \in TargetState /\ p \in TargetState
    BY <1>1, CoaxedKeeps DEF IInv, TypeOK
  <2>2. p.power = target.power
    BY <2>1, PulsedPower DEF Coaxed
  <2>3. QED
    BY <1>2, <2>1, <2>2 DEF TargetState
<1>5. ~SwdioHigh(p) /\ target' \in Clocked(p, RecoveryCycles) /\ ~SwdioHigh(target')
  BY <1>3
<1>6. p.phase <= RecoveryCycles
  BY <1>4, HubAssumption DEF TargetState
<1>7. target' = [p EXCEPT !.phase = 0, !.bit = FALSE]
  BY <1>5, <1>6 DEF Clocked
<1>8. target'.phase = 0 /\ target'.power = TRUE
  BY <1>4, <1>7 DEF TargetState
<1>9. QED
  BY <1>5, <1>8 DEF SwdioHigh

\* Attach blames the wiring or the target's firmware only when it is so.
THEOREM RefusalHonest == Spec => HeldLowIsHonest
BY Inductive, EveryRefusalHonest, PTL DEF Spec, HeldLowIsHonest, HonestStep
=============================================================================
