--------------------------------- MODULE Wire ---------------------------------
(***************************************************************************)
(* SWDIO and SWCLK, one clock an action: wire_transfer, the line reset and  *)
(* the recovery of SwdLink, carried out by the two engines of EspSwdIo       *)
(* against the line protocol of an ADIv5 target.                            *)
(*                                                                         *)
(* A target samples SWDIO on the rising edge and changes what it drives     *)
(* there.  The engines look at different moments: GPSPI2 after the rising   *)
(* edge, the bit-banging one before it.  Each makes up for its own habit    *)
(* with turnaround clocks, and a clock too few or too many is a bus with    *)
(* two drivers or a target that takes the next bits for something else.     *)
(***************************************************************************)
EXTENDS Integers, Sequences, FiniteSets

CONSTANTS
  Width,          \* bits of a data phase, without its parity
  Words,          \* words that are read and written
  Payloads,       \* APnDP, RnW, A2, A3 of the requests made
  Padding,        \* idle clocks GPSPI2 sends after a word, to whole bytes
  LineOnes,       \* ones a line reset sends
  ResetOnes,      \* ones that reset a target's line
  RecoveryCycles  \* clocks of recover_line

Bit == {0, 1}

ASSUME WidthAssumption ==
  /\ Width \in Nat \ {0}
  /\ Words \subseteq [1..Width -> Bit] /\ Words # {}
  /\ Payloads \subseteq [1..4 -> Bit]
  /\ Padding \in Nat

\* A line reset outlasts what a target needs, which outlasts a word; recovery
\* what a restart can leave of a transfer, from the park bit to the parity.
ASSUME LineAssumption ==
  /\ LineOnes \in Nat /\ ResetOnes \in Nat /\ RecoveryCycles \in Nat
  /\ LineOnes >= ResetOnes /\ ResetOnes >= Width + 18
  /\ RecoveryCycles >= Width + 6

VARIABLES
  engine,  \* which engine EspSwdIo uses
  enabled, \* the lines whose output drivers are on
  host,    \* where the probe is: bits still to send, clocks still to sample
  job,     \* the transfer under way
  result,  \* how the last transfer ended, and the word it read
  target,  \* the target's end of the line
  noisy,   \* a bit of this transfer was flipped on the wire
  trouble  \* history: "deaf", a target that lost its place, "restarted", one
           \* that did so during a line reset; "crossed", ends that disagree
           \* whose turn it is

vars == <<engine, enabled, host, job, result, target, noisy, trouble>>

Engines == {"Hardware", "BitBang"}
Lines   == {"SWDIO", "SWCLK"}

Ok    == <<1, 0, 0>>
Wait  == <<0, 1, 0>>
Fault == <<0, 0, 1>>

Ones(n)  == [i \in 1..n |-> 1]
Zeros(n) == [i \in 1..n |-> 0]
Parity(bits) == Cardinality({i \in DOMAIN bits : bits[i] = 1}) % 2

-----------------------------------------------------------------------------
(* The target. *)

\* What it drives once it has turned around: its answer, and the word of a
\* read it accepts.
Accepts(t) == t.ack = Ok
Reply(t) == t.ack \o IF Accepts(t) /\ t.read
                     THEN t.word \o <<Parity(t.word)>> ELSE <<>>
Driving(t) == t.at = "answer" /\ t.n > 0

WellFormed(q) == /\ q[1] = 1 /\ q[7] = 0 /\ q[8] = 1
                 /\ q[6] = Parity(SubSeq(q, 2, 5))

\* The ones heard in a row, with the one of this edge.
Counted(t, b) == IF Driving(t) \/ b = 0 THEN 0 ELSE t.ones + 1

\* Target t in another place: with nothing heard there yet, or with one bit more.
Moved(t, at, n, bits, word, ones) ==
  [at |-> at, n |-> n, bits |-> bits, ack |-> t.ack, word |-> word, read |-> t.read,
   ones |-> ones]
Gone(t, at, ones) == Moved(t, at, 0, <<>>, t.word, ones)
Heard(t, b, ones) == Moved(t, t.at, t.n, Append(t.bits, b), t.word, ones)

\* A request it takes for its own: it answers as it likes, with a word of its own.
Answering(q, ones) ==
  [at : {"answer"}, n : {0}, bits : {<<>>}, ack : {Ok, Wait, Fault}, word : Words,
   read : {q[3] = 1}, ones : {ones}]

\* What may become of target t on a rising edge that finds SWDIO at b.
Clocked(t, b) ==
  LET ones  == Counted(t, b)
      heard == Append(t.bits, b)
      word  == SubSeq(heard, 1, Width)
  IN IF ones >= ResetOnes THEN {Gone(t, "reset", ResetOnes)}
     ELSE CASE t.at \in {"reset", "idle"} /\ b = 0 -> {Gone(t, "idle", ones)}
            [] t.at \in {"reset", "idle"} /\ b = 1 ->
                 {Moved(t, "request", 0, <<1>>, t.word, ones)}
            [] t.at = "request" /\ Len(heard) < 8 -> {Heard(t, b, ones)}
            [] t.at = "request" /\ Len(heard) = 8 ->
                 IF WellFormed(heard) THEN Answering(heard, ones)
                 ELSE {Gone(t, "lost", ones)}
            [] t.at = "answer" /\ t.n < Len(Reply(t)) ->
                 {Moved(t, "answer", t.n + 1, <<>>, t.word, ones)}
            [] t.at = "answer" /\ t.n = Len(Reply(t)) -> {Gone(t, "back", ones)}
            [] t.at = "back" ->
                 {Gone(t, IF Accepts(t) /\ ~t.read THEN "write" ELSE "idle", ones)}
            [] t.at = "write" /\ Len(heard) <= Width -> {Heard(t, b, ones)}
            [] t.at = "write" /\ Len(heard) > Width ->
                 {Moved(t, "idle", 0, <<>>, IF Parity(word) = b THEN word ELSE <<>>, ones)}
            [] OTHER -> {Gone(t, "lost", ones)}

\* SWDIO with the probe's output off: the target's bit, or the pull-up.
Released(t) == IF Driving(t) THEN Reply(t)[t.n] ELSE 1

-----------------------------------------------------------------------------
(* One clock. *)

Flip(b, flipped) == IF flipped THEN 1 - b ELSE b

\* A bit is flipped on its way at most once in a transfer.
MayFlip(flipped) == flipped => ~noisy /\ host.at \in {"request", "ack", "data", "write"}

\* A flip in the padding is a start bit the probe knows nothing of.
FalseStart(flipped) == flipped /\ host.at = "write" /\ target.at # "write"

\* SpiWire::write_bits and bit_bang_write_bits: the bit stands before the edge.
DriveClock ==
  /\ host.out # <<>>
  /\ \E flipped \in BOOLEAN :
       /\ MayFlip(flipped)
       /\ target' \in Clocked(target, Flip(Head(host.out), flipped))
       /\ noisy' = (noisy \/ flipped)
       /\ trouble' = IF FalseStart(flipped) THEN "crossed"
                     ELSE IF flipped /\ host.at = "request" /\ trouble = "none"
                     THEN "deaf" ELSE trouble
  /\ host' = [host EXCEPT !.out = Tail(@)]
  /\ UNCHANGED <<engine, enabled, job, result>>

\* GPSPI2 samples on the falling edge that follows, the other engine late in the
\* low phase before.
Sample(next) == IF engine = "Hardware" THEN Released(next) ELSE Released(target)

\* A flipped acknowledgement that ends the transfer for the probe alone.
Crosses(flipped) == flipped /\ host.at = "ack" /\ host.clocks <= 3 /\ Accepts(target)

\* SpiWire::read_bits and bit_bang_read_bits.
SampleClock ==
  /\ host.clocks > 0
  /\ \E flipped \in BOOLEAN, next \in Clocked(target, Released(target)) :
       /\ MayFlip(flipped)
       /\ target' = next
       /\ noisy' = (noisy \/ flipped)
       /\ host' = [host EXCEPT !.clocks = @ - 1,
                     !.got = IF host.at \in {"ack", "data"}
                             THEN Append(@, Flip(Sample(next), flipped)) ELSE @]
       /\ trouble' = IF Crosses(flipped) THEN "crossed" ELSE trouble
  /\ UNCHANGED <<engine, enabled, job, result>>

-----------------------------------------------------------------------------
(* wire_transfer. *)

\* packet_request
PacketRequest(p) == <<1, p[1], p[2], p[3], p[4], Parity(p), 0, 1>>
Reads(p) == p[2] = 1

\* leading_turnaround: the hardware engine's first sample comes a clock later.
Leading == IF engine = "Hardware" THEN 0 ELSE 1

\* trailing_turnaround: it pays that clock back here.
Trailing == IF engine = "Hardware" THEN 2 ELSE 1

\* A reply whose turnaround is left to the next transfer, and one read as
\* wire_probe does.
ReadPhaseShort == Width + 1
ReadPhaseLong == Width + 16
\* read_data_phase, and the second read of the hardware engine's read_reply.
ReadPhase == Width + 1 + Trailing

\* write_data_phase
WritePhase(word) == word \o <<Parity(word)>> \o
                    IF engine = "Hardware" THEN Zeros(Padding) ELSE <<>>

NoResult  == [ack |-> Wait, word |-> <<>>]
Quiet(at) == [at |-> at, out |-> <<>>, clocks |-> 0, got |-> <<>>]
Listen(at, n) == [Quiet(at) EXCEPT !.clocks = n]
Speak(at, bits) == [Quiet(at) EXCEPT !.out = bits]
Finished(at) == host.at = at /\ host.out = <<>> /\ host.clocks = 0

\* set_swdio_output on lines that were released: SWCLK floated, and driving it
\* again may be an edge.
Drive ==
  /\ enabled' = Lines
  /\ target' \in {target} \cup
       IF "SWCLK" \in enabled THEN {} ELSE Clocked(target, 0) \cup Clocked(target, 1)

Transfer ==
  /\ host.at = "idle"
  /\ Drive
  /\ \E p \in Payloads, w \in Words :
       /\ job' = [payload |-> p, word |-> w]
       /\ host' = Speak("request", PacketRequest(p))
  /\ noisy' = FALSE /\ result' = NoResult
  /\ trouble' = IF target' # target /\ trouble = "none" THEN "deaf" ELSE trouble
  /\ UNCHANGED engine

\* The line is handed over for the answer.
Release ==
  /\ Finished("request")
  /\ enabled' = {"SWCLK"}
  /\ host' = Listen("ack", Leading + 3)
  /\ UNCHANGED <<engine, job, result, target, noisy, trouble>>

Ack == SubSeq(host.got, Leading + 1, Leading + 3)

\* A data phase clocked through whatever the target answered to a read.
AcknowledgedFused ==
  /\ Finished("ack")
  /\ host' = IF Reads(job.payload) THEN Listen("data", ReadPhase)
             ELSE IF Ack = Ok THEN Listen("turn", Trailing)
             ELSE Listen("refused", Trailing)
  /\ result' = [ack |-> Ack, word |-> <<>>]
  /\ UNCHANGED <<engine, enabled, job, target, noisy, trouble>>

\* read_reply, or the acknowledgement of a write: no data phase unless it is OK.
Acknowledged ==
  /\ Finished("ack")
  /\ host' = IF Ack # Ok THEN Listen("refused", Trailing)
             ELSE IF Reads(job.payload) THEN Listen("data", ReadPhase)
             ELSE Listen("turn", Trailing)
  /\ result' = [ack |-> Ack, word |-> <<>>]
  /\ UNCHANGED <<engine, enabled, job, target, noisy, trouble>>

WriteData ==
  /\ Finished("turn")
  /\ enabled' = Lines
  /\ host' = Speak("write", WritePhase(job.word))
  /\ UNCHANGED <<engine, job, result, target, noisy, trouble>>

\* A word taken as it comes.
ParityUnchecked(bits) == TRUE
ParityHolds(bits) == Parity(SubSeq(bits, 1, Width)) = bits[Width + 1]

\* end_transfer: only the bit-banging engine takes the line back at once.
EndTransfer ==
  /\ host' = Quiet("idle")
  /\ enabled' = IF engine = "BitBang" THEN Lines ELSE enabled
  /\ UNCHANGED <<engine, job, target, noisy, trouble>>

EndRefused == Finished("refused") /\ EndTransfer /\ UNCHANGED result
EndWrite   == Finished("write") /\ EndTransfer /\ UNCHANGED result
EndRead ==
  /\ Finished("data") /\ EndTransfer
  /\ result' = [result EXCEPT !.word = IF ParityHolds(host.got)
                                       THEN SubSeq(host.got, 1, Width) ELSE <<>>]

-----------------------------------------------------------------------------
(* Sequences, and the rest of the probe. *)

SwitchWord == <<0, 1, 1, 1, 1, 0, 0, 1, 1, 1, 1, 0, 0, 1, 1, 1>>

\* line_reset_and_switch
LineReset ==
  /\ host.at \in {"off", "idle"}
  /\ host' = Speak("sequence", Ones(LineOnes) \o SwitchWord \o Ones(LineOnes) \o Zeros(8))
  /\ Drive
  /\ result' = NoResult
  /\ UNCHANGED <<engine, job, noisy, trouble>>

LineResetEnds ==
  /\ Finished("sequence")
  /\ host' = Quiet("idle")
  /\ trouble' = IF trouble = "restarted" THEN "deaf" ELSE "none"
  /\ UNCHANGED <<engine, enabled, job, result, target, noisy>>

\* recover_line: SWDIO released, SWCLK driven, and both released at its end.
RecoverLine ==
  /\ host.at \in {"off", "idle"}
  /\ host' = Listen("recover", RecoveryCycles)
  /\ enabled' = {"SWCLK"}
  /\ target' \in {target} \cup Clocked(target, Released(target))
  /\ UNCHANGED <<engine, job, result, noisy, trouble>>

RecoverEnds ==
  /\ Finished("recover")
  /\ host' = Quiet("off") /\ enabled' = {}
  /\ trouble' = "deaf"
  /\ UNCHANGED <<engine, job, result, target, noisy>>

\* disconnect, after which an engine may be chosen (SetEngine).
Disconnect ==
  /\ host.at \in {"off", "idle"}
  /\ host' = Quiet("off") /\ enabled' = {}
  /\ engine' \in Engines
  /\ UNCHANGED <<job, result, target, noisy, trouble>>

\* set_clock_hz times the bit-banging loop on released lines, even in a session.
SetSpeed ==
  /\ host.at \in {"off", "idle"} /\ engine = "BitBang"
  /\ enabled' = {}
  /\ UNCHANGED <<engine, host, job, result, target, noisy, trouble>>

\* The probe restarts with its lines released, whatever it was in the middle of.
ProbeRestarts ==
  /\ host' = Quiet("off") /\ enabled' = {} /\ engine' = "Hardware"
  /\ trouble' = IF host.at \in {"off", "idle"} THEN trouble ELSE "crossed"
  /\ UNCHANGED <<job, result, target, noisy>>

Unheard == [at |-> "lost", n |-> 0, bits |-> <<>>, ack |-> Wait, word |-> <<>>,
            read |-> FALSE, ones |-> 0]

\* The target restarts: its debug port knows nothing until a line reset.
TargetRestarts ==
  /\ target' = Unheard
  /\ trouble' = IF host.at = "sequence" THEN "restarted" ELSE "deaf"
  /\ UNCHANGED <<engine, enabled, host, job, result, noisy>>

Init ==
  /\ engine = "Hardware" /\ enabled = {}
  /\ host = Quiet("off") /\ target = Unheard
  /\ job \in [payload : Payloads, word : Words]
  /\ result = NoResult
  /\ noisy = FALSE /\ trouble = "deaf"

Next ==
  \/ DriveClock \/ SampleClock
  \/ Transfer \/ Release \/ Acknowledged \/ WriteData
  \/ EndRefused \/ EndWrite \/ EndRead
  \/ LineReset \/ LineResetEnds \/ RecoverLine \/ RecoverEnds
  \/ Disconnect \/ SetSpeed \/ ProbeRestarts \/ TargetRestarts

Spec == Init /\ [][Next]_vars

-----------------------------------------------------------------------------
Acks    == [1..3 -> Bit]
Held    == [1..Width -> Bit] \cup {<<>>}
Longest == 2 * LineOnes + Len(SwitchWord) + 8 + RecoveryCycles + Width + Padding
Bits(n) == UNION {[1..k -> Bit] : k \in 0..n}

\* Every variable keeps its type.
TypeOK ==
  /\ engine \in Engines /\ enabled \subseteq Lines /\ noisy \in BOOLEAN
  /\ host.at \in {"off", "idle", "request", "ack", "refused", "data", "turn",
                  "write", "sequence", "recover"}
  /\ Len(host.out) <= Longest /\ \A i \in DOMAIN host.out : host.out[i] \in Bit
  /\ host.clocks \in 0..Longest
  /\ Len(host.got) <= Width + 4 /\ \A i \in DOMAIN host.got : host.got[i] \in Bit
  /\ job \in [payload : Payloads, word : Words]
  /\ result \in [ack : Acks, word : Held]
  /\ target.at \in {"lost", "reset", "idle", "request", "answer", "back", "write"}
  /\ target.n \in 0..(Width + 4) /\ target.ones \in 0..ResetOnes
  /\ target.word \in Held /\ target.ack \in {Ok, Wait, Fault}
  /\ Len(target.bits) <= Width + 8
  /\ trouble \in {"none", "deaf", "restarted", "crossed"}

\* Probe and target never drive SWDIO at once, whichever engine runs, whatever
\* the target answers and whoever lost the other.  A target drives out of turn
\* only after a transfer the probe was restarted in, an acceptance flipped into
\* something else or a start bit in the padding, and recover_line makes it stop.
NoContention == trouble # "crossed" => ~("SWDIO" \in enabled /\ Driving(target))

\* Between transfers the target waits for a start bit: the engines give it just
\* the clocks it needs after acceptances, refusals, reads and writes, and a line
\* reset finds it again wherever it was.
Aligned == host.at = "idle" /\ trouble = "none" => target.at = "idle"

\* An accepted read returns the word the target sent and an accepted write leaves
\* the word of the probe, or a parity error: no bit is shifted, and none flipped
\* unnoticed.
WordsIntact ==
  host.at = "idle" /\ trouble = "none" /\ result.ack = Ok =>
    IF Reads(job.payload) THEN result.word \in {target.word, <<>>}
    ELSE target.word \in {job.word, <<>>}
=============================================================================
