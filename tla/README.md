# A verification of esprobe

esprobe turns an ESP32 into an SWD debug probe.  A host process (the `esprobe`
crate: command line, probe-rs adapter, GDB server) sends framed commands over
USB Serial/JTAG or TCP (the `esprobe-protocol` crate) to firmware (the
`esprobe-firmware` crate) that drives the target's SWDIO, SWCLK and reset.  This
directory holds TLA+ models of that program, the TLC configurations that check
them, and proofs that TLAPS checks.

    tlc -config Hub.cfg MCHub          one run (PROJECT.json lists them all)
    tlapm HubProofs.tla                the proofs of Hub (and *Proofs, one module each)

## The system

| Component | State it keeps | Operations | Hard behaviour |
|---|---|---|---|
| `Hub` (firmware `main.rs`) | attachment, intent for the reset line, the link, the UART | 34 commands, one at a time under a mutex | any order of commands from two links; a command that fails half-way; a target that loses power, resets, takes its pins back |
| `SwdLink` (`swd.rs`) | what it believes SELECT and CSW hold | connect, transfer, `read_words`, recovery, wire probes | stale cache, posted reads, an abandoned data phase, WAIT and sticky errors |
| `EspSwdIo` (`hardware.rs`, `spi_wire.rs`, `pads.rs`) | pin directions, engine, clock | write and read phases, turnarounds, by SPI or bit-banging | who drives SWDIO on which clock |
| `serve_bridge` and its links (`main.rs`) | a partial frame per link | read, decode, dispatch, reply | one thread per link around one mutex; USB replies cut short; console text on the same pipe |
| `Transport` (`esprobe/src/lib.rs`) | sequence number, unread bytes | send, receive with a 3 s deadline | replies to abandoned requests, pipelined requests, sessions that die |
| Frame codec (`frame.rs`) | none | COBS, CRC-16, packets | a byte of overhead per 254 |
| Wi-Fi (`main.rs`) | `WifiControl`, NVS credentials, the station loop's attempt and fallback counters | set, forget, status; join ladder; access point window | the loop blocks half a minute in a join while commands go on; two writes to flash |
| GDB server (`gdb.rs`) | breakpoints, the core | step, resume, memory, registers | a retried step; a link that drops transfers |
| Host commands (`esprobe/src/main.rs`) | none beyond the session | detection, reset and SWDIO cycles, run, run-to, flash, program, dump | what an error or Ctrl-C on the way leaves on the target |
| probe-rs adapter (`esprobe/src/lib.rs`) | the session's attachment | attach, reset line, raw registers in blocks | a chunk of a block that fails; who else holds the target |
| Discovery (`factory.rs`), clock arithmetic, chip tables, JSON, credentials encoding | none | pure | boundaries |

A host process owns a `Transport`; frames reach `serve_bridge`, which locks the
`Hub` for the whole of one command; the `Hub` drives the target through
`SwdLink` and `EspSwdIo`.  The Wi-Fi commands of the `Hub` only write the
credential store and `WifiControl`; the station loop in `run` reads them on its
next pass and publishes what it did.

What must hold, component by component:

- **Hub.** Pads float whenever nothing is attached; reset stays asserted only on
  request; a read never returns the zeros of a core in reset; a read reaches the
  bank it was meant for; a refusal blames the right thing.
- **Bridge.** A reply belongs to its request; nothing in flight is silently lost;
  every request written whole is carried out, once and in order; neither link and
  no session stops another.
- **SwdLink, wire.** Never two drivers on SWDIO; every word read is the word at
  its address, through WAITs, faults and the auto-increment boundary.
- **Wi-Fi.** What the host set is what is joined, after a restart too; a probe
  with an access point is always reachable again.
- **GDB server.** What the debugger is told of the core and of its breakpoints is
  so; one step steps once; no unit outlives its session; the debugger is heard.
- **Host commands.** A command gives back what it took: the reset line, the
  breakpoint, the flash it is about to erase; and it ends.

## Modules

| Module | Models | Extended by |
|---|---|---|
| `Hub` | `Hub::bridge_command` and every handler, the SWD link's cache, the pads, the target | `MCHub` (TLC), `HubProofs` (TLAPS) |
| `Bridge` | `Transport`, `serve_bridge`, the accept loop, the USB pipe, the Hub mutex | `MCBridge` (TLC), `BridgeProofs`, `FlightProofs` (TLAPS) |
| `Rpc` | what the bridge promises: a remote procedure call | instantiated by `Bridge` |
| `Radio` | the Wi-Fi commands, the credentials in flash, the station loop of `run` | `MCRadio`, `RadioProofs` |
| `Wire` | `wire_transfer`, line reset and recovery, clock by clock, by both engines of `EspSwdIo` | `MCWire`, `WireProofs` |
| `SwdLink` | `transfer`, `read_words`, `write_words`, raw registers and blocks, transfer by transfer | `MCSwdLink`, `SwdLinkProofs` |
| `Core` | the target's core, its breakpoint units, flash and reset, as the host reaches them | `GdbServer`, `HostCommands` |
| `GdbServer` | `serve`, `serve_one`, `ProbeTarget` and its event loop (`gdb.rs`) | `Host` |
| `HostCommands` | every subcommand of `main.rs` as its operations in order | `Host` |
| `Host` | a GDB server and a command line beside each other, on one target | `MCHost`, `HostProofs`, `CommandProofs` |

### Hub

`bridge_command` runs to its end under the mutex, so a command is one action;
between commands the environment acts.  State, and the field it stands for:
`attached` (`bridge_attached`), `resetHeld` (`reset_held`), `resetLow` (the reset
pad), `pads` (which SWD output drivers are on), `engine`, `selected` and
`cswWritten` (`SwdLink`'s cache), `last` (the reply).  `target` is the chip as far
as the probe can tell: power, whether its debug port follows the line, whether
SELECT and CSW are where memory reads want them, its own reset, whether its
firmware took SWDIO, and the clocks left of a data phase it was abandoned in with
the bit it drives meanwhile.  `diag`, `tainted`, `missed` and `evidence` are history.

Every action is a handler together with the guards `bridge_command` puts in
front of it (`Refuse`, `Passes`), its payload check (`RejectPayload`,
`RejectWireProbe`) and what its callees do to the pads: `release_pads`,
`disconnect`, `hold_reset`, `require_target_power`, `recover_line` and
`line_reset_and_switch` are operators of the same idea.  `ReadMemory` takes
`read_words` apart where it can fail: the SELECT write, the CSW write, the words.
A write that is refused is not recorded in the cache (`SelectRefused`, `CswRefused`);
one that is acknowledged is, and its data phase may still be dropped for parity
(`DataDropped`): the next transfer faults, and the record outlives the command.  In a
bank that was never selected the write meant for CSW falls on another register
(`CswArrives`).
Answers without an effect on this state (`Ping`, `Echo`, `Wifi*`, ...) are
`AnswerStateless`, and `Hello` is the name all of them go by.

The environment switches the target's power, lets it reset itself or take SWDIO
back, leaves it in a data phase (`Abandoned`) and restarts the probe.

Properties of run `hub`:

- `IdlePadsReleased`: whatever command ended the link, and however, the pads float.
- `NoBlankRead`: no `MemoryRead` answers Ok with a core this probe holds in reset.
- `LiveWords`: the words read are the right ones, on the first attempt or on a retry,
  because the cache and the target agree (`CacheCoherent`, which is proved and which no
  run needs to state beside it), with two hedges that are the code's own: raw traffic passed the cache by (`tainted`: `RawWrite` and
  `SwjSequence` do not tell it), or the target dropped the data of a write it had
  acknowledged (`missed`), until the link forgets.  The second needs no raw traffic:
  a `MemoryRead` retried after such a loss answers Ok with other words; `SwdLink`
  has the same case transfer by transfer (`doubt`).
- `HoldIsDeliberate` (action): a command that cycles reset leaves it released,
  on its failing paths as well.
- `HeldLowIsHonest` (action): `Attach` reports a held-low line only for a target
  without power or one whose firmware holds it; an abandoned phase is run out.

Bounds: `RecoveryCycles = DataPhase = 2` is the boundary of the assumption
`DataPhase <= RecoveryCycles` (the code: 128 clocks against the 33 of a word and
its parity); `RecoverLine` may ask for fewer, as many or more.  Nothing else is
bounded, and the run explores the whole state space (438,341 states).

Two runs end in a counterexample:

- `hub_uart`: esprobe-firmware/README.md:478-480 says `uart-send` "refuses to
  drive the line at all unless released SWDIO proves the target is powered".  It
  asks only while nothing is attached, and `AttachUnderReset` attaches without a
  sample: against an unpowered target, `AttachUnderReset; UartSend` drives the line.
- `hub_capture`: `UartResetCapture` disconnects the link and leaves
  `bridge_attached` set.  Bus commands pass their guard on a link that is gone and
  `UartSend` takes the attachment for proof of power; the comment in `UartSend`
  counts on "a live debug link".

A third disagreement needs no run: esprobe-firmware/README.md:386-387 says that any
command touching the target bus is refused while reset is asserted.  `bridge_command`
refuses the memory reads only (`Passes`), and its comment says why: connect-under-reset
talks to the debug port exactly then.  Here the code is right and the sentence too wide.

### Bridge and Rpc

A frame is three pieces: the zero in front, the first of its bytes, the last of
them with the closing zero.  It decodes exactly when the last two arrive
adjacent, which is what COBS and the CRC are for; a byte-by-byte model of the
codec is a separate piece of work (see the plan).  Three pieces are enough to cut
a frame anywhere that matters: between the host's two writes, inside a reply,
between a reply and the next one, in front of a piece of console text.

`host[l]` is the process that has link `l` open and its `Transport`; `conns[l]`
the bytes on their way both ways, one connection per session on a TCP link and a
single one, for ever, on USB; `bridge[l]` the thread in `serve_bridge`; `holder`
the mutex.  `executed`, `lost`, `spoiled`, `kind` are history, and `got`, the request
whose reply was awaited last and the one whose reply it was.  One action per step
another party can come between: `Send`, `DieSending` (between the two `write_all`s),
`Read`, `Receive`, `Discard`, `Unidentified`, `Timeout`, `Open`, `Close` for the host;
`Accept`, `Take`, `Lock`, `Run`, `Write`, `WriteCut` (`usb_write_all` gives up),
`WriteFails`, `EndOfStream` for the probe; `ConsoleLine` for the log output that
shares the USB pipe.  `Write` waits while the transmit buffer has no room for the
reply: on USB until `WriteCut` gives up, on a stream for as long as its client stays
connected and does not read, which is what `write_all` of a socket does.

- `OwnReplies`: what is true of every link.  On a stream the reply returned is the
  awaited request's own; on a shared pipe it is that, or one to a request of an
  earlier session; a late reply to a request given up in the same session is never
  taken for another's.
- `ReplyMatches`: the reply returned answers the request it is returned for; a
  greeting left over from an earlier session counts, its content being constant.
  It is true of streams and not of a shared pipe.
- `InFlightIntact`: a request in flight is whole upstream, in the hub's hands, or
  answered by a whole frame downstream, unless console text or a full buffer
  damaged that reply or one awaited before it.  (The host then discards whole
  replies while it waits for the damaged one: `fast-dump` ends in a timeout.)
- `CarriedOutOnce` (action): `bridge_command` runs only a request that was written
  whole, that it has not run before, and after which it ran none.
- `RequestsCarriedOut` (liveness): every request written whole is carried out
  unless its connection ends first, whatever the clients of the other link do.  The
  one thing a link waits for is its own client: `NotRead` is a stream whose client
  stays connected and leaves a reply unread.  Its mutant takes the mutex only when
  nobody is writing a reply, which is a guard that lives to the end of the write: a
  client on the network that does not read then stops the serial port.
- `ImplementsRpc`: `Bridge` implements `Rpc` under the refinement mapping at the
  end of `Bridge.tla`; a call is carried out at most once, in order, and the host
  is given the result of the call it waits for, or, on a link that sessions share
  (`Shared`), of an earlier one; never one of a call not carried out.

Runs: `bridge` is the USB link (three sessions, two requests in flight, one console
line, a transmit buffer of two replies; 241,257 states).  `bridge_both` is the TCP
link, whose sessions overlap and are served in turn, with a transmit buffer of one
reply, beside a client on USB that contends for the mutex; either may leave its
replies unread (41,019 states).  Hosts may stop at any moment, so deadlock is not
checked in them.

Bounds: `MaxCalls`, `MaxSessions` and `MaxNoise`, per link, end the exploration;
`SeqModulus` stands for 2^16 and is larger than `LinkRoom`, the messages a link
holds at once, as 65,536 is: by exactly one, the boundary, in `bridge` (3 and 2) and
`bridge_both` (4 and 3); `TxCapacity` and `PendingLimit` are in pieces: two to four
replies of USB buffer (three frames in the code), the least a socket can hold, and
four frames of host buffer against one per read.  The wrap of the sequence number
happens within `MaxCalls`.  The case the second half of `OwnReplies` and `Shared` are
about, a reply of an earlier session taken for the awaited one, is reached in run
`bridge` with greetings; its three sessions are too few for any other reply.
`bridge_reopen` has the bounds for that, and with `OwnReplies` in the place of
`ReplyMatches` its instance passes (843,912 states).

Fairness (`FairSpec`): FreeRTOS runs every ready thread, so each step of a probe
thread is weakly fair; a FreeRTOS mutex is handed to its waiters, so `Lock`, which
another thread's turn disables, is strongly fair.  Hosts owe nothing: no host
action is fair.  `EndOfStream` is among the fair steps although `serve_bridge`
passes over `Ok(0)`, the way `std::io::Read` reports the end of a stream: lwIP
reports an error when a socket is read again after the end, and that error is what
ends the session.

Run `bridge_reopen` ends in a counterexample to `ReplyMatches`: every `Transport`
counts from zero, and the USB pipe keeps what a session left unread.  Four sessions,
each abandoned one step further than the last, make a stale reply arrive under the
number of a live request.  The handshake (`Hello`, `Capabilities`) consumes what
fewer leave, under the numbers of this instance; that is luck and not a mechanism.

### Radio

`flash` is NVS: SSID, password and the transmit power that last worked.  `control`
is `WifiControl` (`pending`, `forget`, and what `wifi status` answers), the only
state the commands and the loop share.  `command` is the `WifiSet` or `WifiForget`
the Hub is carrying out, in three stages because the thread that carries it out is
not the one of the loop: the SSID, the password, then `Record`, which locks
`WifiControl`.  Any of the writes may fail, and the probe may restart between them.
`loop` holds the locals of `run` (credentials, attempt counter, what is left of the
access point's window) and where it is; `radio` what the driver was last configured
as and the network it is on; `air` which networks answer at which power.

One pass of the loop is three actions.  `PassRequest`, `PassWindow`, `PassRetry`
and `PassIdle` are the four ways through it up to an association, each with the
lock under which it takes `pending` and `forget` and with what a request to forget
does first; `JoinWorks` or `JoinFails` ends the half minute `join_wifi` may block
for; `Publish` is the lock at the end.  Commands go on between any two of them.

- `IntentHeld`: when no command is under way, flash and loop both hold what the
  last completed one asked for, or are about to, although commands meet joins,
  boots and restarts half done.  A command cut short between its two writes leaves
  the SSID of one network and the password of another: `torn` is that hedge.
- `WindowOpen`: while the loop counts the access point's window, it is on the air.
- `WayIn` (liveness): an access point or a network, again and again.
- `ReachesIntent` (liveness): a network that answers at any power of the ladder is
  joined, whatever power flash remembers; one that was forgotten is left.
- `StatusSettles` (liveness): `wifi status` ends up naming the network asked for.

Bounds: `MaxCommands`, `MaxReboots` and `MaxAirs` end the disturbances, so that the
liveness properties are about what follows the last of them.  A ladder of two
powers stands for the code's five and `FallbackPasses` of two for its count of
passes: the properties tell apart only the first rung, which the remembered power
displaces, and the end of the ladder.  The attempt counter is folded after two ladders, which is exact:
only whether it is zero, and the rung, are ever used.

Fairness: the loop of `run` never ends and blocks only for bounded times
(`LoopStep`); a command under way runs to its end (`CommandStep`).  Hosts, the air
and restarts owe nothing.  Calls of the Wi-Fi driver are taken to succeed, an
association excepted.  So is `start_wifi`: when it fails `run` warns and goes on into
the station loop (main.rs:1426-1433), with a radio that is off until a join starts it,
and that case is not modelled.

Run `radio_status` ends in a counterexample: the comment at
esprobe-firmware/src/main.rs:717-720 says of `WifiSet` that a status query straight
after it names the new network.  A loop that is in a join publishes the old one
over it when the join ends.

Another disagreement needs no run.  The comment at main.rs:1530 says that every
power has been tried when the access point comes back; the power flash remembers
takes the place of the first rung (main.rs:2110), so with a remembered power the
first one of the ladder has not been.

### Wire

A step is one SWCLK cycle or a moment between two.  `enabled` is the set of output
drivers that are on; `host` is where the probe is in a transfer, the bits it has
still to send, the clocks it has still to sample and what it sampled; `job` and
`result` are the transfer asked for and its outcome; `target` is the line state
machine of an ADIv5 debug port: idle, hearing a request, turning around and
answering, handing back, hearing a word, lost.  The target is external: it is
modelled from what `swd.rs` and `hardware.rs` rely on.  `trouble` is history.

`DriveClock` and `SampleClock` are a clock of `write_bits` and of `read_bits`.  The
engines differ in three places: `Sample` (the bit-banging engine looks before the
rising edge, GPSPI2 after it, on the falling one), `Leading` and `Trailing` (the
clocks each pays for that), and `WritePhase` (GPSPI2 sends whole bytes).  The other
actions are the steps of `wire_transfer`: `Transfer`, `Release`, `Acknowledged`,
`WriteData`, `EndRefused`, `EndWrite`, `EndRead`; `LineReset` and `RecoverLine` with
their ends; `Disconnect`, after which `SetEngine` may change engines; `SetSpeed`,
which times the bit-banging loop on released lines, in a session too.

The target accepts, delays or refuses any well-formed request.  Either end may
restart at any clock, and the wire may flip one bit of a transfer in any field.

- `NoContention`: the two ends never drive SWDIO at once.  The exception is
  explicit (`crossed`): a transfer the probe was restarted in, an acceptance that
  was flipped into something else, a start bit flipped into the padding.  Then the
  target drives when nobody listens, and the property also says that
  `recover_line` ends it.  The comment at swd.rs:278-284 describes such a target
  as a line held low; one that is driving a one when `initialize` or `Attach`
  samples it passes the guard, which is why the exception cannot be narrower.
- `Aligned`: between two transfers the target waits for a start bit, after
  acceptances and refusals alike, and a line reset finds a target that lost its
  place wherever it is.  Its mutant clocks the data phase of a refused read, as
  the comment at hardware.rs:452-463 says an earlier version did; a target left
  alone by that takes the next bits for something else.
- `WordsIntact`: an accepted read returns the word that was sent, an accepted write
  delivers the probe's word, or the parity shows; nothing is shifted by a clock.

Bounds: `Width = 4` stands for 32 bits, and with it the ones of a line reset are 24
for 56 and those that reset a target 22 for 50, so that 56 - 32 and 50 - 32 are the
code's and the protocol's.  `Padding`, the request, the acknowledgement and the
turnarounds are not scaled.  `RecoveryCycles = 10` is the boundary of
`LineAssumption`, `Width + 6` (the code: 128 against 38).  Two words, one of each
parity, and four requests cover every shape of a transfer.  Nothing else is
bounded: the run explores all 2,849,592 states.

Left out: the wire probes (`wire_probe`, `handover_probe`, `ap_write_probe`), the pad
self test, `spi_loopback`, the pin map, and gaps inside a field, which spi_wire.rs
forbids.

### SwdLink

`Wire` takes a transfer apart into clocks; `SwdLink` takes a command apart into
transfers.  `link` is the cache (`selected`, `csw_written`) and the attachment;
`job` the command under way: its phase, the block, the word it is at, the retries
of the transfer at hand and the words read so far; `result` the answer; `target` the
debug port, the access port and the flags behind them; `mem` the words.  `Request`
is the transfer a phase asks for, `Following` the phase after it.

The target answers, and each kind of answer is an action: `TransferOk`,
`TransferWait` (retried, `Retries` times), `TransferFault` and `Abort` (the flags
are cleared before the fault is reported), `TransferUnanswered`, `TransferParity`
and `TransferGarbled` (a flipped bit), `DataDropped` (a write acknowledged whose
data did not arrive), `BusError` (an access acknowledged and then refused),
`AbortLost`.  The commands are `Connect`, `Detach`, `ReadWords`, `WriteWords`,
`RawReadBlock`, `RawWriteBlock` and `RawWriteRegister`.  Reads are posted, the
target's increment past a boundary is its own choice, and addresses are computed
in 32 bits, as in a release build.

- `WordsRight`, `RawWordsRight`: an Ok carries the words of the block, in order.
- `WritesLand`: an Ok of `write_words` (an operation of `WordMemory`; no bridge command
  reaches it) has stored its block, and neither it nor one
  that failed has touched any other word.
- `LossTold`: an acknowledged word that was not stored has left the sticky flag,
  so the next transfer faults, also after the Ok of a raw block write, which does
  not wait for its last word.
- `FaultCleared` (action): a Fault is reported with its cause cleared.
- `CommandsEnd` (liveness): `transfer` retries a bounded number of times and waits
  for nothing else, so every step of it is fair; hosts owe nothing.

Two hedges, both the code's.  `Aimed` says when raw blocks are meant to reach
consecutive words: CSW and SELECT are the host's business then, and so is the end
of the region.  `doubt` is the case the code has nothing against: `select_bank_zero`
records SELECT or CSW once its write was acknowledged, and the data phase may still
be dropped for its parity.  The next transfer faults, the ABORT clears the flag,
and a `MemoryRead` tried again in the same session trusts a register that was
never written: it answers Ok with other words.  esprobe-firmware/README.md:516 says
"None of this speed is bought with silent corruption."

Bounds: eight words in two regions of four (`Window`; 256 words in the code),
blocks of one and three words from the middle of a region and from the last words
of the address space, chunks of two, one retry, four commands, two failures: a block
that crosses a boundary, one that runs past the last address, a chunk that ends in
the middle of a block, a fault and what a command after it finds.  494,854 states.

### Core, GdbServer, HostCommands and Host

`Core` is what the host's processes share: whether the bridge is attached and the
reset line held, the core (running or halted, its program counter in a loop of
`Code` instructions), the addresses its breakpoint units are armed on, and its
flash region by region (`Banks`).  An operation is the set of states it may leave (`Stopped`, `Resumed`,
`Armed(a)`, ...), empty when it cannot succeed; `Outcomes` adds that any operation
may be lost on the wire, before it took effect or after.  These are external:
probe-rs does them.  What is not external is which of them the code makes, in
which order, and what it does with a failure.

`GdbServer` is `gdb.rs`.  `gdb.phase` is the operation about to be made;
`ServerAfter` what follows when it worked, `GivenUp` when it did not, `Failed` the
second attempt of `retrying`; `gdb.held` the breakpoints the server believes in.
`step` disarms the unit on its own instruction and arms it again, also when the step
fails; `Clean` clears what a session set; `MakeSession` attaches again.  `Connect`,
the packets, `Type` (Ctrl-C) and `HangUp` are the debugger.  `rough` says that an
attempt of this packet failed, `excused` which units a failed attempt or an earlier
session may have left, `alone` that no other process has used the target since.

- `StoppedIsHalted`, `BreakpointsAreArmed`: what the debugger was told is so.
- `StepsOnce` (action): a step is one instruction, off a breakpoint too.
- `NothingLeftArmed`: a session that is over has disarmed what it armed.
- `DebuggerHeard` (liveness): Ctrl-C and the end of a debugger reach the server.

`HostCommands` is `main.rs`: a run of the command line as its operations in order
(`BridgeAfter`, `OpenAfter`, `CoreAfter`, `ProgramAfter`), what a failure does
(`AfterFailure`), `Deadline` of run-to, `Drop` of the session, `CtrlC`.  Commands
that ask the same of the target are one: "lines" samples or clocks released lines,
"pulse" pulses reset inside the probe, "read" stands for dump, bench and probe.  "rtt"
reads on and on (`stream`), as `run_rtt` does, until `--idle-ms` have passed without
data (`Quiet`, when it was given) or Ctrl-C.  The image of a Program or a Flash goes
to any set of regions; `Backup` is what Program saves of them, the largest only.

- `ResetReturned`: a command leaves reset asserted only if it was asked to, or if
  it failed between asserting and releasing it.
- `BackedUp`: the largest region is not touched before its contents are in the
  backup, whatever else the image writes and whatever fails; and a Program that ends
  well has put the image into every region it belongs to.
- `RunToReleases`: run-to gives its breakpoint back and says the truth.
- `CommandEnds` (liveness): every command ends, reset-cycle and swdio-cycle once
  Ctrl-C was pressed, and rtt if it was given `--idle-ms` and the target does not go
  on to write; without `--idle-ms` it streams until Ctrl-C, as its help says.

`Host` puts a GDB server and a command line on one target: each drives it between
two operations of the other.  `Mixes` is a set of explorations made in one run: two
debuggers with three packets on a wire that fails twice; any one command with two
failures; any two in a row; two of those that may leave something behind, with a
failure; a debugger beside a command that releases the link; a debugger beside
run-to.  A program of three instructions, two of them with a place for a breakpoint,
two units, and two regions of flash are what steps, steps over, a full set of units
and an image that is not where the backup is need.  355,146 states.

Fairness: a process under way is scheduled, and an operation is answered or times
out (`ServerStep`, `Operation`, `Drop`); run-to has a deadline (`Deadline`).
Debuggers and users owe nothing, and the core may run for ever.  `Quiet` is fair as
long as the target writes nothing: the clock goes on.

Run `host_program` ends in a counterexample, the shortest there is: one Program of an
ELF image on which nothing fails.  The image is flashed and verified, then compared
with the bytes of the file, which are not those of the image, and the command ends
in "read-back differs" without the reset.

What modelling it showed and no property states:

- `serve_one` prints `run_blocking`'s error and returns `Ok`, so the attachment is
  built again only after the next debugger has failed, not before it, as the comment
  in gdb.rs:478-491 intends.
- A step tried twice may step twice; clearing a breakpoint whose first attempt took
  effect fails for good and ends the session.  `StepsOnce` and `BreakpointsAreArmed`
  except exactly what an attempt failed on.
- Units left by an earlier process count: `add_breakpoint` then fails when the
  hardware is full although the debugger set nothing.
- Every way through run-to's deadline clears its breakpoint, a failing `run` or poll
  does not: `RunToReleases` is about runs on which nothing failed.
- Program saves the largest non-volatile region of the target's description
  (main.rs:1121-1130) and the download goes wherever the image or `--address` says:
  another region is erased unsaved, although esprobe-firmware/README.md:361 and the help
  of the command say the flash is saved before anything is erased.  The model has this
  (`Backup`, `Touched`), and `BackedUp` says what is left of the promise.
- Program after a failed Program with the same `--backup` overwrites the only copy
  of the old flash: `BackedUp` is about one run.
- A probe-rs read of a target held in reset gives zeros (`Looked` does not ask for
  the line): the firmware refuses `MemoryRead`, deliberately not the raw registers.
- Whether a dropped session clears the units is left open (`Dropped`): the README
  of the repository and the comment in run-to say opposite things.
- RecoveryProbe waits for eight bytes and the firmware sends four.

## Proofs

`HubProofs` proves, for every `RecoveryCycles`, `DataPhase`, `CycleCounts` and set
of disturbances that `HubAssumption` admits, that the seven properties of run
`hub` hold of `Spec`.  `HubAssumption` is the code's own arithmetic:
`RECOVERY_CYCLES` (128) outlasts every data phase.

The invariants are not inductive one by one.  `NoBlankRead` needs `HoldTracked`
(the recorded intent is the level of the pad), and `CacheCoherent` needs
`CacheOrdered` (CSW is never trusted without SELECT) to survive a refused SELECT
write.  `IInv` is their conjunction with the invariants themselves, and
`Inductive` is its proof.  `ForgetfulStep` says why most commands keep it (a link
that remembers nothing agrees with any target) and `CachedStep` why the others do;
after them there is one lemma per handler.  The two action properties follow from
`IInv`: `EveryRefusalHonest` is where `DataPhase <= RecoveryCycles` is used.

`RadioProofs` proves, for every set of networks, every ladder and every length of
the window, that `TypeOK`, `IntentHeld` and `WindowOpen` hold of `Spec`, with or
without an access point.  `IntentHeld` is not inductive: `FlashFollows` says what
each stage of a command has put into flash, `CommandFormed` that a command carries
the network it names, and `Held` that the intent survives up to the first write of
the next command, which is where an error still changes nothing.  `WindowKept`
strengthens `WindowOpen` to the passes before it is looked at.

`SwdLinkProofs` proves, for every address space, region, chunk, retry count and
number of faults that `SwdAssumption` admits, that `TypeOK`, `WordsRight`,
`RawWordsRight`, `WritesLand`, `LossTold` and `FaultCleared` hold of `Spec`.
None of them is inductive, for each is about an answer and the argument is about
the way to it.  `IInv` says where a block is: which command is in which phase
(`Controlled`), how far it is (`Counted`), that the cache is right unless in doubt
(`Cached`), that TAR and the posted word are those of the word at hand as long as the
target refuses nothing (`Placed`), that the words so far are right (`Gotten`,
`Landed`, `OnlyBlock`); `Answered` is the same of the command before.  `Accepts` says
what an accepted transfer makes of the target in each phase and `Inside` why the
increment is certain within a span.  `Moved` is any transfer after which the link
goes on, accepted or acknowledged and dropped; for it there is one lemma per part of
the invariant (`MovedPlaced` is the heart of it).  `FailureKeeps` is every way to
fail, `BeginKeeps` every way to begin.

`HostProofs` says once what every operation of `Host` may do to the target
(`ServerEffects`, `CommandEffects`) and what it leads to (`WorkedIs`, `FailedIs`,
`LeavesIs`), and proves the types, for every program, number of units, set of places
and `Mixes` that the assumptions admit.  On that it and `CommandProofs` take the two
processes apart, each beside the other doing anything whatever.

Of the server it proves `StoppedIsHalted`, `BreakpointsAreArmed`, `NothingLeftArmed` and
`StepsOnce`.  Stated where the debugger looks, they are not inductive; `Trusted` says
what holds between two looks: the core is halted from the halt to the next resume
(`Halted`); breakpoints and units agree but for the one a step or a removal is moving
(`Lined`, `Moving`); a step that begins is where the core is, with nothing armed under
it (`Pinned`).

`CommandProofs` proves `ResetReturned`, `BackedUp` and `RunToReleases`.  `Route` is the
order of the operations as far as it matters; `Line` who holds reset in which of them;
`Kept` what the largest region and the backup hold at each step of Program; `Marked` where run-to's
core can have halted.  `Leads` follows the tables of `HostCommands` once, so that the
others need not.

`WireProofs` proves, for every width, set of words and requests, padding and length
of the line sequences that `WidthAssumption` and `LineAssumption` admit, that
`TypeOK`, `NoContention`, `Aligned` and `WordsIntact` hold of `Spec`, for both
engines, every answer of the target, a restart of either end at any clock and one
flipped bit in any field.  None of the last three is inductive: they speak of moments between
phases, where the probe changes direction or reports, and the argument is about the
clocks in between.  The proof has two layers.  The lower one knows no state: it
relates a target, one edge and what becomes of the target, phase by phase, `Aimed` or
`Astray` while a request is sent, `Answered` or `Unanswered` (lost, or `Straggling`: in
a packet of its own that a flipped bit began) while the acknowledgement is read,
`Returned` and `Written` for the data, `Resetting` and `Stopping` for the line
sequences; each has a lemma that one more clock keeps it, and `Edges` is the only
lemma that opens `Clocked`.  The upper one, `Inv`, says for each place of the probe (`InRequest`,
`InAck` and so on) what it has still to send or to sample, which drivers are on and
which relation holds, and has one lemma per action.  Three facts carry most
of it: a single flipped bit always shows in the parity (`FlipDetected`,
`NearDetected`), and two acknowledgements differ in two bits; no transfer has enough
ones in a row to reset the target (`Quieted`, `FewOnes`, where
`ResetOnes >= Width + 18` is used), while a line reset has (`LineOnes >= ResetOnes`);
and the clocks of `recover_line` outlast whatever a target has still to drive
(`RecoveryCycles >= Width + 6`).  `Inv` was checked by TLC on the instance of run
`wire` before it was proved.

`BridgeProofs` follows the requests, for every set of links and every capacity and
bound that `BridgeAssumption` admits.  `IInv` is the types and, for each link, three
parts: `Shaped`, one connection per session of which only the last can be open;
`Requests`, about what is on its way to the probe; `Answered`, that a reply is one to
a request that was carried out.  `Requests` is the heart: frames are whole, in the
pipe or across it and the bridge's buffer (`Built`), in the order they were made
(`Ordered`), later than everything done or at hand (`Later`, `AtHand`), and no request
is missing (`Accounted`).  There is one lemma per action for each part it disturbs.
From it follow `TypeCorrect`, `NothingForgotten` (a request is on its way, at hand,
carried out, or lost with its connection or its host) and `CarriedOutInOrder` (a
command runs at most once, after all that were sent before it ran or were lost, and
never one of which half was written): `CarriedOutOnce` of run `bridge`.

`StepAsRpc` is the step simulation: Rpc's calls as functions of `executed`, `lost` and
the requests made (`CallsOf`, `IdsOf`), and one lemma per kind of step.  What it needs
besides `IInv` is `InTurn`: that the reply returned is never one to a later request
than the awaited one, and on a stream its own; `FlightProofs` has that.

`FlightProofs` looks at the whole line of a link: what the host has buffered and what
comes behind it (`Coming`), the request in hand (`AtHub`), what leaves (`Leaving`).
`InFlightIntact` is not inductive: Receive takes a reply away, so one has to know
that it was the awaited one's, and Discard and Read drop pieces, so one has to know
that they were nobody's.  `Flow` is what makes it so.  Messages stand on the line in
the order of their requests (`InOrder`, `AllBefore`; with `IInv` the line is one,
`Ways`), so a reply to a later request means that the first awaited is damaged
(`Overtaken`).  A session's sequence number is as far behind as its request
(`Numbered`, `Paced`), so two requests with one number are a multiple of `SeqModulus`
apart (`NumberedApart`).  What is on a stream is its session's own and goes without a
gap from the oldest message in transit to the last request (`Streamed`), so it is never
longer than `LinkRoom`, and `LinkRoom < SeqModulus` does the rest.  On a shared pipe it
is `Depth` that bounds the requests awaited.  Between two ends of frames there is one
piece and what the console printed (`Short`), so the buffer is never cleared (`Ample`).
Lemmas `FlowMove`, `FlowSend`, `FlowDrop`, `FlowReceive` and `FlowBare` say what a
change does to a line, and there is one lemma per action that finds its change.  TLC
checked `Flown` on the instances of `bridge`, `bridge_both` and `bridge_reopen` before
it was proved.

From it follow `StreamsAnswer` (on a stream, a request's own reply and no other:
`StreamReplies`, which is the half of `OwnReplies` about streams), and where all links
are streams `StreamsMatch`; `RefinesRpc`, for streams and shared pipes together, which
assumes nothing of replies, sessions or timeouts, only that `Depth` is at most
`SeqModulus`; and `FlightIntact`.  `FlightIntact` assumes two things of a shared pipe,
both in `Ample`: all console text and one read fit `PendingLimit`, or receive clears a
reply it has half of; and the same bound on `Depth`, which `--depth` itself does not
enforce.  Of a stream it assumes nothing.

Only model-checked: the half of `OwnReplies` about a shared pipe (a reply taken for
another's is one of an earlier session); the properties of the runs that end in a
counterexample; liveness, and with it ENABLED, which are out of the
prover's reach.
Recursive data (the codec's stuffing) would be too: induction over
data is out of reach as well.

## What is left

1. `Bridge`: a proof of `OwnReplies` for a shared pipe: within a session a reply to a
   request given up comes before those to later ones, which `Flow` knows, and carries
   another number, which it knows of the requests awaited only.
2. The codec and the clock arithmetic as functions against reference definitions:
   both are pure and their unit tests reach every boundary there is.

## Not modelled

UART payloads and timing, logging, the text of messages, discovery (`factory.rs`),
the tables of chips and pins, the clock arithmetic, the HTTP page, the encoding of
credentials: no state another part depends on.  The codec is modelled by what it does:
a frame decodes exactly when it arrives whole and alone.  Real time is not
modelled: a timeout may strike whenever what it waits for has not come.

Known gaps.  What the wire probes measure is not in `Wire`.  `serial.attach_under_reset`
set on a probe that is then dropped (main.rs:938) has no effect and is not a step.  dap-poke's raw reads
under a held reset are not told apart from those of fast-dump.  `write` compares what it
wrote and bails: that leaves nothing behind and is the end of the command like any other.
In a debug build a block that runs past the last address panics; `SwdLink` is the release
build.
