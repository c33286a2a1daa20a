------------------------------- MODULE SwdLink -------------------------------
(***************************************************************************)
(* SwdLink, transfer by transfer: the blocks of words it moves through an   *)
(* ADIv5 memory access port, the two registers it caches, and what a host   *)
(* does over the same link with raw register commands.                      *)
(*                                                                         *)
(* A transfer is one action: what the target answers is its doing, what the *)
(* link makes of the answer is transfer() and the loop that called it.  An  *)
(* address is a word; the 1 KiB region within which the target increments   *)
(* TAR is Window words.  The clocks of a transfer are in Wire, the commands *)
(* around it in Hub.                                                        *)
(***************************************************************************)
EXTENDS Integers, Sequences

CONSTANTS
  Space,    \* words of the address space (2^30)
  Window,   \* words between boundaries of the auto-increment (256)
  Block,    \* SerialDapProbe.block_words
  Retries,  \* SwdLink.retries
  Starts, Counts,         \* addresses and lengths of the blocks asked for
  MaxCommands, MaxTrouble \* bounds of the exploration

ASSUME SwdAssumption ==
  /\ {Space, Window, Block} \subseteq Nat \ {0}
  /\ Space % Window = 0 /\ Window <= Space
  /\ {Retries, MaxCommands, MaxTrouble} \subseteq Nat
  /\ Starts \subseteq 0..(Space - 1) /\ Counts \subseteq 1..Space

VARIABLES
  link,     \* selected and csw_written; attached, Hub.bridge_attached
  job,      \* the command under way and where it is
  result,   \* the answer to the latest command
  target,   \* the debug port and access port at the other end
  mem,      \* the words behind it
  commands, \* commands begun
  trouble,  \* how often the wire or the bus has failed
  before,   \* history: mem when the latest command began
  doubt     \* history: a bank or CSW write was lost, or one went past the cache

vars == <<link, job, result, target, mem, commands, trouble, before, doubt>>

Addresses == 0..(Space - 1)
\* Addresses are computed in 32 bits: past the last comes zero.
Plus(a, i) == IF a + i < Space THEN a + i ELSE a + i - Space
Boundaries == {a \in Addresses : a % Window = 0}
\* What SELECT may hold, bank zero or another, and CSW, words with increment
\* (CORTEX_M_WORD_CSW) or not.
BankZero == 0
WordCsw  == 1
Codes    == {0, 1}
Junk  == 2 * Space          \* what another register, or no register, reads as

\* A word before and after a block was written over it.
OldWord(a) == a
NewWord(a) == Space + a
WordValues == 0..(2 * Space)

-----------------------------------------------------------------------------
(* The target. *)

Transfers == [reg : {"IDCODE", "ABORT", "SELECT", "POWER", "STATUS", "CSW",
                     "TAR", "DRW", "RDBUFF"}, read : BOOLEAN,
              value : WordValues]
R(r)    == [reg |-> r, read |-> TRUE, value |-> 0]
W(r, v) == [reg |-> r, read |-> FALSE, value |-> v]

IsAp(x) == x.reg \in {"CSW", "TAR", "DRW"}

\* After an error only these are answered; the access port needs power.
Exempt(x)  == x.reg \in {"IDCODE", "STATUS", "ABORT"}
Refuses(x) == \/ target.sticky /\ ~Exempt(x)
              \/ IsAp(x) /\ ~target.powered

\* At the end of its region TAR wraps, or goes on: targets differ.
Incremented(t) ==
  IF t.csw # WordCsw THEN {t}
  ELSE {[t EXCEPT !.tar = a] :
         a \in {b \in Addresses :
                 \/ b = Plus(t.tar, 1)
                 \/ Plus(t.tar, 1) \in Boundaries /\ b + Window = t.tar + 1}}

\* A transfer the target accepts.  Reads of the access port are posted.
Performed(x) ==
  CASE x.reg = "ABORT"  -> {[target EXCEPT !.sticky = FALSE]}
    [] x.reg = "SELECT" -> {[target EXCEPT !.select = x.value]}
    [] x.reg = "POWER"  -> {[target EXCEPT !.powered = TRUE]}
    [] x.reg \in {"IDCODE", "STATUS", "RDBUFF"} -> {target}
    [] IsAp(x) /\ target.select # BankZero ->
         {IF x.read THEN [target EXCEPT !.posted = Junk] ELSE target}
    [] x.reg = "CSW" /\ target.select = BankZero -> {[target EXCEPT !.csw = x.value]}
    [] x.reg = "TAR" /\ target.select = BankZero -> {[target EXCEPT !.tar = x.value]}
    [] x.reg = "DRW" /\ target.select = BankZero ->
         Incremented(IF x.read THEN [target EXCEPT !.posted = mem[target.tar]] ELSE target)

Stored(x) == IF x.reg = "DRW" /\ ~x.read /\ target.select = BankZero
             THEN [mem EXCEPT ![target.tar] = x.value] ELSE mem

\* What a read returns: of the access port, the word of the read before.
Returned(x) == CASE x.reg = "STATUS" -> IF target.powered THEN 1 ELSE 0
                 [] x.reg \in {"DRW", "RDBUFF"} -> target.posted
                 [] OTHER -> 0

-----------------------------------------------------------------------------
(* What the link asks next: the phases of a command. *)

Idle == [op |-> "none", phase |-> "idle", addr |-> 0, n |-> 0, at |-> 0,
         tries |-> 0, got |-> <<>>, poke |-> R("IDCODE")]
NoResult == [op |-> "none", addr |-> 0, n |-> 0, status |-> "none", got |-> <<>>]

\* auto_increment_words, one too many.
EndsSpanLate == \/ job.at + 1 = job.n
                \/ IF job.op \in {"read", "write"}
                   THEN Plus(job.addr, job.at) \in Boundaries /\ job.at > 0
                   ELSE (job.at + 1) % Block = 0

\* auto_increment_words, or a chunk of raw_read_block: the word at hand is the
\* last of its span.
EndsSpan == \/ job.at + 1 = job.n
            \/ IF job.op \in {"read", "write"}
               THEN Plus(job.addr, job.at + 1) \in Boundaries
               ELSE (job.at + 1) % Block = 0

\* The last word of a span read like those before it, not from RDBUFF.
CollectAll == R("DRW")
\* raw_read_register_block: every word but the last arrives with the next read.
Collect == IF EndsSpan THEN R("RDBUFF") ELSE R("DRW")

Request ==
  CASE job.phase = "idcode" -> R("IDCODE")
    [] job.phase \in {"clear", "abort"} -> W("ABORT", 0)
    [] job.phase \in {"bank", "select"} -> W("SELECT", BankZero)
    [] job.phase = "power"  -> W("POWER", 0)
    [] job.phase = "status" -> R("STATUS")
    [] job.phase = "csw"    -> W("CSW", WordCsw)
    [] job.phase = "tar"    -> W("TAR", Plus(job.addr, job.at))
    [] job.phase = "post"   -> R("DRW")
    [] job.phase = "word"   -> Collect
    [] job.phase = "put"    -> W("DRW", NewWord(Plus(job.addr, job.at)))
    [] job.phase = "drain"  -> R("RDBUFF")
    [] job.phase = "poke"   -> job.poke

\* write_words that trusts its last acknowledgement.
AfterLastUndrained == "done"
\* write_words reads RDBUFF before it believes its last write.
AfterLast == IF job.op = "write" THEN "drain" ELSE "done"

AfterWord == IF job.at + 1 = job.n THEN "done"
             ELSE IF ~EndsSpan THEN "word"
             ELSE IF job.op = "read" THEN "tar" ELSE "post"
AfterPut  == IF job.at + 1 = job.n THEN AfterLast
             ELSE IF job.op = "write" /\ EndsSpan THEN "tar" ELSE "put"

Following == [idcode |-> "clear", clear |-> "bank", bank |-> "power",
              power |-> "status", status |-> "done", select |-> "csw",
              csw |-> "tar", tar |-> IF job.op = "read" THEN "post" ELSE "put",
              post |-> "word", word |-> AfterWord, put |-> AfterPut,
              drain |-> "done", poke |-> "done"]

Ends(status, got) ==
  /\ job' = Idle
  /\ result' = [op |-> job.op, addr |-> job.addr, n |-> job.n,
                status |-> status, got |-> got]

\* select_bank_zero records each write once transfer() has returned Ok.
Recorded == CASE job.phase = "select" -> [link EXCEPT !.selected = "zero", !.csw = FALSE]
              [] job.phase = "csw"    -> [link EXCEPT !.csw = TRUE]
              [] OTHER                -> link

Proceeds(value) ==
  LET got  == IF job.phase = "word" THEN Append(job.got, value) ELSE job.got
      next == Following[job.phase]
  IN /\ link' = Recorded
     /\ IF next = "done"
        THEN Ends(IF job.phase = "status" /\ value = 0 THEN "NoPower" ELSE "Ok", got)
        ELSE /\ job' = [job EXCEPT !.phase = next, !.tries = 0, !.got = got,
                          !.at = IF job.phase \in {"word", "put"} THEN @ + 1 ELSE @]
             /\ UNCHANGED result

-----------------------------------------------------------------------------
(* transfer(). *)

Transferring == job.phase \notin {"idle", "abort"}
Hears(x) == Transferring /\ ~target.lost /\ ~Refuses(x)

TransferOk ==
  /\ Hears(Request)
  /\ target' \in Performed(Request)
  /\ mem' = Stored(Request)
  /\ Proceeds(Returned(Request))
  /\ UNCHANGED <<commands, trouble, before, doubt>>

\* One retry more than there are.
TransferWaitTooOften ==
  /\ Hears(Request) /\ (IsAp(Request) \/ Request.reg = "RDBUFF")
  /\ IF job.tries <= Retries
     THEN job' = [job EXCEPT !.tries = @ + 1] /\ UNCHANGED result
     ELSE Ends("WaitTimeout", job.got)
  /\ UNCHANGED <<link, target, mem, commands, trouble, before, doubt>>

\* The access port is busy: the same transfer again, so many times.
TransferWait ==
  /\ Hears(Request) /\ (IsAp(Request) \/ Request.reg = "RDBUFF")
  /\ IF job.tries < Retries
     THEN job' = [job EXCEPT !.tries = @ + 1] /\ UNCHANGED result
     ELSE Ends("WaitTimeout", job.got)
  /\ UNCHANGED <<link, target, mem, commands, trouble, before, doubt>>

\* A fault tried again like a WAIT, and not counted.
FaultRetried ==
  /\ Transferring /\ ~target.lost /\ Refuses(Request)
  /\ job' = [job EXCEPT !.tries = IF @ = 0 THEN Retries ELSE 0]
  /\ UNCHANGED <<link, result, target, mem, commands, trouble, before, doubt>>

TransferFault ==
  /\ Transferring /\ ~target.lost /\ Refuses(Request)
  /\ job' = [job EXCEPT !.phase = "abort"]
  /\ UNCHANGED <<link, result, target, mem, commands, trouble, before, doubt>>

\* A fault reported, its sticky flag left where it is.
AbortSkipped ==
  /\ job.phase = "abort"
  /\ Ends("Fault", job.got)
  /\ UNCHANGED <<link, target, mem, commands, trouble, before, doubt>>

\* The flags cleared and a write taken up again, not reported.
AbortRetries ==
  /\ job.phase = "abort"
  /\ target' \in IF target.lost THEN {target} ELSE Performed(Request)
  /\ IF job.op \in {"write", "rawWrite"}
     THEN job' = [job EXCEPT !.phase = "put"] /\ UNCHANGED result
     ELSE Ends("Fault", job.got)
  /\ UNCHANGED <<link, mem, commands, trouble, before, doubt>>

\* The flags are cleared before the fault is reported.
Abort ==
  /\ job.phase = "abort"
  /\ target' \in IF target.lost THEN {target} ELSE Performed(Request)
  /\ Ends("Fault", job.got)
  /\ UNCHANGED <<link, mem, commands, trouble, before, doubt>>

\* Nobody answers: an acknowledgement of ones.
TransferUnanswered ==
  /\ Transferring /\ target.lost
  /\ Ends("Protocol", job.got)
  /\ UNCHANGED <<link, target, mem, commands, trouble, before, doubt>>

Troubled == trouble < MaxTrouble /\ trouble' = trouble + 1

\* A bit of a read's word or parity flips; the target has moved on.
TransferParity ==
  /\ Troubled /\ Hears(Request) /\ Request.read
  /\ target' \in Performed(Request)
  /\ Ends("Parity", job.got)
  /\ UNCHANGED <<link, mem, commands, before, doubt>>

\* A bit of an acknowledgement flips, or of a request: each end finishes the
\* transfer as it understood it, and they no longer agree on where it ends.
TransferGarbled ==
  /\ Troubled /\ Transferring /\ ~target.lost
  /\ \E t \in {target} \cup (IF Hears(Request) /\ Request.read
                             THEN Performed(Request) ELSE {}) :
       target' = [t EXCEPT !.lost = TRUE]
  /\ Ends("Protocol", job.got)
  /\ UNCHANGED <<link, mem, commands, before, doubt>>

\* A bit of a write's data flips: the target, which acknowledged it, drops it
\* and says so only to the transfer that follows.
DataDropped ==
  /\ Troubled /\ Hears(Request) /\ ~Request.read
  /\ target' = [target EXCEPT !.sticky = TRUE]
  /\ doubt' = (doubt \/ job.phase \in {"select", "csw"})
  /\ Proceeds(0)
  /\ UNCHANGED <<mem, commands, before>>

\* The same, of the ABORT that answers a fault; its outcome is ignored.
AbortLost ==
  /\ Troubled /\ job.phase = "abort" /\ ~target.lost
  /\ target' = [target EXCEPT !.sticky = TRUE]
  /\ Ends("Fault", job.got)
  /\ UNCHANGED <<link, mem, commands, before, doubt>>

\* The bus behind the access port refuses an access already acknowledged.
BusError ==
  /\ Troubled /\ Hears(Request) /\ Request.reg = "DRW"
  /\ target' = [target EXCEPT !.sticky = TRUE]
  /\ Proceeds(Returned(Request))
  /\ UNCHANGED <<mem, commands, before, doubt>>

-----------------------------------------------------------------------------
(* The commands. *)

Begins(op, phase, addr, n) ==
  /\ job.phase = "idle" /\ commands < MaxCommands
  /\ commands' = commands + 1
  /\ job' = [Idle EXCEPT !.op = op, !.phase = phase, !.addr = addr, !.n = n]
  /\ result' = NoResult
  /\ before' = mem

Forgotten == [link EXCEPT !.selected = "none", !.csw = FALSE]

\* Attach: a line reset, which brings a lost target back and empties the cache;
\* and the raw register writes that power the debug port up.
Connect ==
  /\ Begins("connect", "idcode", 0, 0)
  /\ link' = [Forgotten EXCEPT !.attached = TRUE]
  /\ target' = [target EXCEPT !.lost = FALSE]
  /\ doubt' = FALSE
  /\ UNCHANGED <<mem, trouble>>

\* disconnect
Detach ==
  /\ Begins("detach", "idle", 0, 0)
  /\ link' = [Forgotten EXCEPT !.attached = FALSE]
  /\ doubt' = FALSE
  /\ UNCHANGED <<target, mem, trouble>>

\* select_bank_zero writes what the cache does not hold.
FirstPhase == IF link.selected # "zero" THEN "select"
              ELSE IF ~link.csw THEN "csw" ELSE "tar"

\* read_words and write_words.
ReadWords ==
  /\ link.attached
  /\ \E a \in Starts, n \in Counts : Begins("read", FirstPhase, a, n)
  /\ UNCHANGED <<link, target, mem, trouble, doubt>>
WriteWords ==
  /\ link.attached
  /\ \E a \in Starts, n \in Counts : Begins("write", FirstPhase, a, n)
  /\ UNCHANGED <<link, target, mem, trouble, doubt>>

\* raw_read_block and raw_write_block of DRW, from wherever TAR is.
RawReadBlock ==
  /\ link.attached
  /\ \E n \in Counts : Begins("rawRead", "post", target.tar, n)
  /\ UNCHANGED <<link, target, mem, trouble, doubt>>
RawWriteBlock ==
  /\ link.attached
  /\ \E n \in Counts : Begins("rawWrite", "put", target.tar, n)
  /\ UNCHANGED <<link, target, mem, trouble, doubt>>

\* raw_write_register; SELECT and CSW are the cache's own.
RawWriteRegister ==
  /\ link.attached
  /\ job.phase = "idle" /\ commands < MaxCommands
  /\ commands' = commands + 1
  /\ \E x \in {W("SELECT", v) : v \in Codes} \cup {W("CSW", v) : v \in Codes}
              \cup {W("TAR", a) : a \in Starts} :
       /\ job' = [Idle EXCEPT !.op = "poke", !.phase = "poke", !.poke = x]
       /\ doubt' = (doubt \/ (x.reg \in {"SELECT", "CSW"} /\ link.selected = "zero"))
  /\ result' = NoResult /\ before' = mem
  /\ UNCHANGED <<link, target, mem, trouble>>

Init ==
  /\ link = [selected |-> "none", csw |-> FALSE, attached |-> FALSE]
  /\ job = Idle /\ result = NoResult
  /\ target \in [select : Codes, csw : Codes, tar : Starts, posted : {Junk},
                 sticky : BOOLEAN, powered : {FALSE}, lost : {FALSE}]
  /\ mem = [a \in Addresses |-> OldWord(a)]
  /\ commands = 0 /\ trouble = 0 /\ before = mem /\ doubt = FALSE

Transfer == TransferOk \/ TransferWait \/ TransferFault \/ Abort
            \/ TransferUnanswered \/ TransferParity \/ TransferGarbled
            \/ DataDropped \/ AbortLost \/ BusError
Command == Connect \/ Detach \/ ReadWords \/ WriteWords \/ RawReadBlock
           \/ RawWriteBlock \/ RawWriteRegister

Next == Transfer \/ Command

Spec == Init /\ [][Next]_vars

\* A transfer takes microseconds and transfer() does not wait for anything else.
FairSpec == Spec /\ WF_vars(Transfer)

-----------------------------------------------------------------------------
(* What the link promises. *)

Phases == {"idle", "abort"} \cup DOMAIN Following
Ops    == {"none", "connect", "detach", "read", "write", "rawRead", "rawWrite", "poke"}

\* Every variable keeps its type.
TypeOK ==
  /\ link \in [selected : {"none", "zero"}, csw : BOOLEAN, attached : BOOLEAN]
  /\ job \in [op : Ops, phase : Phases, addr : Addresses, n : Nat, at : Nat,
              tries : 0..Retries, got : Seq(WordValues), poke : Transfers]
  /\ result \in [op : Ops, addr : Addresses, n : Nat, got : Seq(WordValues),
                 status : {"none", "Ok", "NoPower", "WaitTimeout", "Fault",
                           "Protocol", "Parity"}]
  /\ target \in [select : Codes, csw : Codes, tar : Addresses, posted : WordValues,
                 sticky : BOOLEAN, powered : BOOLEAN, lost : BOOLEAN]
  /\ mem \in [Addresses -> WordValues] /\ before \in [Addresses -> WordValues]
  /\ commands \in 0..MaxCommands /\ trouble \in 0..MaxTrouble
  /\ doubt \in BOOLEAN

Done(op) == result.op = op /\ result.status = "Ok"
Words(r) == [i \in 1..r.n |-> mem[Plus(r.addr, i - 1)]]

\* Raw commands reach consecutive words when the access port is set up for it
\* and their block ends where the target's increment is still certain.
Aimed(r) == /\ target.select = BankZero /\ target.csw = WordCsw
            /\ \A i \in 1..(r.n - 1) : r.addr + i \in Addresses \ Boundaries

\* A MemoryRead that answers Ok carries, in order, the words of the block it was
\* asked for: whatever waited, was busy or failed before or between, wherever the
\* block crosses a boundary of the auto-increment.  A block that runs past the
\* last address goes on at zero, as the 32 bits of its address do.
WordsRight == Done("read") /\ ~doubt => result.got = Words(result)

\* So does a raw block read over a TAR the host has set, across the chunks
\* raw_read_block cuts it into.
RawWordsRight == Done("rawRead") /\ Aimed(result) => result.got = Words(result)

InBlock(r, a) == \E i \in 0..(r.n - 1) : a = Plus(r.addr, i)

\* A write_words that answers Ok has stored every word, and neither it nor one
\* that failed anywhere, with TAR written or not, has touched any other.
WritesLand ==
  /\ Done("write") /\ ~doubt => \A a \in Addresses :
       InBlock(result, a) => mem[a] = NewWord(a)
  /\ \A r \in {job, result} : r.op = "write" /\ ~doubt => \A a \in Addresses :
       mem[a] # before[a] => InBlock(r, a) /\ mem[a] = NewWord(a)

\* The words of a block that have been acknowledged.
Acknowledged ==
  IF job.op \in {"write", "rawWrite"} THEN {Plus(job.addr, i) : i \in 0..(job.at - 1)}
  ELSE IF Done("rawWrite") THEN {Plus(result.addr, i) : i \in 0..(result.n - 1)}
  ELSE {}

\* An acknowledged word that was not stored is never lost in silence: the flag
\* that makes the next transfer fault stands, also behind the Ok of a raw block
\* write, which does not wait for its last word.
LossTold ==
  \A r \in {job, result} :
    (r.op = "rawWrite" /\ Aimed(r)) \/ (r.op = "write" /\ ~doubt)
    => \A a \in Acknowledged : mem[a] = NewWord(a) \/ target.sticky

\* A Fault is reported with its cause cleared, so the next command is not refused
\* for it, unless the ABORT itself was lost.
FaultCleared ==
  [][job.phase # "idle" /\ result'.status = "Fault" /\ trouble' = trouble
       => ~target'.sticky]_vars

\* Every command ends: a busy, unpowered, faulting or absent target is given up.
CommandsEnd == job.phase # "idle" ~> job.phase = "idle"
=============================================================================
