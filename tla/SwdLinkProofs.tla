--------------------------- MODULE SwdLinkProofs ---------------------------
(***************************************************************************)
(* What SwdLink promises for every address space, region, block size, retry *)
(* count and number of faults, by one inductive invariant.                  *)
(***************************************************************************)
EXTENDS SwdLink, TLAPS

Blocks == {"read", "write", "rawRead", "rawWrite"}

\* Which command is in which phase; a command under way has no answer yet, and
\* only a target that heard a transfer has refused it.
Controlled ==
  /\ job.phase # "idle" => result = NoResult
  /\ job.phase = "idle" => job.op \in {"none", "detach"}
  /\ job.phase \in {"idcode", "clear", "bank", "power", "status"} => job.op = "connect"
  /\ job.phase \in {"select", "csw", "tar"} => job.op \in {"read", "write"}
  /\ job.phase \in {"post", "word"} => job.op \in {"read", "rawRead"}
  /\ job.phase = "put" => job.op \in {"write", "rawWrite"}
  /\ job.phase = "drain" => job.op = "write"
  /\ job.phase = "poke" => job.op = "poke"
  /\ job.phase = "abort" => ~target.lost

\* How far a block is.
Counted ==
  job.op \in Blocks =>
    /\ job.n \in 1..Space /\ job.at \in 0..job.n
    /\ job.phase \in {"select", "csw"} => job.at = 0
    /\ job.phase \in {"select", "csw", "tar", "post", "word", "put"} => job.at < job.n
    /\ job.phase = "drain" => job.at = job.n

\* What a raw register write may carry.
Poked ==
  job.phase = "poke" =>
    /\ job.poke.reg \in {"SELECT", "CSW", "TAR"} /\ ~job.poke.read
    /\ IF job.poke.reg = "TAR" THEN job.poke.value \in Starts
       ELSE job.poke.value \in Codes /\ (link.selected = "zero" => doubt)

\* The cache is right about the target.
Cached ==
  /\ link.csw => link.selected = "zero"
  /\ ~doubt /\ link.selected = "zero" =>
       target.select = BankZero /\ (link.csw => target.csw = WordCsw)
  /\ job.phase = "csw" => link.selected = "zero"
  /\ job.op \in {"read", "write"} /\ job.phase \in {"tar", "post", "word", "put", "drain"}
       => link.csw

\* A block that nothing has spoken against.
Sound == \/ job.op \in {"read", "write"} /\ ~doubt
         \/ job.op \in {"rawRead", "rawWrite"} /\ Aimed(job)

\* The word at hand is not the last that the target's increment leads to.
GoesOn == IF job.op = "read" THEN ~EndsSpan ELSE job.at + 1 < job.n

\* The target is where the link believes it to be, or refuses to go on.
Placed ==
  Sound /\ ~target.sticky =>
    /\ job.phase \in {"post", "put"} => target.tar = Plus(job.addr, job.at)
    /\ job.phase = "word" =>
         /\ target.posted = mem[Plus(job.addr, job.at)]
         /\ GoesOn => target.tar = Plus(job.addr, job.at + 1)

\* The words read so far.
Gotten ==
  Sound /\ job.op \in {"read", "rawRead"} =>
    /\ Len(job.got) = job.at
    /\ \A i \in 1..job.at : job.got[i] = mem[Plus(job.addr, i - 1)]

\* The words written so far.
Landed ==
  Sound /\ job.op \in {"write", "rawWrite"} =>
    \A i \in 0..(job.at - 1) :
      mem[Plus(job.addr, i)] = NewWord(Plus(job.addr, i)) \/ target.sticky

\* Nothing else was written.
OnlyBlock(r) ==
  r.op = "write" /\ ~doubt =>
    \A a \in Addresses : mem[a] # before[a] => InBlock(r, a) /\ mem[a] = NewWord(a)

\* The same of the command that was answered last.
Answered ==
  /\ WordsRight /\ RawWordsRight
  /\ OnlyBlock(result)
  /\ Done("write") /\ ~doubt =>
       \A a \in Addresses : InBlock(result, a) => mem[a] = NewWord(a)
  /\ Done("rawWrite") /\ Aimed(result) =>
       \A i \in 0..(result.n - 1) :
         mem[Plus(result.addr, i)] = NewWord(Plus(result.addr, i)) \/ target.sticky

IInv == /\ TypeOK /\ Controlled /\ Counted /\ Poked /\ Cached
        /\ Placed /\ Gotten /\ Landed /\ OnlyBlock(job) /\ Answered

-----------------------------------------------------------------------------
(* Addresses. *)

\* Addresses are closed under Plus, which goes on one at a time.
LEMMA PlusFacts ==
  ASSUME NEW a \in Addresses, NEW i \in 0..Space
  PROVE  /\ Plus(a, i) \in Addresses
         /\ Plus(a, 0) = a
         /\ i < Space => Plus(Plus(a, i), 1) = Plus(a, i + 1)
BY SwdAssumption DEF Addresses, Plus

\* What registers may hold is a word.
LEMMA CodeFacts ==
  /\ Codes = {0, 1} /\ BankZero \in Codes /\ WordCsw \in Codes
  /\ Codes \subseteq WordValues /\ Starts \subseteq Addresses
  /\ Addresses \subseteq WordValues /\ Junk \in WordValues
  /\ \A a \in Addresses : NewWord(a) \in WordValues /\ OldWord(a) \in WordValues
BY SwdAssumption
  DEF Codes, BankZero, WordCsw, WordValues, Addresses, NewWord, OldWord, Junk

-----------------------------------------------------------------------------
(* The parts of the state. *)

JobType == [op : Ops, phase : Phases, addr : Addresses, n : Nat, at : Nat,
            tries : 0..Retries, got : Seq(WordValues), poke : Transfers]
ResultType == [op : Ops, addr : Addresses, n : Nat, got : Seq(WordValues),
               status : {"none", "Ok", "NoPower", "WaitTimeout", "Fault",
                         "Protocol", "Parity"}]
LinkType == [selected : {"none", "zero"}, csw : BOOLEAN, attached : BOOLEAN]
TargetType == [select : Codes, csw : Codes, tar : Addresses, posted : WordValues,
               sticky : BOOLEAN, powered : BOOLEAN, lost : BOOLEAN]

\* TypeOK, variable by variable.
LEMMA TypeParts ==
  TypeOK <=> /\ link \in LinkType /\ job \in JobType
             /\ result \in ResultType /\ target \in TargetType
             /\ mem \in [Addresses -> WordValues]
             /\ before \in [Addresses -> WordValues]
             /\ commands \in 0..MaxCommands /\ trouble \in 0..MaxTrouble
             /\ doubt \in BOOLEAN
BY DEF TypeOK, LinkType, JobType, ResultType, TargetType

\* Every transfer the link asks for is one.
LEMMA TransferFacts ==
  ASSUME NEW r \in {"IDCODE", "ABORT", "SELECT", "POWER", "STATUS", "CSW",
                    "TAR", "DRW", "RDBUFF"},
         NEW v \in WordValues
  PROVE  R(r) \in Transfers /\ W(r, v) \in Transfers
BY CodeFacts, SwdAssumption DEF R, W, Transfers, WordValues

\* No command and no answer have their types.
LEMMA IdleTyped ==
  /\ Idle \in JobType /\ NoResult \in ResultType
  /\ Idle.phase = "idle" /\ Idle.op = "none"
  /\ NoResult.op = "none" /\ NoResult.status = "none"
<1>1. R("IDCODE") \in Transfers
  BY TransferFacts, CodeFacts
<1>2. 0 \in Addresses /\ 0 \in 0..Retries /\ <<>> \in Seq(WordValues)
  BY SwdAssumption DEF Addresses
<1>3. "idle" \in Phases /\ "none" \in Ops
  BY DEF Phases, Ops
<1>4. QED
  BY <1>1, <1>2, <1>3 DEF Idle, NoResult, JobType, ResultType

\* The phases, written out.
LEMMA PhaseFacts ==
  /\ DOMAIN Following = {"idcode", "clear", "bank", "power", "status", "select",
                         "csw", "tar", "post", "word", "put", "drain", "poke"}
  /\ Phases = {"idle", "abort"} \cup DOMAIN Following
BY DEF Following, Phases

\* The set of phases, though written with a function of the state, is constant.
LEMMA PhasesStay ==
  Phases' = Phases
BY DEF Following, Phases

\* TypeOK in the next state, variable by variable.
LEMMA TypedNext ==
  ASSUME link' \in LinkType, job' \in JobType, result' \in ResultType,
         target' \in TargetType, mem' \in [Addresses -> WordValues],
         before' \in [Addresses -> WordValues], commands' \in 0..MaxCommands,
         trouble' \in 0..MaxTrouble, doubt' \in BOOLEAN
  PROVE  TypeOK'
BY PhasesStay DEF TypeOK, LinkType, JobType, ResultType, TargetType

\* The phase after each phase.
LEMMA FollowingIs ==
  /\ Following["idcode"] = "clear" /\ Following["clear"] = "bank"
  /\ Following["bank"] = "power"   /\ Following["power"] = "status"
  /\ Following["status"] = "done"  /\ Following["select"] = "csw"
  /\ Following["csw"] = "tar"      /\ Following["post"] = "word"
  /\ Following["tar"] = IF job.op = "read" THEN "post" ELSE "put"
  /\ Following["word"] = AfterWord /\ Following["put"] = AfterPut
  /\ Following["drain"] = "done"   /\ Following["poke"] = "done"
BY DEF Following

\* Every phase is followed by a phase or by the end.
LEMMA NextPhase ==
  ASSUME job.phase \in DOMAIN Following
  PROVE  Following[job.phase] \in Phases \cup {"done"}
BY PhaseFacts, FollowingIs DEF AfterWord, AfterPut, AfterLast

-----------------------------------------------------------------------------
(* One transfer. *)

\* The transfer of each phase.
LEMMA RequestIs ==
  /\ job.phase = "idcode" => Request = R("IDCODE")
  /\ job.phase \in {"clear", "abort"} => Request = W("ABORT", 0)
  /\ job.phase \in {"bank", "select"} => Request = W("SELECT", BankZero)
  /\ job.phase = "power" => Request = W("POWER", 0)
  /\ job.phase = "status" => Request = R("STATUS")
  /\ job.phase = "csw" => Request = W("CSW", WordCsw)
  /\ job.phase = "tar" => Request = W("TAR", Plus(job.addr, job.at))
  /\ job.phase = "post" => Request = R("DRW")
  /\ job.phase = "word" => Request = Collect
  /\ job.phase = "put" => Request = W("DRW", NewWord(Plus(job.addr, job.at)))
  /\ job.phase = "drain" => Request = R("RDBUFF")
  /\ job.phase = "poke" => Request = job.poke
BY DEF Request

\* The target's increment, inside a region.
LEMMA IncrementedIs ==
  ASSUME NEW t \in TargetType, NEW u \in Incremented(t)
  PROVE  /\ u \in TargetType
         /\ u = [t EXCEPT !.tar = u.tar]
         /\ t.csw = WordCsw /\ Plus(t.tar, 1) \notin Boundaries
              => u.tar = Plus(t.tar, 1)
<1>1. CASE t.csw # WordCsw
  BY <1>1 DEF Incremented, TargetType
<1>2. CASE t.csw = WordCsw
  <2>1. PICK a \in Addresses :
          /\ u = [t EXCEPT !.tar = a]
          /\ a = Plus(t.tar, 1) \/ Plus(t.tar, 1) \in Boundaries
    BY <1>2 DEF Incremented
  <2>2. QED
    BY <1>2, <2>1 DEF TargetType
<1>3. QED
  BY <1>1, <1>2

\* What an accepted transfer makes of the target, in each phase.
LEMMA Accepts ==
  ASSUME IInv, Transferring, NEW t \in Performed(Request)
  PROVE  /\ t \in TargetType /\ t.lost = target.lost
         /\ job.phase \in {"idcode", "status", "drain"} => t = target
         /\ job.phase = "clear" => t = [target EXCEPT !.sticky = FALSE]
         /\ job.phase \in {"bank", "select"} => t = [target EXCEPT !.select = BankZero]
         /\ job.phase = "power" => t = [target EXCEPT !.powered = TRUE]
         /\ job.phase = "csw" =>
              t = IF target.select = BankZero THEN [target EXCEPT !.csw = WordCsw]
                  ELSE target
         /\ job.phase = "tar" =>
              t = IF target.select = BankZero
                  THEN [target EXCEPT !.tar = Plus(job.addr, job.at)] ELSE target
         /\ job.phase = "post" \/ (job.phase = "word" /\ ~EndsSpan) =>
              IF target.select = BankZero
              THEN t \in Incremented([target EXCEPT !.posted = mem[target.tar]])
              ELSE t = [target EXCEPT !.posted = Junk]
         /\ job.phase = "word" /\ EndsSpan => t = target
         /\ job.phase = "put" =>
              IF target.select = BankZero THEN t \in Incremented(target)
              ELSE t = target
         /\ job.phase = "poke" =>
              t = CASE job.poke.reg = "SELECT" -> [target EXCEPT !.select = job.poke.value]
                    [] job.poke.reg = "CSW" /\ target.select = BankZero ->
                         [target EXCEPT !.csw = job.poke.value]
                    [] job.poke.reg = "TAR" /\ target.select = BankZero ->
                         [target EXCEPT !.tar = job.poke.value]
                    [] OTHER -> target
<1>1. job \in JobType /\ target \in TargetType /\ mem \in [Addresses -> WordValues]
  BY TypeParts DEF IInv
<1>2. job.phase \in DOMAIN Following
  BY <1>1, PhaseFacts DEF Transferring, JobType
<1>3. CASE job.phase \in {"idcode", "clear", "bank", "select", "power", "status",
                          "csw", "drain"}
  <2>1. BankZero \in Codes /\ WordCsw \in Codes
    BY CodeFacts
  <2>2. CASE job.phase \in {"idcode", "status", "drain"}
    <3>1. Request.reg \in {"IDCODE", "STATUS", "RDBUFF"}
      BY <2>2, RequestIs DEF R
    <3>2. t = target
      BY <3>1 DEF Performed, IsAp
    <3>3. QED
      BY <1>1, <2>2, <3>2
  <2>3. CASE job.phase = "clear"
    <3>1. t = [target EXCEPT !.sticky = FALSE]
      BY <2>3, RequestIs DEF W, Performed, IsAp
    <3>2. QED
      BY <1>1, <2>3, <3>1 DEF TargetType
  <2>4. CASE job.phase \in {"bank", "select"}
    <3>1. t = [target EXCEPT !.select = BankZero]
      BY <2>4, RequestIs DEF W, Performed, IsAp
    <3>2. QED
      BY <1>1, <2>1, <2>4, <3>1 DEF TargetType
  <2>5. CASE job.phase = "power"
    <3>1. t = [target EXCEPT !.powered = TRUE]
      BY <2>5, RequestIs DEF W, Performed, IsAp
    <3>2. QED
      BY <1>1, <2>5, <3>1 DEF TargetType
  <2>6. CASE job.phase = "csw"
    <3>1. t = IF target.select = BankZero THEN [target EXCEPT !.csw = WordCsw]
              ELSE target
      BY <2>6, RequestIs DEF W, Performed, IsAp
    <3>2. QED
      BY <1>1, <2>1, <2>6, <3>1 DEF TargetType
  <2>7. QED
    BY <1>3, <2>2, <2>3, <2>4, <2>5, <2>6
<1>4. CASE job.phase = "tar"
  <2>1. Plus(job.addr, job.at) \in Addresses
    <3>1. job.at \in 0..Space
      BY <1>1, <1>4, SwdAssumption DEF IInv, Controlled, Counted, Blocks, JobType
    <3>2. QED
      BY <1>1, <3>1, PlusFacts DEF JobType
  <2>2. QED
    BY <1>1, <1>4, <2>1, RequestIs DEF Performed, W, IsAp, TargetType
<1>5. CASE job.phase = "post" \/ (job.phase = "word" /\ ~EndsSpan)
  <2>1. Request = R("DRW")
    BY <1>5, RequestIs DEF Collect
  <2>2. CASE target.select = BankZero
    <3>1. [target EXCEPT !.posted = mem[target.tar]] \in TargetType
      BY <1>1 DEF TargetType
    <3>2. t \in Incremented([target EXCEPT !.posted = mem[target.tar]])
      BY <2>1, <2>2 DEF Performed, R, IsAp
    <3>3. t \in TargetType /\ t.lost = target.lost
      BY <1>1, <3>1, <3>2, IncrementedIs DEF TargetType
    <3>4. QED
      BY <1>5, <2>2, <3>2, <3>3
  <2>3. CASE target.select # BankZero
    <3>1. t = [target EXCEPT !.posted = Junk]
      BY <2>1, <2>3 DEF Performed, R, IsAp
    <3>2. QED
      BY <1>1, <1>5, <2>3, <3>1, CodeFacts DEF TargetType
  <2>4. QED
    BY <2>2, <2>3
<1>6. CASE job.phase = "word" /\ EndsSpan
  BY <1>1, <1>6, RequestIs DEF Collect, Performed, R, IsAp
<1>7. CASE job.phase = "put"
  <2>1. Request.reg = "DRW" /\ ~Request.read
    BY <1>7, RequestIs DEF W
  <2>2. CASE target.select = BankZero
    <3>1. t \in Incremented(target)
      BY <2>1, <2>2 DEF Performed, IsAp
    <3>2. QED
      BY <1>1, <1>7, <2>2, <3>1, IncrementedIs DEF TargetType
  <2>3. CASE target.select # BankZero
    <3>1. t = target
      BY <2>1, <2>3 DEF Performed, IsAp
    <3>2. QED
      BY <1>1, <1>7, <2>3, <3>1
  <2>4. QED
    BY <2>2, <2>3
<1>8. CASE job.phase = "poke"
  <2>1. /\ job.poke.reg \in {"SELECT", "CSW", "TAR"} /\ ~job.poke.read
        /\ job.poke.reg = "TAR" => job.poke.value \in Addresses
        /\ job.poke.reg # "TAR" => job.poke.value \in Codes
    BY <1>8, CodeFacts DEF IInv, Poked
  <2>2. Request = job.poke
    BY <1>8, RequestIs
  <2>3. CASE job.poke.reg = "SELECT"
    <3>1. t = [target EXCEPT !.select = job.poke.value]
      BY <2>2, <2>3 DEF Performed, IsAp
    <3>2. QED
      BY <1>1, <1>8, <2>1, <2>3, <3>1 DEF TargetType
  <2>4. CASE job.poke.reg = "CSW"
    BY <1>1, <1>8, <2>1, <2>2, <2>4 DEF Performed, IsAp, TargetType
  <2>5. CASE job.poke.reg = "TAR"
    BY <1>1, <1>8, <2>1, <2>2, <2>5 DEF Performed, IsAp, TargetType
  <2>6. QED
    BY <2>1, <2>3, <2>4, <2>5
<1>9. QED
  BY <1>2, <1>3, <1>4, <1>5, <1>6, <1>7, <1>8, PhaseFacts

\* What the link makes of it.
LEMMA ProceedsIs ==
  ASSUME IInv, Transferring, NEW v \in WordValues, Proceeds(v)
  PROVE  LET got == IF job.phase = "word" THEN Append(job.got, v) ELSE job.got
             next == Following[job.phase]
         IN /\ link' = Recorded /\ link' \in LinkType
            /\ got \in Seq(WordValues)
            /\ next # "done" =>
                 /\ job' \in JobType /\ result' = result
                 /\ job'.phase = next /\ job'.op = job.op /\ job'.addr = job.addr
                 /\ job'.n = job.n /\ job'.got = got
                 /\ job'.at = IF job.phase \in {"word", "put"} THEN job.at + 1
                              ELSE job.at
            /\ next = "done" =>
                 /\ job' = Idle /\ result' \in ResultType
                 /\ result'.op = job.op /\ result'.addr = job.addr
                 /\ result'.n = job.n /\ result'.got = got
                 /\ result'.status = "Ok" \/ job.phase = "status"
<1> DEFINE got == IF job.phase = "word" THEN Append(job.got, v) ELSE job.got
           next == Following[job.phase]
<1>1. job \in JobType /\ link \in LinkType
  BY TypeParts DEF IInv
<1>2. next \in Phases \cup {"done"}
  BY <1>1, NextPhase, PhaseFacts DEF Transferring, JobType
<1>3. got \in Seq(WordValues)
  BY <1>1 DEF JobType
<1>4. link' = Recorded /\ link' \in LinkType
  BY <1>1 DEF Proceeds, Recorded, LinkType
<1> HIDE DEF got, next
<1>5. ASSUME next # "done"
      PROVE  /\ job' \in JobType /\ result' = result
             /\ job'.phase = next /\ job'.op = job.op /\ job'.addr = job.addr
             /\ job'.n = job.n /\ job'.got = got
             /\ job'.at = IF job.phase \in {"word", "put"} THEN job.at + 1
                          ELSE job.at
  <2>1. /\ job' = [job EXCEPT !.phase = next, !.tries = 0, !.got = got,
                    !.at = IF job.phase \in {"word", "put"} THEN @ + 1 ELSE @]
        /\ result' = result
    BY <1>5 DEF Proceeds, got, next
  <2> DEFINE at == IF job.phase \in {"word", "put"} THEN job.at + 1 ELSE job.at
  <2>2. job' = [job EXCEPT !.phase = next, !.tries = 0, !.got = got, !.at = at]
    BY <1>1, <2>1 DEF JobType
  <2>3. next \in Phases /\ 0 \in 0..Retries /\ at \in Nat
    BY <1>1, <1>2, <1>5, SwdAssumption DEF JobType
  <2> HIDE DEF at
  <2>4. /\ job' \in JobType /\ job'.phase = next /\ job'.op = job.op
        /\ job'.addr = job.addr /\ job'.n = job.n /\ job'.got = got /\ job'.at = at
    BY <1>1, <1>3, <2>2, <2>3 DEF JobType
  <2>5. QED
    BY <2>1, <2>4 DEF at
<1>6. ASSUME next = "done"
      PROVE  /\ job' = Idle /\ result' \in ResultType
             /\ result'.op = job.op /\ result'.addr = job.addr
             /\ result'.n = job.n /\ result'.got = got
             /\ result'.status = "Ok" \/ job.phase = "status"
  <2>1. Ends(IF job.phase = "status" /\ v = 0 THEN "NoPower" ELSE "Ok", got)
    BY <1>6 DEF Proceeds, got, next
  <2>2. QED
    BY <1>1, <1>3, <2>1 DEF Ends, JobType, ResultType
<1>7. QED
  BY <1>3, <1>4, <1>5, <1>6 DEF got, next

\* A transfer after which the link goes on: accepted, or acknowledged and dropped.
Accepted == target' \in Performed(Request) /\ mem' = Stored(Request) /\ doubt' = doubt
Dropped  == /\ target' = [target EXCEPT !.sticky = TRUE] /\ mem' = mem
            /\ doubt' = (doubt \/ job.phase \in {"select", "csw"})
Moved(v) == /\ Hears(Request) /\ (Accepted \/ Dropped) /\ Proceeds(v)
            /\ v \in WordValues /\ (Request.read => v = Returned(Request))
            /\ before' = before /\ commands' = commands
            /\ trouble' \in 0..MaxTrouble

\* Every transfer the link takes for done is one of these.
LEMMA MovesAre ==
  ASSUME IInv, TransferOk \/ DataDropped \/ BusError
  PROVE  \E v : Moved(v)
<1>1. target \in TargetType /\ trouble \in 0..MaxTrouble
  BY TypeParts DEF IInv
<1>2. Returned(Request) \in WordValues /\ 0 \in WordValues
  BY <1>1, CodeFacts, SwdAssumption DEF Returned, TargetType, WordValues
<1>3. Troubled => trouble' \in 0..MaxTrouble
  BY <1>1, SwdAssumption DEF Troubled
<1>4. CASE TransferOk
  <2>1. Moved(Returned(Request))
    BY <1>1, <1>2, <1>4 DEF TransferOk, Moved, Accepted
  <2>2. QED
    BY <2>1
<1>5. CASE DataDropped
  <2>1. Moved(0)
    BY <1>2, <1>3, <1>5 DEF DataDropped, Moved, Dropped
  <2>2. QED
    BY <2>1
<1>6. CASE BusError
  <2>1. job.phase \notin {"select", "csw"}
    BY <1>6, RequestIs DEF BusError, W
  <2>2. doubt' = (doubt \/ job.phase \in {"select", "csw"})
    <3>1. doubt \in BOOLEAN /\ doubt' = doubt
      BY <1>6, TypeParts DEF BusError, IInv
    <3>2. QED
      BY <2>1, <3>1
  <2>3. Moved(Returned(Request))
    BY <1>2, <1>3, <1>6, <2>2 DEF BusError, Moved, Dropped
  <2>4. QED
    BY <2>3
<1>7. QED
  BY <1>4, <1>5, <1>6

-----------------------------------------------------------------------------
(* What a command leaves when it ends. *)

\* A command that has ended leaves nothing to say of the one under way.
LEMMA IdleKeeps ==
  ASSUME job' = Idle
  PROVE  /\ Controlled' /\ Counted' /\ Poked' /\ Placed' /\ Gotten' /\ Landed'
         /\ OnlyBlock(job)'
<1>1. job'.phase = "idle" /\ job'.op = "none"
  BY IdleTyped
<1>2. ~Sound'
  BY <1>1 DEF Sound
<1>3. QED
  BY <1>1, <1>2
     DEF Controlled, Counted, Poked, Placed, Gotten, Landed, OnlyBlock, Blocks

\* A command that ends without an Ok promises only that it wrote nothing else.
LEMMA FailureKeeps ==
  ASSUME IInv, job.phase # "idle", NEW s, Ends(s, job.got),
         s \in {"WaitTimeout", "Fault", "Protocol", "Parity"},
         target' \in TargetType,
         target'.select = target.select, target'.csw = target.csw,
         UNCHANGED <<link, mem, commands, before, doubt>>,
         trouble' \in 0..MaxTrouble
  PROVE  IInv'
<1>1. job \in JobType /\ link \in LinkType
  BY TypeParts DEF IInv
<1>2. /\ job' = Idle /\ result' \in ResultType
      /\ result'.op = job.op /\ result'.addr = job.addr /\ result'.n = job.n
      /\ result'.status = s
  BY <1>1 DEF Ends, JobType, ResultType
<1>3. TypeOK'
  BY <1>2, TypeParts, TypedNext, IdleTyped DEF IInv
<1>4. Cached'
  BY <1>2, IdleTyped DEF IInv, Cached
<1>5. Answered'
  <2>1. ~Done("read")' /\ ~Done("rawRead")' /\ ~Done("write")' /\ ~Done("rawWrite")'
    BY <1>2 DEF Done
  <2>2. OnlyBlock(result)'
    BY <1>2 DEF IInv, OnlyBlock, InBlock
  <2>3. QED
    BY <2>1, <2>2 DEF Answered, WordsRight, RawWordsRight
<1>6. QED
  BY <1>2, <1>3, <1>4, <1>5, IdleKeeps DEF IInv

-----------------------------------------------------------------------------
(* A transfer after which the link goes on. *)

\* What such a transfer finds and keeps, whatever the phase.
LEMMA MovedBasics ==
  ASSUME IInv, NEW v, Moved(v)
  PROVE  /\ Transferring /\ job.phase \in DOMAIN Following
         /\ job \in JobType /\ target \in TargetType /\ link \in LinkType
         /\ target' \in TargetType /\ target'.lost = target.lost
         /\ doubt' \in BOOLEAN /\ (doubt => doubt')
         /\ mem \in [Addresses -> WordValues] /\ mem' \in [Addresses -> WordValues]
         /\ job.phase # "put" => mem' = mem
         /\ job.phase \in {"select", "csw", "tar", "post", "word", "put", "drain"}
              => ~target.sticky
         /\ job.op \in Blocks => Plus(job.addr, job.at) \in Addresses
<1>1. /\ job \in JobType /\ target \in TargetType /\ link \in LinkType
      /\ mem \in [Addresses -> WordValues] /\ doubt \in BOOLEAN
  BY TypeParts DEF IInv
<1>2. Transferring /\ ~Refuses(Request) /\ (Accepted \/ Dropped)
  BY DEF Moved, Hears
<1>3. job.phase \in DOMAIN Following
  BY <1>1, <1>2, PhaseFacts DEF Transferring, JobType
<1>4. target' \in TargetType /\ target'.lost = target.lost
  <2>1. CASE Accepted
    BY <1>2, <2>1, Accepts DEF Accepted
  <2>2. CASE Dropped
    BY <1>1, <2>2 DEF Dropped, TargetType
  <2>3. QED
    BY <1>2, <2>1, <2>2
<1>5. doubt' \in BOOLEAN /\ (doubt => doubt')
  <2>1. CASE Accepted
    BY <1>1, <2>1 DEF Accepted
  <2>2. CASE Dropped
    <3>1. doubt' = (doubt \/ job.phase \in {"select", "csw"})
      BY <2>2 DEF Dropped
    <3>2. QED
      BY <1>1, <3>1
  <2>3. QED
    BY <1>2, <2>1, <2>2
<1>6. job.op \in Blocks => Plus(job.addr, job.at) \in Addresses
  <2>1. job.op \in Blocks => job.at \in 0..Space
    BY <1>1, SwdAssumption DEF IInv, Counted
  <2>2. QED
    BY <1>1, <2>1, PlusFacts DEF JobType
<1>7. job.phase # "put" => mem' = mem
  <2>1. ASSUME job.phase # "put" PROVE ~(Request.reg = "DRW" /\ ~Request.read)
    <3>1. CASE job.phase = "poke"
      BY <3>1, RequestIs DEF IInv, Poked
    <3>2. CASE job.phase = "word"
      BY <3>2, RequestIs DEF Collect, R
    <3>3. CASE job.phase \in {"idcode", "clear", "bank", "power", "status", "select"}
      BY <3>3, RequestIs DEF R, W
    <3>4. CASE job.phase \in {"csw", "tar", "post", "drain"}
      BY <3>4, RequestIs DEF R, W
    <3>5. QED
      BY <1>3, <2>1, <3>1, <3>2, <3>3, <3>4, PhaseFacts
  <2>2. QED
    BY <1>2, <2>1 DEF Accepted, Dropped, Stored
<1>8. mem' \in [Addresses -> WordValues]
  <2>1. CASE job.phase = "put"
    <3>1. job.op \in Blocks
      BY <2>1 DEF IInv, Controlled, Blocks
    <3>2. Request.value \in WordValues
      BY <1>6, <2>1, <3>1, RequestIs, CodeFacts DEF W
    <3>3. QED
      BY <1>1, <1>2, <3>2 DEF Accepted, Dropped, Stored
  <2>2. QED
    BY <1>1, <1>7, <2>1
<1>9. job.phase \in {"select", "csw", "tar", "post", "word", "put", "drain"}
              => ~target.sticky
  BY <1>2, RequestIs DEF Refuses, Exempt, Collect, R, W
<1>10. QED
  BY <1>1, <1>2, <1>3, <1>4, <1>5, <1>6, <1>7, <1>8, <1>9

\* It keeps the types.
LEMMA MovedTyped ==
  ASSUME IInv, NEW v, Moved(v)
  PROVE  TypeOK'
<1>1. /\ target' \in TargetType /\ mem' \in [Addresses -> WordValues]
      /\ doubt' \in BOOLEAN /\ Transferring
  BY MovedBasics
<1>2. /\ v \in WordValues /\ Proceeds(v) /\ before' = before
      /\ commands' = commands /\ trouble' \in 0..MaxTrouble
  BY DEF Moved
<1>3. /\ link \in LinkType /\ result \in ResultType
      /\ before \in [Addresses -> WordValues] /\ commands \in 0..MaxCommands
  BY TypeParts DEF IInv
<1>4. link' \in LinkType /\ job' \in JobType /\ result' \in ResultType
  BY <1>1, <1>2, <1>3, ProceedsIs, IdleTyped
<1>5. QED
  BY <1>1, <1>2, <1>3, <1>4, TypedNext

\* The cache stays right: what is recorded was accepted, or is in doubt.
LEMMA MovedCached ==
  ASSUME IInv, NEW v, Moved(v)
  PROVE  Cached'
<1>1. /\ Transferring /\ job.phase \in DOMAIN Following
      /\ job \in JobType /\ target \in TargetType /\ link \in LinkType
      /\ doubt' \in BOOLEAN /\ (doubt => doubt')
  BY MovedBasics
<1>2. v \in WordValues /\ Proceeds(v) /\ (Accepted \/ Dropped)
  BY DEF Moved
<1>3. /\ link' = Recorded
      /\ \/ job'.phase = Following[job.phase] /\ job'.op = job.op
         \/ job'.phase = "idle" /\ job'.op = "none"
  BY <1>1, <1>2, ProceedsIs, IdleTyped
<1>4. Cached /\ Controlled /\ Poked
  BY DEF IInv
<1>5. CASE job.phase = "select"
  <2>1. link' = [link EXCEPT !.selected = "zero", !.csw = FALSE]
    BY <1>3, <1>5 DEF Recorded
  <2>2. ~doubt' => target'.select = BankZero
    BY <1>1, <1>2, <1>5, Accepts DEF Accepted, Dropped, TargetType
  <2>3. job'.phase \in {"csw", "idle"}
    BY <1>3, <1>5, FollowingIs
  <2>4. QED
    BY <1>1, <2>1, <2>2, <2>3 DEF Cached, LinkType
<1>6. CASE job.phase = "csw"
  <2>1. link' = [link EXCEPT !.csw = TRUE]
    BY <1>3, <1>6 DEF Recorded
  <2>2. ~doubt' => target'.select = BankZero /\ target'.csw = WordCsw
    BY <1>1, <1>2, <1>4, <1>6, Accepts DEF Accepted, Dropped, TargetType, Cached
  <2>3. QED
    BY <1>1, <1>4, <1>6, <2>1, <2>2 DEF Cached, LinkType
<1>7. CASE job.phase \notin {"select", "csw"}
  <2>1. link' = link
    BY <1>3, <1>7 DEF Recorded
  <2>2. ~doubt' /\ link.selected = "zero" =>
          /\ target'.select = BankZero
          /\ target'.csw = target.csw \/ ~link.csw
    <3>1. SUFFICES ASSUME ~doubt', link.selected = "zero"
                   PROVE  target'.select = BankZero /\ target'.csw = target.csw
      OBVIOUS
    <3>2. target.select = BankZero
      BY <1>1, <1>4, <3>1 DEF Cached
    <3>3. CASE Dropped
      BY <1>1, <3>2, <3>3 DEF Dropped, TargetType
    <3>4. CASE Accepted
      <4>1. CASE job.phase = "poke"
        <5>1. job.poke.reg = "TAR"
          BY <1>1, <1>4, <3>1, <4>1 DEF Poked
        <5>2. target' = [target EXCEPT !.tar = job.poke.value]
          BY <1>1, <3>2, <3>4, <4>1, <5>1, Accepts DEF Accepted
        <5>3. QED
          BY <1>1, <3>2, <5>2 DEF TargetType
      <4>2. CASE job.phase \in {"idcode", "status", "drain", "clear", "bank", "power", "tar"}
        BY <1>1, <3>2, <3>4, <4>2, Accepts DEF Accepted, TargetType
      <4>3. CASE job.phase \in {"post", "word"}
        <5>1. CASE job.phase = "word" /\ EndsSpan
          BY <1>1, <3>2, <3>4, <5>1, Accepts DEF Accepted
        <5>2. CASE ~(job.phase = "word" /\ EndsSpan)
          <6>1. target' \in Incremented([target EXCEPT !.posted = mem[target.tar]])
            BY <1>1, <3>2, <3>4, <4>3, <5>2, Accepts DEF Accepted
          <6>2. [target EXCEPT !.posted = mem[target.tar]] \in TargetType
            BY <1>1, MovedBasics DEF TargetType
          <6>3. QED
            BY <1>1, <3>2, <6>1, <6>2, IncrementedIs DEF TargetType
        <5>3. QED
          BY <5>1, <5>2
      <4>4. CASE job.phase = "put"
        <5>1. target' \in Incremented(target)
          BY <1>1, <3>2, <3>4, <4>4, Accepts DEF Accepted
        <5>2. QED
          BY <1>1, <3>2, <5>1, IncrementedIs DEF TargetType
      <4>5. QED
        BY <1>1, <1>7, <4>1, <4>2, <4>3, <4>4, PhaseFacts
    <3>5. QED
      BY <1>2, <3>3, <3>4
  <2>3. job'.phase # "csw"
    BY <1>1, <1>3, <1>7, FollowingIs, PhaseFacts DEF AfterWord, AfterPut, AfterLast
  <2>4. job'.op \in {"read", "write"} => link.csw
    BY <1>1, <1>3, <1>4, <1>7, PhaseFacts DEF Cached, Controlled
  <2>5. QED
    BY <1>1, <1>4, <2>1, <2>2, <2>3, <2>4 DEF Cached
<1>8. QED
  BY <1>5, <1>6, <1>7

\* The next phase, and how far the block is in it.
LEMMA MovedControl ==
  ASSUME IInv, NEW v, Moved(v), Following[job.phase] # "done"
  PROVE  Controlled' /\ Counted' /\ Poked'
<1>1. /\ Transferring /\ job.phase \in DOMAIN Following /\ job \in JobType
      /\ v \in WordValues /\ Proceeds(v)
  BY MovedBasics DEF Moved
<1>2. /\ result' = result /\ job'.phase = Following[job.phase]
      /\ job'.op = job.op /\ job'.n = job.n
      /\ job'.at = IF job.phase \in {"word", "put"} THEN job.at + 1 ELSE job.at
  BY <1>1, ProceedsIs
<1>3. Controlled /\ Counted /\ job.phase # "idle" /\ result = NoResult
  BY <1>1 DEF IInv, Transferring, Controlled
<1>4. CASE job.phase \in {"idcode", "clear", "bank", "power"}
  <2>1. job'.phase \in {"clear", "bank", "power", "status"}
    BY <1>2, <1>4, FollowingIs
  <2>2. job.op = "connect"
    BY <1>3, <1>4 DEF Controlled
  <2>3. QED
    BY <1>2, <1>3, <2>1, <2>2 DEF Controlled, Counted, Poked, Blocks
<1>5. CASE job.phase \in {"status", "drain", "poke"}
  BY <1>5, FollowingIs
<1>6. CASE job.phase \in {"select", "csw", "tar"}
  <2>1. /\ job.op \in {"read", "write"}
        /\ \/ job'.phase = "csw" /\ job.phase = "select"
           \/ job'.phase = "tar"
           \/ job'.phase = "post" /\ job.op = "read"
           \/ job'.phase = "put" /\ job.op = "write"
    BY <1>2, <1>3, <1>6, FollowingIs DEF Controlled
  <2>2. /\ job.n \in 1..Space /\ job.at \in 0..job.n /\ job.at < job.n
        /\ job.phase = "select" => job.at = 0
    BY <1>3, <1>6, <2>1 DEF Counted, Blocks
  <2>3. job'.at = job.at
    BY <1>2, <1>6
  <2>4. Controlled' /\ Poked'
    BY <1>2, <1>3, <2>1 DEF Controlled, Poked
  <2>5. Counted'
    BY <1>2, <2>1, <2>2, <2>3 DEF Counted
  <2>6. QED
    BY <2>4, <2>5
<1>7. CASE job.phase = "post"
  <2>1. job'.phase = "word" /\ job.op \in {"read", "rawRead"} /\ job'.at = job.at
    BY <1>2, <1>3, <1>7, FollowingIs DEF Controlled
  <2>2. job.n \in 1..Space /\ job.at \in 0..job.n /\ job.at < job.n
    BY <1>3, <1>7, <2>1 DEF Counted, Blocks
  <2>3. QED
    BY <1>2, <1>3, <2>1, <2>2 DEF Controlled, Counted, Poked
<1>8. CASE job.phase \in {"word", "put"}
  <2>1. /\ job.op \in Blocks
        /\ job.phase = "word" => job.op \in {"read", "rawRead"}
        /\ job.phase = "put" => job.op \in {"write", "rawWrite"}
    BY <1>3, <1>8 DEF Controlled, Blocks
  <2>2. /\ job.n \in 1..Space /\ job.at \in 0..job.n /\ job.at < job.n
        /\ job'.at = job.at + 1
    BY <1>2, <1>3, <1>8, <2>1 DEF Counted
  <2>3. CASE job.at + 1 = job.n
    <3>1. job'.phase = "drain" /\ job.op = "write"
      BY <1>2, <1>8, <2>3, FollowingIs DEF AfterWord, AfterPut, AfterLast
    <3>2. QED
      BY <1>2, <1>3, <2>1, <2>2, <2>3, <3>1 DEF Controlled, Counted, Poked
  <2>4. CASE job.at + 1 # job.n
    <3>1. \/ job'.phase = "word" /\ job.phase = "word"
          \/ job'.phase = "tar" /\ job.op \in {"read", "write"}
          \/ job'.phase = "post" /\ job.phase = "word"
          \/ job'.phase = "put" /\ job.phase = "put"
      BY <1>2, <1>8, <2>1, <2>4, FollowingIs DEF AfterWord, AfterPut, Blocks
    <3>2. job.at + 1 < job.n /\ job.at + 1 \in 0..job.n
      BY <2>2, <2>4
    <3>3. Controlled' /\ Poked'
      BY <1>2, <1>3, <2>1, <3>1, <3>2 DEF Controlled, Poked, Blocks
    <3>4. Counted'
      BY <1>2, <2>1, <2>2, <3>1, <3>2 DEF Counted
    <3>5. QED
      BY <3>3, <3>4
  <2>5. QED
    BY <2>3, <2>4
<1>9. QED
  BY <1>1, <1>4, <1>5, <1>6, <1>7, <1>8, PhaseFacts

\* The cache outlives the words of a block, and so does a raw block's aim.
LEMMA MovedSound ==
  ASSUME IInv, NEW v, Moved(v), job.op \in Blocks
  PROVE  /\ job.phase \in {"tar", "post", "word", "put", "drain"} =>
              target'.select = target.select /\ target'.csw = target.csw
         /\ Sound => (job.phase \in {"tar", "post", "word", "put", "drain"} =>
              target.select = BankZero /\ target.csw = WordCsw)
         /\ job.op \in {"read", "write"} /\ ~doubt' => Sound
         /\ \A r : r.addr = job.addr /\ r.n = job.n
                   /\ job.op \in {"rawRead", "rawWrite"} /\ Aimed(r)' => Sound
<1>1. /\ Transferring /\ job.phase \in DOMAIN Following
      /\ job \in JobType /\ target \in TargetType
      /\ mem \in [Addresses -> WordValues]
      /\ doubt' \in BOOLEAN /\ (doubt => doubt') /\ (Accepted \/ Dropped)
  BY MovedBasics DEF Moved
<1>2. job.phase \in {"tar", "post", "word", "put", "drain"} =>
        target'.select = target.select /\ target'.csw = target.csw
  <2>1. CASE Dropped
    BY <1>1, <2>1 DEF Dropped, TargetType
  <2>2. ASSUME Accepted, job.phase \in {"tar", "post", "word", "put", "drain"}
        PROVE  target'.select = target.select /\ target'.csw = target.csw
    <3>1. CASE job.phase \in {"tar", "drain"}
      BY <1>1, <2>2, <3>1, Accepts DEF Accepted, TargetType
    <3>2. CASE job.phase = "word" /\ EndsSpan
      BY <1>1, <2>2, <3>2, Accepts DEF Accepted
    <3>3. CASE job.phase = "post" \/ (job.phase = "word" /\ ~EndsSpan)
      <4>1. [target EXCEPT !.posted = mem[target.tar]] \in TargetType
        BY <1>1 DEF TargetType
      <4>2. \/ target' \in Incremented([target EXCEPT !.posted = mem[target.tar]])
            \/ target' = [target EXCEPT !.posted = Junk]
        BY <1>1, <2>2, <3>3, Accepts DEF Accepted
      <4>3. QED
        BY <1>1, <4>1, <4>2, IncrementedIs DEF TargetType
    <3>4. CASE job.phase = "put"
      <4>1. target' \in Incremented(target) \/ target' = target
        BY <1>1, <2>2, <3>4, Accepts DEF Accepted
      <4>2. QED
        BY <1>1, <4>1, IncrementedIs DEF TargetType
    <3>5. QED
      BY <2>2, <3>1, <3>2, <3>3, <3>4
  <2>3. QED
    BY <1>1, <2>1, <2>2
<1>3. Sound => (job.phase \in {"tar", "post", "word", "put", "drain"} =>
        target.select = BankZero /\ target.csw = WordCsw)
  BY <1>1 DEF IInv, Sound, Aimed, Cached
<1>4. job.op \in {"read", "write"} /\ ~doubt' => Sound
  BY <1>1 DEF Sound
<1>5. ASSUME NEW r, r.addr = job.addr, r.n = job.n, job.op \in {"rawRead", "rawWrite"},
             Aimed(r)'
      PROVE  Sound
  <2>1. job.phase \in {"post", "word", "put"}
    BY <1>1, <1>5, PhaseFacts DEF IInv, Controlled
  <2>2. Aimed(job)
    BY <1>2, <1>5, <2>1 DEF Aimed
  <2>3. QED
    BY <1>5, <2>2 DEF Sound
<1>6. QED
  BY <1>2, <1>3, <1>4, <1>5

\* Inside a span the next word is one address on.
LEMMA Inside ==
  ASSUME NEW a \in Addresses, NEW n \in 1..Space, NEW i \in 0..(n - 1), i + 1 < n,
         \/ Plus(a, i + 1) \notin Boundaries
         \/ \A k \in 1..(n - 1) : a + k \in Addresses \ Boundaries
  PROVE  Plus(a, i + 1) \notin Boundaries /\ Plus(Plus(a, i), 1) = Plus(a, i + 1)
<1>1. Plus(Plus(a, i), 1) = Plus(a, i + 1)
  BY SwdAssumption, PlusFacts
<1>2. ASSUME \A k \in 1..(n - 1) : a + k \in Addresses \ Boundaries
      PROVE  Plus(a, i + 1) \notin Boundaries
  <2>1. a + (i + 1) \in Addresses \ Boundaries
    BY <1>2
  <2>2. Plus(a, i + 1) = a + (i + 1)
    BY <2>1, SwdAssumption DEF Plus, Addresses
  <2>3. QED
    BY <2>1, <2>2
<1>3. QED
  BY <1>1, <1>2

\* Where the target stands, for the word that comes next.
LEMMA MovedPlaced ==
  ASSUME IInv, NEW v, Moved(v), Following[job.phase] # "done"
  PROVE  Placed'
<1>1. /\ Transferring /\ job.phase \in DOMAIN Following /\ job \in JobType
      /\ target \in TargetType /\ target' \in TargetType
      /\ mem \in [Addresses -> WordValues] /\ (Accepted \/ Dropped)
      /\ v \in WordValues /\ Proceeds(v)
  BY MovedBasics DEF Moved
<1>2. /\ job'.phase = Following[job.phase] /\ job'.op = job.op
      /\ job'.addr = job.addr /\ job'.n = job.n
      /\ job'.at = IF job.phase \in {"word", "put"} THEN job.at + 1 ELSE job.at
  BY <1>1, ProceedsIs
<1> SUFFICES ASSUME Sound', ~target'.sticky, job'.phase \in {"post", "put", "word"}
             PROVE  /\ job'.phase \in {"post", "put"} =>
                         target'.tar = Plus(job'.addr, job'.at)
                    /\ job'.phase = "word" =>
                         /\ target'.posted = mem'[Plus(job'.addr, job'.at)]
                         /\ GoesOn' => target'.tar = Plus(job'.addr, job'.at + 1)
  BY DEF Placed
<1>3. Accepted /\ job.op \in Blocks
  BY <1>1, <1>2 DEF Dropped, TargetType, Sound, Blocks
<1>4. Sound
  <2>1. CASE job.op \in {"read", "write"}
    BY <1>2, <1>3, <2>1, MovedSound DEF Sound
  <2>2. CASE job.op \in {"rawRead", "rawWrite"}
    BY <1>2, <2>2, <1>3, MovedSound DEF Sound, Aimed
  <2>3. QED
    BY <1>3, <2>1, <2>2 DEF Blocks
<1>5. /\ job.phase \in {"tar", "post", "word", "put"} /\ ~target.sticky
      /\ target.select = BankZero /\ target.csw = WordCsw
      /\ target'.csw = WordCsw
      /\ Plus(job.addr, job.at) \in Addresses /\ job.addr \in Addresses
      /\ job.n \in 1..Space /\ job.at \in 0..(job.n - 1)
  <2>1. job.phase \in {"tar", "post", "word", "put"}
    BY <1>1, <1>2, FollowingIs, PhaseFacts
  <2>2. job.n \in 1..Space /\ job.at \in 0..job.n /\ job.at < job.n
    BY <1>3, <2>1 DEF IInv, Counted
  <2>3. QED
    BY <1>1, <1>3, <1>4, <2>1, <2>2, MovedBasics, MovedSound, SwdAssumption DEF JobType
<1>6. /\ job.phase \in {"post", "put"} => target.tar = Plus(job.addr, job.at)
      /\ job.phase = "word" /\ GoesOn => target.tar = Plus(job.addr, job.at + 1)
  BY <1>4, <1>5 DEF IInv, Placed
\* Where the increment is certain.
<1>7. ASSUME NEW i \in 0..(job.n - 1), i + 1 < job.n,
             job.op = "rawRead" \/ job.op = "rawWrite"
             \/ Plus(job.addr, i + 1) \notin Boundaries
      PROVE  /\ Plus(job.addr, i + 1) \notin Boundaries
             /\ Plus(Plus(job.addr, i), 1) = Plus(job.addr, i + 1)
  BY <1>4, <1>5, <1>7, Inside DEF Sound, Aimed
<1>8. CASE job.phase = "tar"
  <2>1. target' = [target EXCEPT !.tar = Plus(job.addr, job.at)]
    BY <1>1, <1>3, <1>5, <1>8, Accepts DEF Accepted
  <2>2. job'.phase \in {"post", "put"} /\ job'.at = job.at
    BY <1>2, <1>8, FollowingIs
  <2>3. QED
    BY <1>1, <1>2, <2>1, <2>2 DEF TargetType
<1>9. CASE job.phase = "post"
  <2> DEFINE u == [target EXCEPT !.posted = mem[target.tar]]
  <2>1. u \in TargetType /\ target' \in Incremented(u)
    BY <1>1, <1>3, <1>5, <1>9, Accepts DEF Accepted, TargetType
  <2>2. job'.phase = "word" /\ job'.at = job.at /\ mem' = mem
    BY <1>2, <1>9, FollowingIs, MovedBasics
  <2>3. target' = [u EXCEPT !.tar = target'.tar]
        /\ (Plus(u.tar, 1) \notin Boundaries => target'.tar = Plus(u.tar, 1))
    BY <1>1, <1>5, <2>1, IncrementedIs DEF TargetType
  <2>4. /\ u.tar = Plus(job.addr, job.at)
        /\ target'.posted = mem[Plus(job.addr, job.at)]
    BY <1>1, <1>6, <1>9, <2>3 DEF TargetType
  <2>5. GoesOn' => job.at + 1 < job.n /\ (job.op # "read" \/ Plus(job.addr, job.at + 1) \notin Boundaries)
    BY <1>2, <1>5, <2>2 DEF GoesOn, EndsSpan
  <2>6. job.op \in {"read", "rawRead"}
    BY <1>9 DEF IInv, Controlled
  <2>7. GoesOn' => target'.tar = Plus(job.addr, job.at + 1)
    BY <1>5, <1>7, <2>3, <2>4, <2>5, <2>6
  <2>8. QED
    BY <1>2, <2>2, <2>4, <2>7
<1>10. CASE job.phase = "word" /\ ~EndsSpan
  <2> DEFINE u == [target EXCEPT !.posted = mem[target.tar]]
  <2>1. u \in TargetType /\ target' \in Incremented(u)
    BY <1>1, <1>3, <1>5, <1>10, Accepts DEF Accepted, TargetType
  <2>2. /\ job'.phase = "word" /\ job'.at = job.at + 1 /\ mem' = mem
        /\ job.at + 1 # job.n
    BY <1>2, <1>10, FollowingIs, MovedBasics DEF AfterWord, EndsSpan
  <2>3. target' = [u EXCEPT !.tar = target'.tar]
        /\ (Plus(u.tar, 1) \notin Boundaries => target'.tar = Plus(u.tar, 1))
    BY <1>1, <1>5, <2>1, IncrementedIs DEF TargetType
  <2>4. job.op \in {"read", "rawRead"}
    BY <1>10 DEF IInv, Controlled
  <2>5. GoesOn
    BY <1>5, <1>10, <2>2 DEF GoesOn
  <2>6. /\ u.tar = Plus(job.addr, job.at + 1)
        /\ target'.posted = mem[Plus(job.addr, job.at + 1)]
    BY <1>1, <1>6, <1>10, <2>3, <2>5 DEF TargetType
  <2>7. GoesOn' => /\ (job.at + 1) + 1 < job.n
                   /\ job.op # "read" \/ Plus(job.addr, (job.at + 1) + 1) \notin Boundaries
    BY <1>2, <1>5, <2>2 DEF GoesOn, EndsSpan
  <2>8. job.at + 1 \in 0..(job.n - 1)
    BY <1>5, <2>2
  <2>9. GoesOn' => target'.tar = Plus(job.addr, (job.at + 1) + 1)
    BY <1>7, <2>3, <2>4, <2>6, <2>7, <2>8
  <2>10. QED
    BY <1>2, <2>2, <2>6, <2>9
<1>11. CASE job.phase = "word" /\ EndsSpan
  <2>1. job'.phase = "post" /\ job'.at = job.at + 1 /\ job.op # "read"
        /\ job.at + 1 # job.n
    BY <1>2, <1>11, FollowingIs DEF AfterWord
  <2>2. target' = target
    BY <1>1, <1>3, <1>11, Accepts DEF Accepted
  <2>3. GoesOn
    BY <1>5, <2>1 DEF GoesOn
  <2>4. QED
    BY <1>2, <1>6, <1>11, <2>1, <2>2, <2>3
<1>12. CASE job.phase = "put"
  <2>1. target' \in Incremented(target)
    BY <1>1, <1>3, <1>5, <1>12, Accepts DEF Accepted
  <2>2. /\ job'.phase = "put" /\ job'.at = job.at + 1 /\ job.at + 1 # job.n
        /\ job.op # "write" \/ ~EndsSpan
    BY <1>2, <1>12, FollowingIs DEF AfterPut, AfterLast
  <2>3. job.op \in {"write", "rawWrite"}
    BY <1>12 DEF IInv, Controlled
  <2>4. job.op # "write" \/ Plus(job.addr, job.at + 1) \notin Boundaries
    BY <2>2 DEF EndsSpan
  <2>5. Plus(target.tar, 1) \notin Boundaries => target'.tar = Plus(target.tar, 1)
    BY <1>1, <1>5, <2>1, IncrementedIs
  <2>6. /\ Plus(job.addr, job.at + 1) \notin Boundaries
        /\ Plus(Plus(job.addr, job.at), 1) = Plus(job.addr, job.at + 1)
    BY <1>5, <1>7, <2>2, <2>3, <2>4
  <2>7. QED
    BY <1>2, <1>6, <1>12, <2>2, <2>5, <2>6
<1>13. QED
  BY <1>5, <1>8, <1>9, <1>10, <1>11, <1>12

\* The word at hand joins those read so far: also behind a bus error.
LEMMA MovedWord ==
  ASSUME IInv, NEW v, Moved(v), Sound, job.op \in {"read", "rawRead"},
         NEW got, got = IF job.phase = "word" THEN Append(job.got, v) ELSE job.got,
         NEW at, at = IF job.phase = "word" THEN job.at + 1 ELSE job.at
  PROVE  /\ Len(got) = at /\ at \in Nat
         /\ \A i \in 1..at : got[i] = mem'[Plus(job.addr, i - 1)]
<1>1. /\ job \in JobType /\ v \in WordValues /\ Len(job.got) = job.at
      /\ \A i \in 1..job.at : job.got[i] = mem[Plus(job.addr, i - 1)]
  BY MovedBasics DEF IInv, Gotten, Moved
<1>2. mem' = mem
  BY MovedBasics DEF IInv, Controlled
<1>3. CASE job.phase # "word"
  BY <1>1, <1>2, <1>3 DEF JobType
<1>4. CASE job.phase = "word"
  <2>1. Request \in {R("DRW"), R("RDBUFF")}
    BY <1>4, RequestIs DEF Collect
  <2>2. v = target.posted
    BY <2>1 DEF Moved, Returned, R
  <2>3. target.posted = mem[Plus(job.addr, job.at)]
    BY <1>4, MovedBasics DEF IInv, Placed
  <2>4. job.got \in Seq(WordValues) /\ job.at \in Nat
    BY <1>1 DEF JobType
  <2>5. /\ Len(got) = job.at + 1 /\ got[job.at + 1] = v
        /\ \A i \in 1..job.at : got[i] = job.got[i]
    BY <1>1, <1>4, <2>4
  <2>6. ASSUME NEW i \in 1..(job.at + 1) PROVE got[i] = mem[Plus(job.addr, i - 1)]
    <3>1. CASE i = job.at + 1
      <4>1. i - 1 = job.at
        BY <2>4, <3>1
      <4>2. QED
        BY <2>2, <2>3, <2>5, <3>1, <4>1
    <3>2. CASE i # job.at + 1
      <4>1. i \in 1..job.at
        BY <2>4, <3>2
      <4>2. QED
        BY <1>1, <2>5, <4>1
    <3>3. QED
      BY <3>1, <3>2
  <2>7. QED
    BY <1>2, <1>4, <2>4, <2>5, <2>6
<1>5. QED
  BY <1>3, <1>4

\* A word goes to its own address, or the flag that tells of its loss is set.
LEMMA MovedPut ==
  ASSUME IInv, NEW v, Moved(v), Sound, job.op \in {"write", "rawWrite"}
  PROVE  LET at == IF job.phase = "put" THEN job.at + 1 ELSE job.at
         IN /\ \A i \in 0..(at - 1) :
                 mem'[Plus(job.addr, i)] = NewWord(Plus(job.addr, i))
                 \/ target'.sticky
            /\ \A a \in Addresses : mem'[a] = mem[a] \/
                 /\ InBlock(job, a) /\ mem'[a] = NewWord(a)
<1>1. /\ job \in JobType /\ target \in TargetType /\ Transferring
      /\ mem \in [Addresses -> WordValues] /\ (Accepted \/ Dropped)
      /\ job.phase \in {"select", "csw", "tar", "put", "drain"}
      /\ ~target.sticky
  BY MovedBasics, PhaseFacts DEF Moved, IInv, Controlled
<1>2. \A i \in 0..(job.at - 1) : mem[Plus(job.addr, i)] = NewWord(Plus(job.addr, i))
  BY <1>1 DEF IInv, Landed
<1>3. CASE job.phase # "put"
  BY <1>2, <1>3, MovedBasics
<1>4. CASE job.phase = "put" /\ Dropped
  <2>1. target'.sticky /\ mem' = mem
    BY <1>1, <1>4 DEF Dropped, TargetType
  <2>2. QED
    BY <2>1
<1>5. CASE job.phase = "put" /\ Accepted
  <2> DEFINE here == Plus(job.addr, job.at)
  <2>1. target.select = BankZero /\ target.tar = here /\ here \in Addresses
    BY <1>1, <1>5, MovedSound, MovedBasics DEF IInv, Placed, Blocks
  <2>2. Request = W("DRW", NewWord(here))
    BY <1>5, RequestIs
  <2>3. mem' = [mem EXCEPT ![here] = NewWord(here)]
    BY <1>5, <2>1, <2>2 DEF Accepted, Stored, W
  <2>4. /\ job.n \in 1..Space /\ job.at \in 0..job.n /\ job.at < job.n
        /\ job.addr \in Addresses
    BY <1>1, <1>5 DEF IInv, Counted, Blocks, JobType
  <2>5. InBlock(job, here)
    BY <2>4, SwdAssumption DEF InBlock
  <2> HIDE DEF here
  <2>6. \A a \in Addresses : mem'[a] = IF a = here THEN NewWord(a) ELSE mem[a]
    BY <1>1, <2>3
  <2>7. ASSUME NEW i \in 0..((job.at + 1) - 1)
        PROVE  mem'[Plus(job.addr, i)] = NewWord(Plus(job.addr, i))
    <3>1. Plus(job.addr, i) \in Addresses
      <4>1. i \in 0..Space
        BY <2>4, SwdAssumption
      <4>2. QED
        BY <2>4, <4>1, PlusFacts
    <3>2. CASE i = job.at
      BY <2>1, <2>6, <3>2 DEF here
    <3>3. CASE i # job.at
      <4>1. i \in 0..(job.at - 1)
        BY <2>4, <3>3, SwdAssumption
      <4>2. QED
        BY <1>2, <2>6, <3>1, <4>1
    <3>4. QED
      BY <3>2, <3>3
  <2>8. QED
    BY <1>5, <2>5, <2>6, <2>7
<1>6. QED
  BY <1>1, <1>3, <1>4, <1>5

\* A block under way keeps what it has read and written.
LEMMA MovedBlock ==
  ASSUME IInv, NEW v, Moved(v), Following[job.phase] # "done"
  PROVE  Gotten' /\ Landed' /\ OnlyBlock(job)'
<1>1. /\ Transferring /\ v \in WordValues /\ Proceeds(v) /\ before' = before
      /\ job \in JobType
  BY MovedBasics DEF Moved
<1>2. /\ job'.op = job.op /\ job'.addr = job.addr /\ job'.n = job.n
      /\ job'.got = IF job.phase = "word" THEN Append(job.got, v) ELSE job.got
      /\ job'.at = IF job.phase \in {"word", "put"} THEN job.at + 1 ELSE job.at
  BY <1>1, ProceedsIs
<1>3. ASSUME Sound' PROVE Sound /\ job.op \in Blocks
  <2>1. CASE job.op \in {"read", "write"}
    BY <1>2, <1>3, <2>1, MovedSound DEF Sound, Blocks
  <2>2. CASE job.op \in {"rawRead", "rawWrite"}
    BY <1>2, <1>3, <2>2, MovedSound DEF Sound, Aimed, Blocks
  <2>3. QED
    BY <1>2, <1>3, <2>1, <2>2 DEF Sound
<1>4. Gotten'
  <2>1. ASSUME Sound', job.op \in {"read", "rawRead"}
        PROVE  /\ Len(job'.got) = job'.at
               /\ \A i \in 1..job'.at : job'.got[i] = mem'[Plus(job'.addr, i - 1)]
    <3>1. job.phase # "put"
      BY <2>1 DEF IInv, Controlled
    <3>2. job'.at = IF job.phase = "word" THEN job.at + 1 ELSE job.at
      BY <1>2, <3>1
    <3> DEFINE got == job'.got
               at  == job'.at
    <3>3. /\ got = IF job.phase = "word" THEN Append(job.got, v) ELSE job.got
          /\ at = IF job.phase = "word" THEN job.at + 1 ELSE job.at
      BY <1>2, <3>2
    <3> HIDE DEF got, at
    <3>4. /\ Len(got) = at
          /\ \A i \in 1..at : got[i] = mem'[Plus(job.addr, i - 1)]
      BY <1>3, <2>1, <3>3, MovedWord
    <3>5. QED
      BY <1>2, <3>4 DEF got, at
  <2>2. QED
    BY <1>2, <2>1 DEF Gotten
<1>5. Landed'
  <2>1. ASSUME Sound', job.op \in {"write", "rawWrite"}
        PROVE  \A i \in 0..(job'.at - 1) :
                 mem'[Plus(job'.addr, i)] = NewWord(Plus(job'.addr, i))
                 \/ target'.sticky
    <3>1. job.phase # "word"
      BY <2>1 DEF IInv, Controlled
    <3>2. QED
      BY <1>2, <1>3, <2>1, <3>1, MovedPut
  <2>2. QED
    BY <1>2, <2>1 DEF Landed
<1>6. OnlyBlock(job)'
  <2>1. ASSUME job.op = "write", ~doubt', NEW a \in Addresses, mem'[a] # before[a]
        PROVE  InBlock(job, a) /\ mem'[a] = NewWord(a)
    <3>1. Sound /\ ~doubt
      BY <2>1, MovedSound, MovedBasics DEF Blocks
    <3>2. mem'[a] = mem[a] \/ (InBlock(job, a) /\ mem'[a] = NewWord(a))
      BY <2>1, <3>1, MovedPut
    <3>3. QED
      BY <2>1, <3>1, <3>2 DEF IInv, OnlyBlock
  <2>2. QED
    BY <1>1, <1>2, <2>1 DEF OnlyBlock, InBlock
<1>7. QED
  BY <1>4, <1>5, <1>6

\* The last transfer of a command: what its answer stands for.
LEMMA MovedAnswer ==
  ASSUME IInv, NEW v, Moved(v), Following[job.phase] = "done"
  PROVE  Answered'
<1>1. /\ Transferring /\ v \in WordValues /\ Proceeds(v) /\ before' = before
      /\ job \in JobType /\ target \in TargetType /\ target' \in TargetType
      /\ job.phase \in DOMAIN Following
  BY MovedBasics DEF Moved
<1>2. /\ result'.op = job.op /\ result'.addr = job.addr /\ result'.n = job.n
      /\ result'.got = IF job.phase = "word" THEN Append(job.got, v) ELSE job.got
  BY <1>1, ProceedsIs
<1>3. job.phase \in {"status", "poke", "word", "put", "drain"}
  BY <1>1, FollowingIs, PhaseFacts
<1>4. /\ job.op \in {"read", "rawRead"} => job.phase = "word" /\ job.at + 1 = job.n
      /\ job.op = "write" => job.phase = "drain" /\ job.at = job.n
      /\ job.op = "rawWrite" => job.phase = "put" /\ job.at + 1 = job.n
  BY <1>3, FollowingIs DEF IInv, Controlled, Counted, Blocks, AfterWord, AfterPut, AfterLast
<1>5. job.op \in Blocks => job.n \in 1..Space
  BY DEF IInv, Counted
<1>6. ASSUME Sound, job.op \in {"read", "rawRead"}
      PROVE  result'.got = [i \in 1..job.n |-> mem'[Plus(job.addr, i - 1)]]
  <2> DEFINE got == result'.got
  <2>1. got = IF job.phase = "word" THEN Append(job.got, v) ELSE job.got
    BY <1>2
  <2>2. job.n = IF job.phase = "word" THEN job.at + 1 ELSE job.at
    BY <1>4, <1>6
  <2>3. got \in Seq(WordValues)
    BY <1>1, <2>1 DEF JobType
  <2> HIDE DEF got
  <2>4. Len(got) = job.n /\ \A i \in 1..job.n : got[i] = mem'[Plus(job.addr, i - 1)]
    BY <1>6, <2>1, <2>2, MovedWord
  <2>5. got = [i \in 1..job.n |-> got[i]]
    BY <2>3, <2>4
  <2>6. QED
    BY <2>4, <2>5 DEF got
<1>7. Words(result)' = [i \in 1..job.n |-> mem'[Plus(job.addr, i - 1)]]
  BY <1>2 DEF Words
<1>8. WordsRight'
  BY <1>2, <1>6, <1>7, MovedSound DEF WordsRight, Done, Blocks
<1>9. Aimed(result)' /\ job.op \in {"rawRead", "rawWrite"} => Sound
  BY <1>2, MovedSound DEF Aimed, Blocks
<1>10. RawWordsRight'
  BY <1>2, <1>6, <1>7, <1>9 DEF RawWordsRight, Done
<1>11. OnlyBlock(result)'
  <2>1. job.op = "write" /\ ~doubt' => mem' = mem /\ ~doubt
    BY <1>4, MovedBasics
  <2>2. QED
    BY <1>1, <1>2, <2>1 DEF IInv, OnlyBlock, InBlock
<1>12. ASSUME Sound, job.op \in {"write", "rawWrite"}, NEW i \in 0..(job.n - 1)
       PROVE  /\ mem'[Plus(job.addr, i)] = NewWord(Plus(job.addr, i))
                 \/ target'.sticky
              /\ job.op = "write" =>
                   mem'[Plus(job.addr, i)] = NewWord(Plus(job.addr, i))
  <2>1. mem'[Plus(job.addr, i)] = NewWord(Plus(job.addr, i)) \/ target'.sticky
    <3>1. job.n = IF job.phase = "put" THEN job.at + 1 ELSE job.at
      BY <1>4, <1>12
    <3>2. QED
      BY <1>12, <3>1, MovedPut
  <2>2. ASSUME job.op = "write"
        PROVE  mem'[Plus(job.addr, i)] = NewWord(Plus(job.addr, i))
    <3>1. job.phase = "drain" /\ job.at = job.n /\ mem' = mem /\ ~target.sticky
      BY <1>4, <2>2, MovedBasics
    <3>2. QED
      BY <1>12, <3>1 DEF IInv, Landed
  <2>3. QED
    BY <2>1, <2>2
<1>13. (Done("write") /\ ~doubt)' =>
         \A a \in Addresses : InBlock(result, a)' => mem'[a] = NewWord(a)
  BY <1>2, <1>12, MovedSound DEF Done, InBlock, Blocks
<1>14. (Done("rawWrite") /\ Aimed(result))' =>
         \A i \in 0..(job.n - 1) :
           mem'[Plus(job.addr, i)] = NewWord(Plus(job.addr, i)) \/ target'.sticky
  BY <1>2, <1>9, <1>12 DEF Done
<1>15. QED
  BY <1>2, <1>8, <1>10, <1>11, <1>13, <1>14 DEF Answered, InBlock

\* Such a transfer keeps the invariant.
LEMMA MovedKeeps ==
  ASSUME IInv, NEW v, Moved(v)
  PROVE  IInv'
<1>1. TypeOK' /\ Cached'
  BY MovedTyped, MovedCached
<1>2. Transferring /\ v \in WordValues /\ Proceeds(v)
  BY MovedBasics DEF Moved
<1>3. CASE Following[job.phase] # "done"
  <2>1. result' = result /\ result = NoResult
    BY <1>2, <1>3, ProceedsIs DEF IInv, Controlled, Transferring
  <2>2. result'.op = "none" /\ result'.status = "none"
    BY <2>1, IdleTyped
  <2>3. Answered'
    BY <2>2 DEF Answered, WordsRight, RawWordsRight, OnlyBlock, Done
  <2>4. QED
    BY <1>1, <1>3, <2>3, MovedControl, MovedPlaced, MovedBlock DEF IInv
<1>4. CASE Following[job.phase] = "done"
  <2>1. job' = Idle
    BY <1>2, <1>4, ProceedsIs
  <2>2. QED
    BY <1>1, <1>4, <2>1, IdleKeeps, MovedAnswer DEF IInv
<1>5. QED
  BY <1>3, <1>4

-----------------------------------------------------------------------------
(* The other steps of a transfer. *)

\* A WAIT leaves everything as it was, or gives the command up.
LEMMA WaitKeeps ==
  ASSUME IInv, TransferWait
  PROVE  IInv'
<1>1. /\ job \in JobType /\ job.phase # "idle" /\ target \in TargetType
      /\ trouble \in 0..MaxTrouble
  BY TypeParts DEF IInv, TransferWait, Hears, Transferring
<1>2. UNCHANGED <<link, target, mem, commands, trouble, before, doubt>>
  BY DEF TransferWait
<1>3. CASE job.tries < Retries
  <2>1. job' = [job EXCEPT !.tries = @ + 1] /\ result' = result
    BY <1>3 DEF TransferWait
  <2>2. /\ job' \in JobType /\ job'.op = job.op /\ job'.phase = job.phase
        /\ job'.addr = job.addr /\ job'.n = job.n /\ job'.at = job.at
        /\ job'.got = job.got /\ job'.poke = job.poke
    <3>1. job.tries + 1 \in 0..Retries
      BY <1>1, <1>3, SwdAssumption DEF JobType
    <3> DEFINE k == job.tries + 1
    <3>2. job' = [job EXCEPT !.tries = k]
      BY <2>1
    <3> HIDE DEF k
    <3>3. k \in 0..Retries
      BY <3>1 DEF k
    <3>4. QED
      BY <1>1, <3>2, <3>3 DEF JobType
  <2>3. TypeOK'
    BY <1>2, <2>1, <2>2, TypeParts, TypedNext DEF IInv
  <2>4. Controlled' /\ Counted' /\ Poked' /\ Cached'
    BY <1>2, <2>1, <2>2 DEF IInv, Controlled, Counted, Poked, Cached
  <2>5. (Sound' <=> Sound) /\ (GoesOn' <=> GoesOn)
    BY <1>2, <2>2 DEF Sound, Aimed, GoesOn, EndsSpan
  <2>6. Placed' /\ Gotten' /\ Landed'
    BY <1>2, <2>2, <2>5 DEF IInv, Placed, Gotten, Landed
  <2>7. OnlyBlock(job)' /\ Answered'
    BY <1>2, <2>1, <2>2
       DEF IInv, OnlyBlock, InBlock, Answered, WordsRight, RawWordsRight, Done,
           Words, Aimed
  <2>8. QED
    BY <2>3, <2>4, <2>6, <2>7 DEF IInv
<1>4. CASE ~(job.tries < Retries)
  <2>1. Ends("WaitTimeout", job.got)
    BY <1>4 DEF TransferWait
  <2>2. QED
    BY <1>1, <1>2, <2>1, FailureKeeps
<1>5. QED
  BY <1>3, <1>4

\* A fault leaves the block where it is, for the ABORT to end.
LEMMA FaultKeeps ==
  ASSUME IInv, TransferFault
  PROVE  IInv'
<1>1. job \in JobType /\ job.phase # "idle" /\ ~target.lost
  BY TypeParts DEF IInv, TransferFault, Transferring
<1>2. /\ UNCHANGED <<link, result, target, mem, commands, trouble, before, doubt>>
      /\ job' = [job EXCEPT !.phase = "abort"]
  BY DEF TransferFault
<1>3. /\ job' \in JobType /\ job'.op = job.op /\ job'.phase = "abort"
      /\ job'.addr = job.addr /\ job'.n = job.n /\ job'.at = job.at
      /\ job'.got = job.got /\ job'.poke = job.poke
  BY <1>1, <1>2, PhaseFacts DEF JobType
<1>4. TypeOK'
  BY <1>2, <1>3, TypeParts, TypedNext DEF IInv
<1>5. Controlled' /\ Counted' /\ Poked' /\ Cached'
  BY <1>1, <1>2, <1>3 DEF IInv, Controlled, Counted, Poked, Cached
<1>6. Sound' <=> Sound
  BY <1>2, <1>3 DEF Sound, Aimed
<1>7. Placed' /\ Gotten' /\ Landed'
  BY <1>2, <1>3, <1>6 DEF IInv, Placed, Gotten, Landed
<1>8. OnlyBlock(job)' /\ Answered'
  BY <1>2, <1>3
     DEF IInv, OnlyBlock, InBlock, Answered, WordsRight, RawWordsRight, Done,
         Words, Aimed
<1>9. QED
  BY <1>4, <1>5, <1>7, <1>8 DEF IInv

\* An ABORT changes nothing but the flag.
LEMMA AbortIs ==
  ASSUME job.phase = "abort", NEW t \in Performed(Request)
  PROVE  t = [target EXCEPT !.sticky = FALSE]
BY RequestIs DEF Performed, W, IsAp

\* A read whose word does not arrive whole has moved the target all the same, but
\* selected nothing.
LEMMA ReadPerformed ==
  ASSUME IInv, Transferring, Request.read, NEW t \in Performed(Request)
  PROVE  t \in TargetType /\ t.select = target.select /\ t.csw = target.csw
<1>1. /\ job \in JobType /\ target \in TargetType
      /\ mem \in [Addresses -> WordValues]
  BY TypeParts DEF IInv
<1>2. job.phase \in DOMAIN Following
  BY <1>1, PhaseFacts DEF Transferring, JobType
<1>3. job.phase \in {"idcode", "status", "post", "word", "drain"}
  <2>1. job.phase \notin {"clear", "bank", "select", "power", "csw", "tar", "put"}
    BY RequestIs DEF W
  <2>2. job.phase # "poke"
    BY RequestIs DEF IInv, Poked
  <2>3. QED
    BY <1>2, <2>1, <2>2, PhaseFacts
<1>4. t \in TargetType
  BY Accepts
<1>5. CASE job.phase \in {"idcode", "status", "drain"}
  BY <1>4, <1>5, Accepts
<1>6. CASE job.phase = "word" /\ EndsSpan
  BY <1>4, <1>6, Accepts
<1>7. CASE job.phase = "post" \/ (job.phase = "word" /\ ~EndsSpan)
  <2>1. [target EXCEPT !.posted = mem[target.tar]] \in TargetType
    BY <1>1 DEF TargetType
  <2>2. \/ t \in Incremented([target EXCEPT !.posted = mem[target.tar]])
        \/ t = [target EXCEPT !.posted = Junk]
    BY <1>7, Accepts
  <2>3. QED
    BY <1>1, <1>4, <2>1, <2>2, IncrementedIs DEF TargetType
<1>8. QED
  BY <1>3, <1>5, <1>6, <1>7

\* Every way for a transfer to fail keeps the invariant.
LEMMA FailuresKeep ==
  ASSUME IInv,
         Abort \/ AbortLost \/ TransferUnanswered \/ TransferParity \/ TransferGarbled
  PROVE  IInv'
<1>1. /\ job \in JobType /\ target \in TargetType /\ trouble \in 0..MaxTrouble
  BY TypeParts DEF IInv
<1>2. Troubled => trouble' \in 0..MaxTrouble
  BY <1>1, SwdAssumption DEF Troubled
<1>3. CASE Abort
  <2>1. target' = target \/ target' = [target EXCEPT !.sticky = FALSE]
    BY <1>3, AbortIs DEF Abort
  <2>2. /\ target' \in TargetType /\ target'.select = target.select
        /\ target'.csw = target.csw
    BY <1>1, <2>1 DEF TargetType
  <2>3. QED
    BY <1>1, <1>3, <2>2, FailureKeeps DEF Abort
<1>4. CASE AbortLost
  <2>1. /\ target' \in TargetType /\ target'.select = target.select
        /\ target'.csw = target.csw
    BY <1>1, <1>4 DEF AbortLost, TargetType
  <2>2. QED
    BY <1>1, <1>2, <1>4, <2>1, FailureKeeps DEF AbortLost
<1>5. CASE TransferUnanswered
  BY <1>1, <1>5, FailureKeeps DEF TransferUnanswered, Transferring
<1>6. CASE TransferParity
  <2>1. /\ target' \in TargetType /\ target'.select = target.select
        /\ target'.csw = target.csw
    BY <1>6, ReadPerformed DEF TransferParity, Hears
  <2>2. QED
    BY <1>2, <1>6, <2>1, FailureKeeps DEF TransferParity, Hears, Transferring
<1>7. CASE TransferGarbled
  <2>1. PICK t \in {target} \cup (IF Hears(Request) /\ Request.read
                                  THEN Performed(Request) ELSE {}) :
          target' = [t EXCEPT !.lost = TRUE]
    BY <1>7 DEF TransferGarbled
  <2>2. t \in TargetType /\ t.select = target.select /\ t.csw = target.csw
    BY <1>1, <1>7, <2>1, ReadPerformed DEF TransferGarbled
  <2>3. /\ target' \in TargetType /\ target'.select = target.select
        /\ target'.csw = target.csw
    BY <2>1, <2>2 DEF TargetType
  <2>4. QED
    BY <1>2, <1>7, <2>3, FailureKeeps DEF TransferGarbled, Transferring
<1>8. QED
  BY <1>3, <1>4, <1>5, <1>6, <1>7

-----------------------------------------------------------------------------
(* The commands. *)

\* A command that begins, field by field.
LEMMA BeginsIs ==
  ASSUME IInv, NEW op \in Ops, NEW phase \in Phases, NEW addr \in Addresses,
         NEW n \in Nat, Begins(op, phase, addr, n)
  PROVE  /\ job' \in JobType /\ job'.op = op /\ job'.phase = phase
         /\ job'.addr = addr /\ job'.n = n /\ job'.at = 0 /\ job'.got = <<>>
         /\ job.phase = "idle" /\ commands' \in 0..MaxCommands
         /\ result' = NoResult /\ before' = mem
<1>1. commands' \in 0..MaxCommands
  BY TypeParts, SwdAssumption DEF IInv, Begins
<1>2. job' = [Idle EXCEPT !.op = op, !.phase = phase, !.addr = addr, !.n = n]
  BY DEF Begins
<1>3. Idle \in JobType /\ Idle.at = 0 /\ Idle.got = <<>>
  BY IdleTyped DEF Idle
<1>4. /\ job' \in JobType /\ job'.op = op /\ job'.phase = phase
      /\ job'.addr = addr /\ job'.n = n /\ job'.at = 0 /\ job'.got = <<>>
  BY <1>2, <1>3 DEF JobType
<1>5. QED
  BY <1>1, <1>4 DEF Begins

\* A command begins with nothing read or written, and a raw block where TAR is.
LEMMA BeginKeeps ==
  ASSUME IInv, link' \in LinkType, target' \in TargetType, doubt' \in BOOLEAN,
         job' \in JobType, job'.at = 0, job'.got = <<>>,
         \/ job'.op = "connect" /\ job'.phase = "idcode"
         \/ job'.op = "detach" /\ job'.phase = "idle"
         \/ job'.op \in {"read", "write"} /\ job'.phase \in {"select", "csw", "tar"}
         \/ job'.op = "rawRead" /\ job'.phase = "post"
         \/ job'.op = "rawWrite" /\ job'.phase = "put"
         \/ job'.op = "poke" /\ job'.phase = "poke",
         job'.op \in Blocks => job'.n \in 1..Space,
         job'.op \in {"rawRead", "rawWrite"} => target'.tar = job'.addr,
         result' = NoResult, before' = mem, mem' = mem, trouble' = trouble,
         commands' \in 0..MaxCommands, Poked', Cached'
  PROVE  IInv'
<1>1. TypeOK'
  BY IdleTyped, TypeParts, TypedNext DEF IInv
<1>2. Controlled'
  BY DEF Controlled
<1>3. Counted'
  BY SwdAssumption DEF Counted, Blocks
<1>4. job'.addr \in Addresses /\ Plus(job'.addr, 0) = job'.addr
  <2>1. job'.addr \in Addresses /\ 0 \in 0..Space
    BY SwdAssumption DEF JobType
  <2>2. QED
    BY <2>1, PlusFacts
<1>5. Placed'
  BY <1>4 DEF Placed
<1>6. Gotten' /\ Landed'
  BY DEF Gotten, Landed
<1>7. OnlyBlock(job)'
  BY DEF OnlyBlock
<1>8. Answered'
  <2>1. result'.op = "none" /\ result'.status = "none"
    BY IdleTyped
  <2>2. QED
    BY <2>1 DEF Answered, WordsRight, RawWordsRight, OnlyBlock, Done
<1>9. QED
  BY <1>1, <1>2, <1>3, <1>5, <1>6, <1>7, <1>8 DEF IInv

\* Every command keeps the invariant.
LEMMA CommandKeeps ==
  ASSUME IInv, Command
  PROVE  IInv'
<1>1. /\ job \in JobType /\ target \in TargetType /\ link \in LinkType
      /\ doubt \in BOOLEAN
  BY TypeParts DEF IInv
<1>2. 0 \in Addresses /\ 0 \in Nat
  BY SwdAssumption DEF Addresses
<1>3. \A n \in Counts : n \in 1..Space /\ n \in Nat
  BY SwdAssumption
<1>4. CASE Connect
  <2>1. "connect" \in Ops /\ "idcode" \in Phases
    BY PhaseFacts DEF Ops
  <2>2. Begins("connect", "idcode", 0, 0)
    BY <1>4 DEF Connect
  <2>3. link' = [Forgotten EXCEPT !.attached = TRUE]
        /\ target' = [target EXCEPT !.lost = FALSE] /\ doubt' = FALSE
    BY <1>4 DEF Connect
  <2>4. /\ link' \in LinkType /\ link'.selected = "none" /\ link'.csw = FALSE
        /\ target' \in TargetType
    BY <1>1, <2>3 DEF Forgotten, LinkType, TargetType
  <2>5. /\ job' \in JobType /\ job'.op = "connect" /\ job'.phase = "idcode"
        /\ job'.at = 0 /\ job'.got = <<>> /\ commands' \in 0..MaxCommands
        /\ result' = NoResult /\ before' = mem
    BY <1>2, <2>1, <2>2, BeginsIs
  <2>6. Poked' /\ Cached'
    BY <2>4, <2>5 DEF Poked, Cached
  <2>7. QED
    BY <1>4, <2>3, <2>4, <2>5, <2>6, BeginKeeps DEF Connect, Blocks
<1>5. CASE Detach
  <2>1. "detach" \in Ops /\ "idle" \in Phases
    BY PhaseFacts DEF Ops
  <2>2. Begins("detach", "idle", 0, 0)
    BY <1>5 DEF Detach
  <2>3. /\ link' = [Forgotten EXCEPT !.attached = FALSE] /\ doubt' = FALSE
        /\ UNCHANGED <<target, mem, trouble>>
    BY <1>5 DEF Detach
  <2>4. link' \in LinkType /\ link'.selected = "none" /\ link'.csw = FALSE
    BY <1>1, <2>3 DEF Forgotten, LinkType
  <2>5. /\ job' \in JobType /\ job'.op = "detach" /\ job'.phase = "idle"
        /\ job'.at = 0 /\ job'.got = <<>> /\ commands' \in 0..MaxCommands
        /\ result' = NoResult /\ before' = mem
    BY <1>2, <2>1, <2>2, BeginsIs
  <2>6. Poked' /\ Cached'
    BY <2>4, <2>5 DEF Poked, Cached
  <2>7. QED
    BY <1>1, <2>3, <2>4, <2>5, <2>6, BeginKeeps DEF Blocks
\* A block begins where the cache says it may.
<1>6. /\ FirstPhase \in {"select", "csw", "tar"} /\ FirstPhase \in Phases
      /\ FirstPhase = "csw" => link.selected = "zero"
      /\ FirstPhase = "tar" => link.csw
  BY <1>1, PhaseFacts DEF FirstPhase, LinkType
<1>7. ASSUME NEW op \in {"read", "write"}, NEW a \in Starts, NEW n \in Counts,
             Begins(op, FirstPhase, a, n), UNCHANGED <<link, target, mem, trouble, doubt>>
      PROVE  IInv'
  <2>1. op \in Ops /\ a \in Addresses
    BY CodeFacts DEF Ops
  <2>2. /\ job' \in JobType /\ job'.op = op /\ job'.phase = FirstPhase
        /\ job'.n = n /\ job'.at = 0 /\ job'.got = <<>>
        /\ commands' \in 0..MaxCommands /\ result' = NoResult /\ before' = mem
    BY <1>3, <1>6, <1>7, <2>1, BeginsIs
  <2>3. Poked' /\ Cached'
    BY <1>6, <1>7, <2>2 DEF Poked, Cached, IInv
  <2>4. QED
    BY <1>1, <1>3, <1>6, <1>7, <2>2, <2>3, BeginKeeps
<1>8. CASE ReadWords
  BY <1>7, <1>8 DEF ReadWords
<1>9. CASE WriteWords
  BY <1>7, <1>9 DEF WriteWords
<1>10. ASSUME NEW op \in {"rawRead", "rawWrite"}, NEW n \in Counts,
              Begins(op, IF op = "rawRead" THEN "post" ELSE "put", target.tar, n),
              UNCHANGED <<link, target, mem, trouble, doubt>>
       PROVE  IInv'
  <2> DEFINE phase == IF op = "rawRead" THEN "post" ELSE "put"
  <2>1. op \in Ops /\ phase \in Phases /\ target.tar \in Addresses
    BY <1>1, PhaseFacts DEF Ops, TargetType
  <2>2. /\ job' \in JobType /\ job'.op = op /\ job'.phase = phase
        /\ job'.addr = target.tar /\ job'.n = n /\ job'.at = 0 /\ job'.got = <<>>
        /\ commands' \in 0..MaxCommands /\ result' = NoResult /\ before' = mem
    BY <1>3, <1>10, <2>1, BeginsIs
  <2>3. Poked' /\ Cached'
    BY <1>10, <2>2 DEF Poked, Cached, IInv
  <2>4. QED
    BY <1>1, <1>3, <1>10, <2>2, <2>3, BeginKeeps
<1>11. CASE RawReadBlock
  BY <1>10, <1>11 DEF RawReadBlock
<1>12. CASE RawWriteBlock
  BY <1>10, <1>12 DEF RawWriteBlock
<1>13. CASE RawWriteRegister
  <2>1. PICK x \in {W("SELECT", v) : v \in Codes} \cup {W("CSW", v) : v \in Codes}
                   \cup {W("TAR", a) : a \in Starts} :
          /\ job' = [Idle EXCEPT !.op = "poke", !.phase = "poke", !.poke = x]
          /\ doubt' = (doubt \/ (x.reg \in {"SELECT", "CSW"} /\ link.selected = "zero"))
    BY <1>13 DEF RawWriteRegister
  <2>2. /\ UNCHANGED <<link, target, mem, trouble>> /\ result' = NoResult
        /\ before' = mem /\ job.phase = "idle"
    BY <1>13 DEF RawWriteRegister
  <2>3. commands' \in 0..MaxCommands
    BY <1>13, TypeParts, SwdAssumption DEF RawWriteRegister, IInv
  <2>4. /\ x \in Transfers /\ ~x.read /\ x.reg \in {"SELECT", "CSW", "TAR"}
        /\ IF x.reg = "TAR" THEN x.value \in Starts ELSE x.value \in Codes
    <3>1. CASE x \in {W("TAR", a) : a \in Starts}
      BY <3>1, CodeFacts, TransferFacts DEF W
    <3>2. CASE x \in {W("SELECT", v) : v \in Codes} \cup {W("CSW", v) : v \in Codes}
      BY <3>2, CodeFacts, TransferFacts DEF W
    <3>3. QED
      BY <3>1, <3>2
  <2>5. /\ job' \in JobType /\ job'.op = "poke" /\ job'.phase = "poke"
        /\ job'.at = 0 /\ job'.got = <<>> /\ job'.poke = x
    <3>1. Idle \in JobType /\ Idle.at = 0 /\ Idle.got = <<>>
      BY IdleTyped DEF Idle
    <3>2. "poke" \in Ops /\ "poke" \in Phases
      BY PhaseFacts DEF Ops
    <3>3. job' = [Idle EXCEPT !.op = "poke", !.phase = "poke", !.poke = x]
      BY <2>1
    <3>4. x \in Transfers
      BY <2>4
    <3>5. QED
      BY <3>1, <3>2, <3>3, <3>4 DEF JobType
  <2>6. doubt' \in BOOLEAN /\ (doubt => doubt')
        /\ (x.reg # "TAR" /\ link.selected = "zero" => doubt')
    <3>1. x.reg # "TAR" => x.reg \in {"SELECT", "CSW"}
      BY <2>4
    <3>2. doubt' = (doubt \/ (x.reg \in {"SELECT", "CSW"} /\ link.selected = "zero"))
      BY <2>1
    <3>3. doubt \in BOOLEAN
      BY <1>1
    <3>4. QED
      BY <3>1, <3>2, <3>3
  <2>7. Poked'
    BY <2>2, <2>4, <2>5, <2>6 DEF Poked
  <2>8. Cached'
    BY <2>2, <2>5, <2>6 DEF Cached, IInv
  <2>9. QED
    BY <1>1, <2>2, <2>3, <2>5, <2>6, <2>7, <2>8, BeginKeeps DEF Blocks
<1>14. QED
  BY <1>4, <1>5, <1>8, <1>9, <1>11, <1>12, <1>13 DEF Command

-----------------------------------------------------------------------------
(* The invariant and what it says. *)

\* It holds when the probe has started.
LEMMA InitEstablishes ==
  ASSUME Init
  PROVE  IInv
<1>1. /\ link = [selected |-> "none", csw |-> FALSE, attached |-> FALSE]
      /\ job = Idle /\ result = NoResult /\ before = mem
      /\ commands = 0 /\ trouble = 0 /\ doubt = FALSE
      /\ mem = [a \in Addresses |-> OldWord(a)]
  BY DEF Init
<1>2. target \in TargetType
  <2>1. target \in [select : Codes, csw : Codes, tar : Starts, posted : {Junk},
                    sticky : BOOLEAN, powered : {FALSE}, lost : {FALSE}]
    BY DEF Init
  <2>2. QED
    BY <2>1, CodeFacts DEF TargetType
<1>3. TypeOK
  <2>1. link \in LinkType /\ job \in JobType /\ result \in ResultType
    BY <1>1, IdleTyped DEF LinkType
  <2>2. mem \in [Addresses -> WordValues]
    BY <1>1, CodeFacts
  <2>3. commands \in 0..MaxCommands /\ trouble \in 0..MaxTrouble
    BY <1>1, SwdAssumption
  <2>4. QED
    BY <1>1, <1>2, <2>1, <2>2, <2>3, TypeParts
<1>4. /\ job.phase = "idle" /\ job.op = "none" /\ result.op = "none"
      /\ link.csw = FALSE /\ link.selected = "none"
  BY <1>1, IdleTyped
<1>5. Controlled /\ Counted /\ Poked /\ Cached
  BY <1>4 DEF Controlled, Counted, Poked, Cached, Blocks
<1>6. Placed /\ Gotten /\ Landed /\ OnlyBlock(job) /\ Answered
  BY <1>4 DEF Placed, Gotten, Landed, Sound, OnlyBlock, Answered, WordsRight,
              RawWordsRight, Done
<1>7. QED
  BY <1>3, <1>5, <1>6 DEF IInv

\* It holds while nothing happens.
LEMMA StutterKeeps ==
  ASSUME IInv, UNCHANGED vars
  PROVE  IInv'
<1>1. UNCHANGED <<link, job, result, target, mem, commands, trouble, before, doubt>>
  BY DEF vars
<1>2. TypeOK'
  BY <1>1, TypeParts, TypedNext DEF IInv
<1>3. Controlled' /\ Counted' /\ Poked' /\ Cached'
  BY <1>1 DEF IInv, Controlled, Counted, Poked, Cached
<1>4. Placed' /\ Gotten' /\ Landed'
  BY <1>1 DEF IInv, Placed, Gotten, Landed, Sound, Aimed, GoesOn, EndsSpan
<1>5. OnlyBlock(job)' /\ Answered'
  BY <1>1 DEF IInv, OnlyBlock, InBlock, Answered, WordsRight, RawWordsRight, Done,
              Words, Aimed
<1>6. QED
  BY <1>2, <1>3, <1>4, <1>5 DEF IInv

\* Every step keeps it.
LEMMA StepKeeps ==
  ASSUME IInv, [Next]_vars
  PROVE  IInv'
<1>1. CASE TransferOk \/ DataDropped \/ BusError
  BY <1>1, MovesAre, MovedKeeps
<1>2. CASE TransferWait
  BY <1>2, WaitKeeps
<1>3. CASE TransferFault
  BY <1>3, FaultKeeps
<1>4. CASE Abort \/ AbortLost \/ TransferUnanswered \/ TransferParity \/ TransferGarbled
  BY <1>4, FailuresKeep
<1>5. CASE Command
  BY <1>5, CommandKeeps
<1>6. CASE UNCHANGED vars
  BY <1>6, StutterKeeps
<1>7. QED
  BY <1>1, <1>2, <1>3, <1>4, <1>5, <1>6 DEF Next, Transfer

\* The invariant holds in every state that commands, faults and lost bits lead to.
THEOREM Inductive == Spec => []IInv
<1>1. Init => IInv
  BY InitEstablishes
<1>2. IInv /\ [Next]_vars => IInv'
  BY StepKeeps
<1>3. QED
  BY <1>1, <1>2, PTL DEF Spec

\* Every variable keeps its type.
THEOREM TypeCorrect == Spec => []TypeOK
<1>1. IInv => TypeOK
  BY DEF IInv
<1>2. QED
  BY <1>1, Inductive, PTL

\* An Ok of read_words carries the words of its block, in order, for every block,
\* region, retry count and fault.
THEOREM ReadWordsRight == Spec => []WordsRight
<1>1. IInv => WordsRight
  BY DEF IInv, Answered
<1>2. QED
  BY <1>1, Inductive, PTL

\* So does an Ok of raw_read_block, whatever chunk size it is cut into.
THEOREM RawReadRight == Spec => []RawWordsRight
<1>1. IInv => RawWordsRight
  BY DEF IInv, Answered
<1>2. QED
  BY <1>1, Inductive, PTL

\* An Ok of write_words means that the block is stored, and neither an Ok nor a
\* failure has touched a word outside it.
THEOREM WriteWordsLand == Spec => []WritesLand
<1>1. IInv => WritesLand
  BY DEF IInv, Answered, WritesLand, OnlyBlock
<1>2. QED
  BY <1>1, Inductive, PTL

\* A word acknowledged and not stored has left the sticky flag set.
THEOREM LossAlwaysTold == Spec => []LossTold
<1>1. ASSUME IInv PROVE LossTold
  <2> SUFFICES ASSUME NEW r \in {job, result},
                      \/ r.op = "rawWrite" /\ Aimed(r)
                      \/ r.op = "write" /\ ~doubt,
                      NEW a \in Acknowledged
               PROVE  mem[a] = NewWord(a) \/ target.sticky
    BY DEF LossTold
  <2>1. CASE job.op \in {"write", "rawWrite"}
    <3>1. result.op = "none"
      BY <1>1, <2>1, IdleTyped DEF IInv, Controlled
    <3>2. r = job
      BY <3>1
    <3>3. Sound
      BY <3>2 DEF Sound
    <3>4. PICK i \in 0..(job.at - 1) : a = Plus(job.addr, i)
      BY <2>1 DEF Acknowledged
    <3>5. QED
      BY <1>1, <2>1, <3>3, <3>4 DEF IInv, Landed
  <2>2. CASE job.op \notin {"write", "rawWrite"} /\ Done("rawWrite")
    <3>1. r = result /\ Aimed(result)
      BY <2>2 DEF Done
    <3>2. PICK i \in 0..(result.n - 1) : a = Plus(result.addr, i)
      BY <2>2 DEF Acknowledged
    <3>3. QED
      BY <1>1, <2>2, <3>1, <3>2 DEF IInv, Answered
  <2>3. CASE job.op \notin {"write", "rawWrite"} /\ ~Done("rawWrite")
    BY <2>3 DEF Acknowledged
  <2>4. QED
    BY <2>1, <2>2, <2>3
<1>2. QED
  BY <1>1, Inductive, PTL

\* A Fault is answered with its cause cleared, unless the ABORT was lost.
THEOREM FaultsCleared == Spec => FaultCleared
<1>1. ASSUME IInv, [Next]_vars
      PROVE  [job.phase # "idle" /\ result'.status = "Fault" /\ trouble' = trouble
                => ~target'.sticky]_vars
  <2> SUFFICES ASSUME Next, job.phase # "idle", result'.status = "Fault",
                      trouble' = trouble
               PROVE  ~target'.sticky
    BY <1>1
  <2>1. result.status = "none" /\ target \in TargetType /\ trouble \in Nat
    BY <1>1, IdleTyped, TypeParts, SwdAssumption DEF IInv, Controlled
  <2>2. ASSUME NEW v, Proceeds(v) PROVE FALSE
    BY <2>1, <2>2 DEF Proceeds, Ends
  <2>3. CASE TransferOk \/ DataDropped \/ BusError
    BY <2>2, <2>3 DEF TransferOk, DataDropped, BusError
  <2>4. CASE TransferWait
    BY <2>1, <2>4 DEF TransferWait, Ends
  <2>5. CASE TransferFault
    BY <2>1, <2>5 DEF TransferFault
  <2>6. CASE Abort
    <3>1. job.phase = "abort" /\ ~target.lost
      BY <1>1, <2>6 DEF Abort, IInv, Controlled
    <3>2. target' = [target EXCEPT !.sticky = FALSE]
      BY <2>6, <3>1, AbortIs DEF Abort
    <3>3. QED
      BY <2>1, <3>2 DEF TargetType
  <2>7. CASE AbortLost \/ TransferParity \/ TransferGarbled
    BY <2>1, <2>7 DEF AbortLost, TransferParity, TransferGarbled, Troubled
  <2>8. CASE TransferUnanswered
    BY <2>8 DEF TransferUnanswered, Ends
  <2>9. CASE Command
    BY <2>9 DEF Command, Connect, Detach, ReadWords, WriteWords, RawReadBlock,
                RawWriteBlock, RawWriteRegister, Begins
  <2>10. QED
    BY <2>3, <2>4, <2>5, <2>6, <2>7, <2>8, <2>9 DEF Next, Transfer
<1>2. QED
  BY <1>1, Inductive, PTL DEF Spec, FaultCleared
============================================================================
