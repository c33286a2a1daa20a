---------------------------- MODULE BridgeProofs ----------------------------
(***************************************************************************)
(* Proofs about Bridge: its types; that requests reach the hub whole, in    *)
(* order, at most once and without one being forgotten, however sessions    *)
(* come, go and die; and that each step of the command path is one of Rpc   *)
(* when no reply is a later request's (FlightProofs).  IInv describes the   *)
(* way of the requests: the pieces on every connection, the bridge's        *)
(* buffer, and what became of each request.                                 *)
(***************************************************************************)
EXTENDS Bridge, WellFoundedInduction, FiniteSetTheorems, SequenceTheorems, TLAPS

HostType == [open : BOOLEAN, stage : Stages, sequence : 0..(SeqModulus - 1),
       inflight : Seq(Messages), pending : Seq(Pieces), sessions : Nat,
       calls : {0} \cup Calls]
ConnType == [open : BOOLEAN, up : Seq(Pieces), down : Seq(Pieces)]
BridgeType == [serving : BOOLEAN, frame : Seq(Pieces),
       phase : {"reading", "asking", "running", "writing"},
       doing : Messages \cup {NoMessage}]

\* A connection per session; the one being served is there, and only the last
\* can still be open.
Shaped(l) ==
  /\ l \notin Streams => Len(conns[l]) = 1 /\ Serving(l)
  /\ Serving(l) => conns[l] # <<>>
  /\ bridge[l].phase # "reading" => Serving(l) /\ bridge[l].doing \in Messages
  /\ host[l].open <=> conns[l] # <<>> /\ Conn(l).open
  /\ \A k \in 1..(Len(conns[l]) - 1) : ~conns[l][k].open

Shapes == \A l \in Links : Shaped(l)

\* What each connection still carries to the probe.
Ups(l) == [k \in 1..Len(conns[l]) |-> conns[l][k].up]

\* Every frame on its way is whole: a separator, its first bytes, its last; or
\* what is missing of the one at the head is in the bridge's buffer.
FrameAt(u, b, k, i) ==
  /\ u[k][i].part # "text"
  /\ u[k][i].part = "final" =>
       \/ i >= 3 /\ u[k][i - 1] = First(u[k][i].of) /\ u[k][i - 2] = Gap
       \/ /\ i = 2 /\ u[k][1] = First(u[k][i].of)
          /\ k = 1 /\ b.serving /\ b.frame = <<>>
       \/ i = 1 /\ k = 1 /\ b.serving /\ b.frame = <<First(u[k][i].of)>>
Built(u, b) == \A k \in 1..Len(u) : \A i \in 1..Len(u[k]) : FrameAt(u, b, k, i)

\* Requests are on their way in the order they were made.
Ordered(u) ==
  \A k \in 1..Len(u), j \in 1..Len(u) : \A i \in 1..Len(u[k]), h \in 1..Len(u[j]) :
    /\ u[k][i].part = "final" /\ u[j][h].part = "final"
    /\ k < j \/ (k = j /\ i < h)
    => u[k][i].of.id < u[j][h].of.id

\* They are later than everything done, and than what is being done.
LaterThan(c, b, calls, done, gone) ==
  /\ c \in 1..calls /\ c \notin gone
  /\ \A d \in done : d < c
  /\ b.phase # "reading" => b.doing.id < c
Later(u, b, calls, done, gone) ==
  \A k \in 1..Len(u) : \A i \in 1..Len(u[k]) :
    u[k][i].part = "final" => LaterThan(u[k][i].of.id, b, calls, done, gone)

Asked(b) == b.phase \in {"asking", "running"}

\* What is about to be done was not done before, nor anything after it.
AtHand(b, calls, done, gone) ==
  /\ Asked(b) => /\ b.doing.id \in 1..calls /\ b.doing.id \notin gone
                 /\ \A c \in done : c < b.doing.id
  /\ b.phase = "writing" => b.doing.id \in done

Past(calls, done, gone) ==
  /\ done \subseteq 1..calls /\ gone \subseteq 1..calls
  /\ done \cap gone = {}

\* Every request made was carried out, or lost with its connection or with the
\* host that wrote half of it, or is at hand or whole on its way.
OnItsWay(u, c) == \E k \in 1..Len(u) : \E i \in 1..Len(u[k]) :
                    u[k][i].part = "final" /\ u[k][i].of.id = c
Accounted(u, b, calls, done, gone) ==
  \A c \in 1..calls : \/ c \in done \cup gone
                      \/ Asked(b) /\ b.doing.id = c
                      \/ OnItsWay(u, c)

Requested(u, b, calls, done, gone) ==
  /\ Built(u, b) /\ Ordered(u) /\ Later(u, b, calls, done, gone)
  /\ AtHand(b, calls, done, gone) /\ Past(calls, done, gone)
  /\ Accounted(u, b, calls, done, gone)
Requests(l) == Requested(Ups(l), bridge[l], host[l].calls, executed[l], lost[l])

\* Only what was carried out is answered.
Answers(s, done) == \A i \in 1..Len(s) : s[i].part = "final" => s[i].of.id \in done
Answered(l) ==
  /\ Answers(host[l].pending, executed[l])
  /\ \A k \in 1..Len(conns[l]) : Answers(conns[l][k].down, executed[l])

Kept(l) == Shaped(l) /\ Requests(l) /\ Answered(l)
IInv == TypeOK /\ \A l \in Links : Kept(l)

-----------------------------------------------------------------------------
LEMMA Numbers ==
  /\ SeqModulus \in Nat \ {0} /\ \A n \in Nat : n % SeqModulus \in 0..(SeqModulus - 1)
  /\ Calls \subseteq Nat \ {0}
  /\ \A c \in Calls : \A d \in 1..c : d \in Calls
  /\ \A l \in Links : MaxCalls[l] \in Nat /\ 1..MaxCalls[l] \subseteq Calls
  /\ ReadChunk \in Nat \ {0} /\ TxCapacity \in Nat
<1>1. SeqModulus \in Nat \ {0} /\ ReadChunk \in Nat \ {0} /\ TxCapacity \in Nat
  BY BridgeAssumption
<1>2. \A n \in Nat : n % SeqModulus \in 0..(SeqModulus - 1)
  BY <1>1
<1>3. \A l \in Links : MaxCalls[l] \in Nat /\ 1..MaxCalls[l] \subseteq Calls
  BY BridgeAssumption DEF Calls
<1>4. \A c \in Calls : \E l \in Links : c \in 1..MaxCalls[l]
  BY DEF Calls
<1> QED BY <1>1, <1>2, <1>3, <1>4

LEMMA Counted == \A n : n \in {0} \cup Calls => n \in Nat
BY Numbers

LEMMA Least ==
  ASSUME NEW T \in SUBSET Nat, T # {}
  PROVE  \E x \in T : \A y \in T : x <= y
<1> DEFINE W == {1..i : i \in T}
<1>1. IsWellFoundedOn(StrictSubsetOrdering(Nat), FiniteSubsetsOf(Nat))
  BY FS_StrictSubsetOrderingWellFounded
<1>2. W \subseteq FiniteSubsetsOf(Nat)
  <2>1. SUFFICES ASSUME NEW i \in T PROVE 1..i \in FiniteSubsetsOf(Nat)
    BY DEF W
  <2>2. 1 \in Int /\ i \in Int
    OBVIOUS
  <2>3. IsFiniteSet(1..i)
    BY <2>2, FS_Interval
  <2> QED BY <2>3 DEF FiniteSubsetsOf
<1>3. W # {}
  OBVIOUS
<1>4. PICK x \in T : \A y \in W : <<y, 1..x>> \notin StrictSubsetOrdering(Nat)
  <2> HIDE DEF W
  <2>1. \E w \in W : \A y \in W : ~(<<y, w>> \in StrictSubsetOrdering(Nat))
    BY <1>1, <1>2, <1>3, WFMin
  <2> QED BY <2>1 DEF W
<1>5. ASSUME NEW y \in T, y < x PROVE FALSE
  <2>1. x \in 1..x /\ x \notin 1..y
    BY <1>5
  <2>2. 1..y \subseteq 1..x /\ 1..y # 1..x /\ 1..x \in SUBSET Nat
    BY <2>1, <1>5
  <2> QED BY <1>4, <2>2 DEF StrictSubsetOrdering
<1> QED BY <1>4, <1>5

LEMMA FirstEnd ==
  ASSUME NEW s \in Seq(Pieces), HasFrame(s)
  PROVE  FrameEnd(s) \in 1..Len(s) /\ s[FrameEnd(s)].part \in {"gap", "final"}
<1>1. Ends(s) \in SUBSET Nat /\ Ends(s) # {}
  BY DEF Ends, HasFrame
<1>2. \E x \in Ends(s) : \A y \in Ends(s) : x <= y
  BY <1>1, Least
<1>3. FrameEnd(s) \in Ends(s)
  BY <1>2 DEF FrameEnd
<1> QED BY <1>3 DEF Ends

LEMMA MessageParts ==
  /\ NoMessage \notin Messages
  /\ \A m \in Messages : /\ First(m) \in Pieces /\ Final(m) \in Pieces
                         /\ Framed(m) \in Seq(Pieces)
  /\ Gap \in Pieces /\ Text \in Pieces
  /\ \A p \in Pieces : p.part \in {"first", "final"} => p.of \in Messages
  /\ \A p \in Pieces : p.part \in {"gap", "text"} => p.of = NoMessage
<1>1. NoMessage \notin Messages
  BY DEF Messages, NoMessage, Stages
<1>2. Gap \in Pieces /\ Text \in Pieces
  BY DEF Pieces, Gap, Text
<1>3. ASSUME NEW m \in Messages
      PROVE  First(m) \in Pieces /\ Final(m) \in Pieces /\ Framed(m) \in Seq(Pieces)
  <2>1. First(m) \in Pieces /\ Final(m) \in Pieces
    BY <1>3 DEF Pieces, First, Final
  <2> QED BY <2>1, <1>2 DEF Framed
<1>4. \A p \in Pieces : p.part \in {"first", "final"} => p.of \in Messages
  BY DEF Pieces
<1>5. \A p \in Pieces : p.part \in {"gap", "text"} => p.of = NoMessage
  BY DEF Pieces
<1> QED BY <1>1, <1>2, <1>3, <1>4, <1>5

LEMMA InitHolds == Init => TypeOK /\ Shapes
<1> SUFFICES ASSUME Init PROVE TypeOK /\ Shapes
  OBVIOUS
<1>1. host \in [Links -> HostType]
  BY Numbers DEF Init, HostType, Stages
<1>2. conns \in [Links -> Seq(ConnType)]
  <2>1. <<>> \in Seq(ConnType) /\ <<[open |-> FALSE, up |-> <<>>, down |-> <<>>]>> \in Seq(ConnType)
    BY DEF ConnType
  <2> QED BY <2>1 DEF Init
<1>3. bridge \in [Links -> BridgeType]
  BY DEF Init, BridgeType
<1>4. /\ holder \in SUBSET Links /\ noise \in [Links -> Nat]
      /\ executed \in [Links -> SUBSET Calls]
      /\ lost \in [Links -> SUBSET Calls] /\ spoiled \in [Links -> SUBSET Calls]
      /\ kind \in [Links -> [Calls -> Stages \cup {"none"}]]
      /\ got \in [Links -> [want : {0} \cup Calls, had : {0} \cup Calls]]
  BY DEF Init
<1>5. ASSUME NEW l \in Links PROVE Shaped(l)
  <2>1. bridge[l].phase = "reading" /\ ~host[l].open
    BY DEF Init
  <2>2. CASE l \in Streams
    <3>1. conns[l] = <<>> /\ Len(conns[l]) = 0 /\ ~bridge[l].serving
      BY <2>2 DEF Init
    <3> QED BY <2>1, <2>2, <3>1 DEF Shaped, Serving
  <2>3. CASE l \notin Streams
    <3>1. bridge[l].serving /\ conns[l] = <<[open |-> FALSE, up |-> <<>>, down |-> <<>>]>>
      BY <2>3 DEF Init
    <3>2. Len(conns[l]) = 1 /\ conns[l] # <<>> /\ ~conns[l][1].open
      BY <3>1
    <3>3. ~Conn(l).open /\ ~\E k \in 1..(Len(conns[l]) - 1) : conns[l][k].open
      BY <3>2 DEF Conn
    <3> QED BY <2>1, <2>3, <3>1, <3>2, <3>3 DEF Shaped, Serving
  <2> QED BY <2>2, <2>3
<1> QED BY <1>1, <1>2, <1>3, <1>4, <1>5 DEF Shapes, TypeOK, HostType, ConnType, BridgeType
-----------------------------------------------------------------------------
(* The connection a session writes to, and the one that is served. *)

LEMMA Parts ==
  ASSUME TypeOK, NEW l \in Links
  PROVE  /\ host \in [Links -> HostType] /\ conns \in [Links -> Seq(ConnType)]
         /\ bridge \in [Links -> BridgeType]
         /\ host[l] \in HostType /\ conns[l] \in Seq(ConnType) /\ bridge[l] \in BridgeType
         /\ Len(conns[l]) \in Nat
         /\ \A k \in 1..Len(conns[l]) : conns[l][k] \in ConnType
<1>1. /\ host \in [Links -> HostType] /\ conns \in [Links -> Seq(ConnType)]
      /\ bridge \in [Links -> BridgeType]
  BY DEF TypeOK, HostType, ConnType, BridgeType
<1> QED BY <1>1

LEMMA LastConn ==
  ASSUME TypeOK, Shapes, NEW l \in Links, conns[l] # <<>>
  PROVE  /\ Len(conns[l]) \in Nat \ {0} /\ Conn(l) \in ConnType
         /\ \A c \in ConnType :
              /\ WithConn(l, c) \in [Links -> Seq(ConnType)]
              /\ Len(WithConn(l, c)[l]) = Len(conns[l])
              /\ WithConn(l, c)[l][Len(conns[l])] = c
              /\ \A k \in 1..(Len(conns[l]) - 1) : WithConn(l, c)[l][k] = conns[l][k]
              /\ \A m \in Links \ {l} : WithConn(l, c)[m] = conns[m]
<1>1. conns \in [Links -> Seq(ConnType)] /\ conns[l] \in Seq(ConnType) /\ Len(conns[l]) \in Nat \ {0}
  BY Parts
<1>2. Conn(l) \in ConnType
  BY <1>1, Parts DEF Conn
<1>3. ASSUME NEW c \in ConnType
      PROVE  /\ WithConn(l, c) \in [Links -> Seq(ConnType)]
             /\ Len(WithConn(l, c)[l]) = Len(conns[l])
             /\ WithConn(l, c)[l][Len(conns[l])] = c
             /\ \A k \in 1..(Len(conns[l]) - 1) : WithConn(l, c)[l][k] = conns[l][k]
             /\ \A m \in Links \ {l} : WithConn(l, c)[m] = conns[m]
  <2> DEFINE s == [conns[l] EXCEPT ![Len(conns[l])] = c]
  <2>1. s \in Seq(ConnType) /\ Len(s) = Len(conns[l]) /\ s[Len(conns[l])] = c
        /\ \A k \in 1..(Len(conns[l]) - 1) : s[k] = conns[l][k]
    BY <1>1
  <2>2. WithConn(l, c) = [conns EXCEPT ![l] = s]
    BY <1>1 DEF WithConn
  <2> HIDE DEF s
  <2> QED BY <1>1, <2>1, <2>2
<1> QED BY <1>1, <1>2, <1>3

\* What closing a session may leave: the same requests, and replies of before.
LEMMA HangUp ==
  ASSUME TypeOK, Shapes, NEW l \in Links, conns[l] # <<>>, NEW c \in HungUp(l)
  PROVE  \E d \in Seq(Pieces) :
           /\ d = <<>> \/ \E n \in 1..(Len(Conn(l).down) + 1) : d = From(Conn(l).down, n)
           /\ [Conn(l) EXCEPT !.open = FALSE, !.down = d] \in ConnType
           /\ c = WithConn(l, [Conn(l) EXCEPT !.open = FALSE, !.down = d])
<1>1. Conn(l) \in ConnType
  BY LastConn
<1>2. Unread(l) \subseteq Seq(Pieces)
  <2>1. \A n \in 1..(Len(Conn(l).down) + 1) : From(Conn(l).down, n) \in Seq(Pieces)
    BY <1>1 DEF From, ConnType
  <2>2. <<>> \in Seq(Pieces)
    OBVIOUS
  <2> QED BY <2>1, <2>2 DEF Unread
<1>3. PICK d \in Unread(l) : c = WithConn(l, [Conn(l) EXCEPT !.open = FALSE, !.down = d])
  BY DEF HungUp
<1>4. d = <<>> \/ \E n \in 1..(Len(Conn(l).down) + 1) : d = From(Conn(l).down, n)
  BY <1>3 DEF Unread
<1> QED BY <1>1, <1>2, <1>3, <1>4 DEF ConnType

LEMMA FirstConn ==
  ASSUME TypeOK, NEW l \in Links, conns[l] # <<>>
  PROVE  /\ Len(conns[l]) \in Nat \ {0} /\ conns[l][1] \in ConnType
         /\ \A c \in ConnType :
              LET s == [conns EXCEPT ![l][1] = c] IN
              /\ s \in [Links -> Seq(ConnType)]
              /\ Len(s[l]) = Len(conns[l])
              /\ s[l][1] = c
              /\ \A k \in 2..Len(conns[l]) : s[l][k] = conns[l][k]
              /\ \A m \in Links \ {l} : s[m] = conns[m]
<1>1. conns \in [Links -> Seq(ConnType)] /\ conns[l] \in Seq(ConnType) /\ Len(conns[l]) \in Nat \ {0}
  BY Parts
<1>2. conns[l][1] \in ConnType
  BY <1>1, Parts
<1>3. ASSUME NEW c \in ConnType
      PROVE  LET s == [conns EXCEPT ![l][1] = c] IN
             /\ s \in [Links -> Seq(ConnType)]
             /\ Len(s[l]) = Len(conns[l])
             /\ s[l][1] = c
             /\ \A k \in 2..Len(conns[l]) : s[l][k] = conns[l][k]
             /\ \A m \in Links \ {l} : s[m] = conns[m]
  <2> DEFINE s == [conns[l] EXCEPT ![1] = c]
  <2>1. s \in Seq(ConnType) /\ Len(s) = Len(conns[l]) /\ s[1] = c
        /\ \A k \in 2..Len(conns[l]) : s[k] = conns[l][k]
    BY <1>1
  <2>2. [conns EXCEPT ![l][1] = c] = [conns EXCEPT ![l] = s]
    BY <1>1
  <2> HIDE DEF s
  <2> QED BY <1>1, <2>1, <2>2
<1> QED BY <1>1, <1>2, <1>3

-----------------------------------------------------------------------------
(* What an action of one link leaves alone. *)

\* Nothing of another link changes.
Alone(l) ==
  \A m \in Links \ {l} :
    /\ host'[m] = host[m] /\ conns'[m] = conns[m] /\ bridge'[m] = bridge[m]
    /\ executed'[m] = executed[m] /\ lost'[m] = lost[m]

LEMMA OthersKept ==
  ASSUME NEW l \in Links, Alone(l), \A m \in Links : Kept(m), Kept(l)'
  PROVE  \A m \in Links : Kept(m)'
<1> SUFFICES ASSUME NEW m \in Links \ {l} PROVE Kept(m)'
  OBVIOUS
<1>1. /\ host'[m] = host[m] /\ conns'[m] = conns[m] /\ bridge'[m] = bridge[m]
      /\ executed'[m] = executed[m] /\ lost'[m] = lost[m]
  BY DEF Alone
<1>2. Kept(m)
  OBVIOUS
<1>3. Shaped(m)'
  BY <1>1, <1>2 DEF Kept, Shaped, Serving, Conn
<1>4. Requests(m)'
  <2>1. Ups(m)' = Ups(m)
    BY <1>1 DEF Ups
  <2> QED BY <1>1, <1>2, <2>1 DEF Kept, Requests
<1>5. Answered(m)'
  BY <1>1, <1>2 DEF Kept, Answered, Answers
<1> QED BY <1>3, <1>4, <1>5 DEF Kept

LEMMA UpsIs ==
  ASSUME TypeOK, NEW l \in Links
  PROVE  /\ Ups(l) \in Seq(Seq(Pieces)) /\ Len(Ups(l)) = Len(conns[l])
         /\ \A k \in 1..Len(conns[l]) : Ups(l)[k] = conns[l][k].up
<1>1. Len(conns[l]) \in Nat /\ \A k \in 1..Len(conns[l]) : conns[l][k] \in ConnType
  BY Parts
<1>2. \A k \in 1..Len(conns[l]) : conns[l][k].up \in Seq(Pieces)
  BY <1>1 DEF ConnType
<1> QED BY <1>1, <1>2 DEF Ups

\* The bridge may take the mutex, write a reply or accept a client: none of it
\* is about the requests.
LEMMA QuietKeeps ==
  ASSUME NEW u, NEW b, NEW e, NEW calls, NEW done, NEW gone,
         Requested(u, b, calls, done, gone),
         Asked(e) <=> Asked(b),
         e.phase # "reading" => b.phase # "reading" /\ e.doing = b.doing,
         e.phase = "writing" => b.phase = "writing",
         b.serving => e.serving /\ e.frame = b.frame
  PROVE  Requested(u, e, calls, done, gone)
<1>1. Built(u, e)
  BY DEF Requested, Built, FrameAt
<1>2. Later(u, e, calls, done, gone)
  BY DEF Requested, Later, LaterThan
<1>3. AtHand(e, calls, done, gone)
  BY DEF Requested, AtHand, Asked
<1>4. Accounted(u, e, calls, done, gone)
  BY DEF Requested, Accounted, Asked
<1> QED BY <1>1, <1>2, <1>3, <1>4 DEF Requested

\* The parts of the invariant after a step, put together.
LEMMA StepKept ==
  ASSUME IInv, NEW l \in Links, Alone(l), TypeOK', Shaped(l)', Requests(l)', Answered(l)'
  PROVE  IInv'
<1>1. Kept(l)'
  BY DEF Kept
<1>2. \A m \in Links : Kept(m)
  BY DEF IInv
<1>3. \A m \in Links : Kept(m)'
  BY <1>1, <1>2, OthersKept
<1> QED BY <1>3 DEF IInv

LEMMA Known ==
  ASSUME IInv, NEW l \in Links
  PROVE  TypeOK /\ Shapes /\ Shaped(l) /\ Requests(l) /\ Answered(l)
BY DEF IInv, Kept, Shapes

\* The histories and what is counted besides stay as they are.
LEMMA Retyped ==
  ASSUME TypeOK, host' \in [Links -> HostType], conns' \in [Links -> Seq(ConnType)],
         bridge' \in [Links -> BridgeType], holder' \in SUBSET Links,
         UNCHANGED <<noise, executed, lost, spoiled, kind, got>>
  PROVE  TypeOK'
BY DEF TypeOK, HostType, ConnType, BridgeType

-----------------------------------------------------------------------------
(* The host. *)

LEMMA HostSet ==
  ASSUME NEW h \in HostType
  PROVE  /\ \A b \in BOOLEAN : [h EXCEPT !.open = b] \in HostType
         /\ \A x \in Stages : [h EXCEPT !.stage = x] \in HostType
         /\ \A x \in 0..(SeqModulus - 1) : [h EXCEPT !.sequence = x] \in HostType
         /\ \A x \in Seq(Messages) : [h EXCEPT !.inflight = x] \in HostType
         /\ \A x \in Seq(Pieces) : [h EXCEPT !.pending = x] \in HostType
         /\ \A x \in Nat : [h EXCEPT !.sessions = x] \in HostType
         /\ \A x \in {0} \cup Calls : [h EXCEPT !.calls = x] \in HostType
<1>1. \A b \in BOOLEAN : [h EXCEPT !.open = b] \in HostType
  BY DEF HostType
<1>2. \A x \in Stages : [h EXCEPT !.stage = x] \in HostType
  BY DEF HostType
<1>3. \A x \in 0..(SeqModulus - 1) : [h EXCEPT !.sequence = x] \in HostType
  BY DEF HostType
<1>4. \A x \in Seq(Messages) : [h EXCEPT !.inflight = x] \in HostType
  BY DEF HostType
<1>5. \A x \in Seq(Pieces) : [h EXCEPT !.pending = x] \in HostType
  BY DEF HostType
<1>6. \A x \in Nat : [h EXCEPT !.sessions = x] \in HostType
  BY DEF HostType
<1>7. \A x \in {0} \cup Calls : [h EXCEPT !.calls = x] \in HostType
  BY DEF HostType
<1> QED BY <1>1, <1>2, <1>3, <1>4, <1>5, <1>6, <1>7

LEMMA ClosedIs ==
  ASSUME NEW h \in HostType
  PROVE  /\ Closed(h) \in HostType /\ Closed(h).pending = <<>> /\ Closed(h).inflight = <<>>
         /\ ~Closed(h).open /\ Closed(h).calls = h.calls /\ Closed(h).sessions = h.sessions
         /\ Closed(h).stage = "hello"
<1> DEFINE h1 == [h EXCEPT !.open = FALSE]
           h2 == [h1 EXCEPT !.stage = "hello"]
           h3 == [h2 EXCEPT !.sequence = 0]
           h4 == [h3 EXCEPT !.inflight = <<>>]
           h5 == [h4 EXCEPT !.pending = <<>>]
<1>1. h1 \in HostType /\ ~h1.open /\ h1.calls = h.calls /\ h1.sessions = h.sessions
  BY HostSet DEF HostType
<1> HIDE DEF h1
<1>2. h2 \in HostType /\ h2.open = h1.open /\ h2.calls = h1.calls /\ h2.sessions = h1.sessions
      /\ h2.stage = "hello"
  <2>1. h2 \in HostType
    BY <1>1, HostSet DEF Stages
  <2> QED BY <1>1, <2>1 DEF HostType
<1> HIDE DEF h2
<1>3. h3 \in HostType /\ h3.open = h2.open /\ h3.calls = h2.calls /\ h3.sessions = h2.sessions
      /\ h3.stage = h2.stage
  <2>1. 0 \in 0..(SeqModulus - 1)
    BY Numbers
  <2>2. h3 \in HostType
    BY <1>2, <2>1, HostSet
  <2> QED BY <1>2, <2>2 DEF HostType
<1> HIDE DEF h3
<1>4. h4 \in HostType /\ h4.open = h3.open /\ h4.calls = h3.calls /\ h4.sessions = h3.sessions
      /\ h4.stage = h3.stage /\ h4.inflight = <<>>
  <2>1. <<>> \in Seq(Messages)
    OBVIOUS
  <2>2. h4 \in HostType
    BY <1>3, <2>1, HostSet
  <2> QED BY <1>3, <2>2 DEF HostType
<1> HIDE DEF h4
<1>5. h5 \in HostType /\ h5.open = h4.open /\ h5.calls = h4.calls /\ h5.sessions = h4.sessions
      /\ h5.stage = h4.stage /\ h5.inflight = h4.inflight /\ h5.pending = <<>>
  BY <1>4, HostSet DEF HostType
<1> HIDE DEF h5
<1>6. Closed(h) = h5
  BY DEF Closed, h1, h2, h3, h4, h5
<1> QED BY <1>1, <1>2, <1>3, <1>4, <1>5, <1>6

LEMMA FrameSame ==
  ASSUME NEW u, NEW v, NEW b, NEW k, NEW i \in Nat \ {0}, FrameAt(u, b, k, i),
         \A j \in 1..i : v[k][j] = u[k][j]
  PROVE  FrameAt(v, b, k, i)
<1>1. v[k][i] = u[k][i]
  OBVIOUS
<1>2. i >= 3 => v[k][i - 1] = u[k][i - 1] /\ v[k][i - 2] = u[k][i - 2]
  OBVIOUS
<1>3. i = 2 => v[k][1] = u[k][1]
  OBVIOUS
<1> QED BY <1>1, <1>2, <1>3 DEF FrameAt

LEMMA SessionOpens ==
  ASSUME NEW u \in Seq(Seq(Pieces)), NEW b, NEW calls, NEW done, NEW gone,
         Requested(u, b, calls, done, gone)
  PROVE  Requested(Append(u, <<>>), b, calls, done, gone)
<1> DEFINE v == Append(u, <<>>)
<1>1. /\ \A k \in 1..Len(u) : k \in 1..Len(v) /\ v[k] = u[k]
      /\ \A k \in 1..Len(v) : \A i \in 1..Len(v[k]) : k \in 1..Len(u)
  OBVIOUS
<1> HIDE DEF v
<1>2. Built(v, b)
  <2> SUFFICES ASSUME NEW k \in 1..Len(v), NEW i \in 1..Len(v[k]) PROVE FrameAt(v, b, k, i)
    BY DEF Built
  <2>1. k \in 1..Len(u) /\ v[k] = u[k] /\ i \in Nat \ {0}
    BY <1>1
  <2>2. FrameAt(u, b, k, i)
    BY <2>1 DEF Requested, Built
  <2> QED BY <2>1, <2>2, FrameSame
<1>3. Ordered(v)
  BY <1>1 DEF Requested, Ordered
<1>4. Later(v, b, calls, done, gone)
  BY <1>1 DEF Requested, Later
<1>5. Accounted(v, b, calls, done, gone)
  <2>1. \A c : OnItsWay(u, c) => OnItsWay(v, c)
    BY <1>1 DEF OnItsWay
  <2>2. Accounted(u, b, calls, done, gone)
    BY DEF Requested
  <2> HIDE DEF v
  <2> QED BY <2>1, <2>2 DEF Accounted
<1> QED BY <1>2, <1>3, <1>4, <1>5 DEF Requested, v

LEMMA NothingAnswered == \A S : Answers(<<>>, S)
BY DEF Answers

\* Everything a session does but write: it may open, close, read its connection
\* and drop what it has buffered.
LEMMA HostActs ==
  ASSUME IInv, NEW l \in Links, conns[l] # <<>>,
         NEW h \in HostType, host' = [host EXCEPT ![l] = h], h.calls = host[l].calls,
         NEW c \in ConnType, conns' = WithConn(l, c), c.up = Conn(l).up,
         h.open <=> c.open,
         Answers(h.pending, executed[l]), Answers(c.down, executed[l]),
         got' \in [Links -> [want : {0} \cup Calls, had : {0} \cup Calls]],
         UNCHANGED <<bridge, holder, noise, executed, lost, spoiled, kind>>
  PROVE  IInv'
<1>1. TypeOK /\ Shapes /\ Shaped(l) /\ Requests(l) /\ Answered(l)
  BY Known
<1>2. host' \in [Links -> HostType] /\ host'[l] = h /\ \A m \in Links \ {l} : host'[m] = host[m]
  BY <1>1, Parts
<1>3. /\ conns' \in [Links -> Seq(ConnType)] /\ Len(conns[l]) \in Nat \ {0}
      /\ Len(conns'[l]) = Len(conns[l]) /\ conns'[l][Len(conns[l])] = c
      /\ \A k \in 1..(Len(conns[l]) - 1) : conns'[l][k] = conns[l][k]
      /\ \A m \in Links \ {l} : conns'[m] = conns[m]
  BY <1>1, LastConn
<1>4. TypeOK'
  BY <1>1, <1>2, <1>3, Parts DEF TypeOK, HostType, ConnType, BridgeType
<1>5. Alone(l)
  BY <1>2, <1>3 DEF Alone
<1>6. Shaped(l)'
  <2>1. Conn(l)' = c
    BY <1>3 DEF Conn
  <2>2. conns'[l] # <<>> /\ bridge' = bridge /\ host'[l].open <=> c.open
    BY <1>2, <1>3
  <2> QED BY <1>1, <1>3, <2>1, <2>2 DEF Shaped, Serving
<1>7. Requests(l)'
  <2>1. \A k \in 1..Len(conns[l]) : conns'[l][k].up = conns[l][k].up
    BY <1>3 DEF Conn
  <2>2. Ups(l)' = Ups(l)
    BY <1>3, <2>1 DEF Ups
  <2> QED BY <1>1, <1>2, <2>2 DEF Requests
<1>8. Answered(l)'
  <2>1. Answers(host'[l].pending, executed'[l])
    BY <1>2
  <2>2. ASSUME NEW k \in 1..Len(conns'[l]) PROVE Answers(conns'[l][k].down, executed'[l])
    <3>1. CASE k = Len(conns[l])
      BY <1>3, <3>1
    <3>2. CASE k \in 1..(Len(conns[l]) - 1)
      BY <1>1, <1>3, <3>2 DEF Answered
    <3> QED BY <1>3, <3>1, <3>2
  <2> QED BY <2>1, <2>2 DEF Answered
<1> QED BY <1>1, <1>4, <1>5, <1>6, <1>7, <1>8, StepKept

\* The connection as it was is no change.
LEMMA SameConn ==
  ASSUME IInv, NEW l \in Links, conns[l] # <<>>
  PROVE  /\ Conn(l) \in ConnType /\ WithConn(l, Conn(l)) = conns
         /\ Answers(Conn(l).down, executed[l])
         /\ host[l].open <=> Conn(l).open
<1>1. TypeOK /\ Shapes /\ Shaped(l) /\ Requests(l) /\ Answered(l)
  BY Known
<1>2. conns \in [Links -> Seq(ConnType)] /\ Len(conns[l]) \in Nat \ {0} /\ conns[l] \in Seq(ConnType)
  BY <1>1, Parts, LastConn
<1>3. [conns[l] EXCEPT ![Len(conns[l])] = conns[l][Len(conns[l])]] = conns[l]
  BY <1>2
<1>4. WithConn(l, Conn(l)) = conns
  BY <1>2, <1>3 DEF WithConn, Conn
<1>5. Answers(Conn(l).down, executed[l])
  BY <1>1, <1>2 DEF Answered, Conn
<1> QED BY <1>1, <1>4, <1>5, LastConn DEF Shaped

LEMMA AnswersCut ==
  ASSUME NEW S, NEW s \in Seq(Pieces), NEW n \in Nat \ {0}, Answers(s, S)
  PROVE  Answers(From(s, n), S) /\ From(s, n) \in Seq(Pieces)
BY DEF Answers, From

LEMMA AnswersJoined ==
  ASSUME NEW S, NEW s \in Seq(Pieces), NEW t \in Seq(Pieces), Answers(s, S), Answers(t, S)
  PROVE  s \o t \in Seq(Pieces) /\ Answers(s \o t, S)
<1>1. /\ s \o t \in Seq(Pieces) /\ Len(s) \in Nat /\ Len(t) \in Nat
      /\ Len(s \o t) = Len(s) + Len(t)
      /\ \A i \in 1..(Len(s) + Len(t)) :
           (s \o t)[i] = IF i <= Len(s) THEN s[i] ELSE t[i - Len(s)]
  OBVIOUS
<1>2. ASSUME NEW i \in 1..Len(s \o t), (s \o t)[i].part = "final"
      PROVE  (s \o t)[i].of.id \in S
  <2>1. CASE i <= Len(s)
    BY <1>1, <1>2, <2>1 DEF Answers
  <2>2. CASE i > Len(s)
    BY <1>1, <1>2, <2>2 DEF Answers
  <2> QED BY <1>1, <2>1, <2>2
<1> QED BY <1>1, <1>2 DEF Answers

\* A session that ends.
LEMMA Ending ==
  ASSUME IInv, NEW l \in Links, host[l].open,
         host' = [host EXCEPT ![l] = Closed(@)], conns' \in HungUp(l),
         UNCHANGED <<bridge, holder, noise, history>>
  PROVE  IInv'
<1>1. TypeOK /\ Shapes /\ Shaped(l) /\ conns[l] # <<>> /\ host[l] \in HostType
  BY Known, Parts DEF Shaped
<1>2. PICK d \in Seq(Pieces) :
        /\ d = <<>> \/ \E n \in 1..(Len(Conn(l).down) + 1) : d = From(Conn(l).down, n)
        /\ [Conn(l) EXCEPT !.open = FALSE, !.down = d] \in ConnType
        /\ conns' = WithConn(l, [Conn(l) EXCEPT !.open = FALSE, !.down = d])
  BY <1>1, HangUp
<1> DEFINE c == [Conn(l) EXCEPT !.open = FALSE, !.down = d]
<1>3. c \in ConnType /\ c.up = Conn(l).up /\ ~c.open /\ c.down = d /\ conns' = WithConn(l, c)
  BY <1>1, <1>2, SameConn DEF ConnType
<1>4. Answers(d, executed[l])
  <2>1. Conn(l).down \in Seq(Pieces) /\ Answers(Conn(l).down, executed[l])
    BY <1>1, SameConn DEF ConnType
  <2>2. CASE d = <<>>
    BY <2>2, NothingAnswered
  <2>3. ASSUME NEW n \in 1..(Len(Conn(l).down) + 1), d = From(Conn(l).down, n)
        PROVE  Answers(d, executed[l])
    <3>1. n \in Nat \ {0}
      OBVIOUS
    <3> QED BY <2>1, <2>3, <3>1, AnswersCut
  <2> QED BY <1>2, <2>2, <2>3
<1>5. /\ Closed(host[l]) \in HostType /\ ~Closed(host[l]).open
      /\ Closed(host[l]).calls = host[l].calls /\ Closed(host[l]).pending = <<>>
  BY <1>1, ClosedIs
<1>6. /\ got' \in [Links -> [want : {0} \cup Calls, had : {0} \cup Calls]]
      /\ UNCHANGED <<bridge, holder, noise, executed, lost, spoiled, kind>>
  BY <1>1 DEF TypeOK, history
<1> HIDE DEF c
<1> QED BY <1>1, <1>3, <1>4, <1>5, <1>6, NothingAnswered, HostActs

LEMMA OpenKeeps ==
  ASSUME IInv, NEW l \in Links, Open(l)
  PROVE  IInv'
<1> DEFINE h == [Closed(host[l]) EXCEPT !.open = TRUE, !.sessions = host[l].sessions + 1]
           fresh == [open |-> TRUE, up |-> <<>>, down |-> <<>>]
<1>1. TypeOK /\ Shapes /\ Shaped(l) /\ Requests(l) /\ Answered(l)
  BY Known
<1>2. h \in HostType /\ h.open /\ h.calls = host[l].calls /\ h.pending = <<>>
  <2>1. /\ Closed(host[l]) \in HostType /\ Closed(host[l]).pending = <<>>
        /\ Closed(host[l]).calls = host[l].calls
    BY <1>1, Parts, ClosedIs
  <2> DEFINE c == Closed(host[l])
             d == [c EXCEPT !.open = TRUE]
  <2>2. d \in HostType /\ d.open /\ d.calls = c.calls /\ d.pending = c.pending
    BY <2>1, HostSet DEF HostType
  <2>3. h = [d EXCEPT !.sessions = host[l].sessions + 1]
    BY DEF h
  <2> HIDE DEF c, d, h
  <2>4. host[l].sessions + 1 \in Nat
    BY <1>1, Parts DEF HostType
  <2>5. /\ h \in HostType /\ h.open = d.open
        /\ h.calls = d.calls /\ h.pending = d.pending
    BY <2>2, <2>3, <2>4, HostSet DEF HostType
  <2>6. c = Closed(host[l])
    BY DEF c
  <2> QED BY <2>1, <2>2, <2>5, <2>6
<1>3. host' = [host EXCEPT ![l] = h] /\ UNCHANGED <<bridge, holder, noise, history>>
  BY DEF Open
<1> HIDE DEF h
<1>4. host' \in [Links -> HostType] /\ host'[l] = h /\ \A m \in Links \ {l} : host'[m] = host[m]
  BY <1>1, <1>2, <1>3, Parts
<1>5. fresh \in ConnType
  BY DEF ConnType
<1>6. CASE l \in Streams
  <2> DEFINE s == Append(conns[l], fresh)
  <2>1. conns' = [conns EXCEPT ![l] = s]
    BY <1>6 DEF Open
  <2> HIDE DEF fresh
  <2>2. /\ s \in Seq(ConnType) /\ Len(s) = Len(conns[l]) + 1 /\ s[Len(conns[l]) + 1] = fresh
        /\ Len(conns[l]) \in Nat
        /\ \A k \in 1..Len(conns[l]) : s[k] = conns[l][k]
    BY <1>1, <1>5, Parts
  <2> HIDE DEF s
  <2>3. conns' \in [Links -> Seq(ConnType)] /\ conns'[l] = s
        /\ \A m \in Links \ {l} : conns'[m] = conns[m]
    BY <1>1, <2>1, <2>2, Parts
  <2>4. TypeOK' /\ Alone(l)
    BY <1>1, <1>3, <1>4, <2>3, Retyped, Parts DEF Alone, history, TypeOK
  <2>5. Shaped(l)'
    <3>1. ~host[l].open /\ bridge' = bridge
      BY <1>3 DEF Open
    <3>2. \A k \in 1..Len(conns[l]) : ~s[k].open
      BY <1>1, <2>2, <3>1 DEF Shaped, Conn
    <3> QED BY <1>1, <1>2, <1>4, <1>6, <2>2, <2>3, <3>1, <3>2 DEF Shaped, Serving, Conn, fresh
  <2>6. Requests(l)'
    <3>1. Ups(l)' = Append(Ups(l), <<>>)
      BY <1>1, <2>2, <2>3 DEF Ups, fresh
    <3>2. Requested(Append(Ups(l), <<>>), bridge[l], host[l].calls, executed[l], lost[l])
      BY <1>1, UpsIs, SessionOpens DEF Requests
    <3> QED BY <1>2, <1>3, <1>4, <3>1, <3>2 DEF Requests, history
  <2>7. Answered(l)'
    <3>1. /\ Answers(host'[l].pending, executed'[l]) /\ executed'[l] = executed[l]
      BY <1>2, <1>3, <1>4, NothingAnswered DEF history
    <3>2. ASSUME NEW k \in 1..Len(conns'[l]) PROVE Answers(conns'[l][k].down, executed'[l])
      <4>1. CASE k \in 1..Len(conns[l])
        BY <1>1, <2>2, <2>3, <3>1, <4>1 DEF Answered
      <4>2. CASE k = Len(conns[l]) + 1
        BY <2>2, <2>3, <4>2, NothingAnswered DEF fresh
      <4> QED BY <2>2, <2>3, <4>1, <4>2
    <3> QED BY <3>1, <3>2 DEF Answered
  <2> QED BY <2>4, <2>5, <2>6, <2>7, StepKept
<1>7. CASE l \notin Streams
  <2> DEFINE c == [Conn(l) EXCEPT !.open = TRUE]
  <2>1. conns[l] # <<>> /\ conns' = WithConn(l, c)
    BY <1>1, <1>7 DEF Shaped, Open
  <2>2. c \in ConnType /\ c.up = Conn(l).up /\ c.open /\ c.down = Conn(l).down
    BY <2>1, SameConn DEF ConnType
  <2>3. /\ got' \in [Links -> [want : {0} \cup Calls, had : {0} \cup Calls]]
        /\ UNCHANGED <<bridge, holder, noise, executed, lost, spoiled, kind>>
    BY <1>1, <1>3 DEF TypeOK, history
  <2> HIDE DEF c
  <2> QED BY <1>2, <1>3, <2>1, <2>2, <2>3, SameConn, NothingAnswered, HostActs
<1> QED BY <1>6, <1>7

LEMMA CloseKeeps ==
  ASSUME IInv, NEW l \in Links, Close(l)
  PROVE  IInv'
BY Ending DEF Close

LEMMA UnidentifiedKeeps ==
  ASSUME IInv, NEW l \in Links, Unidentified(l)
  PROVE  IInv'
BY Ending DEF Unidentified, Awaiting

\* What receive has buffered behind the frame it took is a tail of it.
LEMMA BufferedRest ==
  ASSUME IInv, NEW l \in Links, HasFrame(host[l].pending)
  PROVE  /\ Rest(l) \in Seq(Pieces) /\ Answers(Rest(l), executed[l])
         /\ host[l].pending \in Seq(Pieces)
         /\ FrameEnd(host[l].pending) \in 1..Len(host[l].pending)
<1>1. host[l] \in HostType /\ host[l].pending \in Seq(Pieces)
  BY Known, Parts DEF HostType
<1>2. FrameEnd(host[l].pending) \in 1..Len(host[l].pending)
  BY <1>1, FirstEnd
<1>3. Answers(host[l].pending, executed[l])
  BY Known DEF Answered
<1>4. FrameEnd(host[l].pending) + 1 \in Nat \ {0}
  BY <1>1, <1>2
<1> QED BY <1>1, <1>2, <1>3, <1>4, AnswersCut DEF Rest

LEMMA DiscardKeeps ==
  ASSUME IInv, NEW l \in Links, Discard(l)
  PROVE  IInv'
<1> DEFINE h == [host[l] EXCEPT !.pending = Rest(l)]
<1>1. TypeOK /\ Shaped(l) /\ conns[l] # <<>> /\ host[l] \in HostType
  BY Known, Parts DEF Shaped, Discard, Awaiting
<1>2. Rest(l) \in Seq(Pieces) /\ Answers(Rest(l), executed[l])
  BY BufferedRest DEF Discard
<1>3. h \in HostType
  BY <1>1, <1>2, HostSet
<1>4. h.calls = host[l].calls /\ h.open = host[l].open /\ h.pending = Rest(l)
  BY <1>1 DEF HostType
<1>5. host' = [host EXCEPT ![l] = h] /\ conns' = WithConn(l, Conn(l))
  BY <1>1, SameConn DEF Discard
<1>6. /\ got' \in [Links -> [want : {0} \cup Calls, had : {0} \cup Calls]]
      /\ UNCHANGED <<bridge, holder, noise, executed, lost, spoiled, kind>>
  BY <1>1 DEF TypeOK, history, Discard
<1> HIDE DEF h
<1> QED BY <1>1, <1>2, <1>3, <1>4, <1>5, <1>6, SameConn, HostActs

\* The reply returned is to a request that was carried out.
LEMMA ReplyIs ==
  ASSUME IInv, NEW l \in Links, Awaiting(l), HasFrame(host[l].pending), Mine(l)
  PROVE  /\ Reply(l) \in Messages /\ Reply(l).id \in executed[l] /\ Reply(l).id \in Calls
         /\ Head(host[l].inflight) \in Messages /\ Tail(host[l].inflight) \in Seq(Messages)
<1>1. TypeOK /\ host[l] \in HostType /\ Answers(host[l].pending, executed[l])
  BY Known, Parts DEF Answered
<1>2. host[l].inflight \in Seq(Messages) /\ host[l].inflight # <<>>
  BY <1>1 DEF HostType, Awaiting
<1> DEFINE s == host[l].pending
           n == FrameEnd(s)
<1>3. s \in Seq(Pieces) /\ n \in 1..Len(s)
  BY BufferedRest
<1> HIDE DEF s, n
<1>4. /\ Len(SubSeq(s, 1, n)) = n
      /\ \A i \in 1..n : SubSeq(s, 1, n)[i] = s[i] /\ s[i] \in Pieces
  BY <1>3
<1>5. NextFrame(l) = SubSeq(s, 1, n)
  BY DEF NextFrame, s, n
<1>6. /\ n = 2 /\ s[1].part = "first" /\ s[2].part = "final" /\ s[1].of = s[2].of
      /\ Reply(l) = s[2].of
  <2>1. Decodes(NextFrame(l)) /\ Reply(l) = NextFrame(l)[1].of
    BY DEF Mine, Reply
  <2>2. n = 2
    BY <1>3, <1>4, <1>5, <2>1 DEF Decodes
  <2>3. NextFrame(l)[1] = s[1] /\ NextFrame(l)[2] = s[2]
    BY <1>4, <1>5, <2>2
  <2> QED BY <2>1, <2>2, <2>3 DEF Decodes
<1>7. Reply(l) \in Messages /\ Reply(l).id \in executed[l]
  BY <1>1, <1>3, <1>4, <1>6, MessageParts DEF Answers, s
<1>8. Reply(l).id \in Calls
  BY <1>7 DEF Messages
<1> QED BY <1>2, <1>7, <1>8

LEMMA ReceiveKeeps ==
  ASSUME IInv, NEW l \in Links, Receive(l)
  PROVE  IInv'
<1> DEFINE a == [host[l] EXCEPT !.pending = Rest(l)]
           b == [a EXCEPT !.inflight = Tail(host[l].inflight)]
           h == [b EXCEPT !.stage = NextStage(host[l].stage)]
<1>1. TypeOK /\ Shaped(l) /\ conns[l] # <<>> /\ host[l] \in HostType
  BY Known, Parts DEF Shaped, Receive, Awaiting
<1>2. /\ Rest(l) \in Seq(Pieces) /\ Answers(Rest(l), executed[l])
      /\ Reply(l).id \in Calls /\ Head(host[l].inflight) \in Messages
      /\ Tail(host[l].inflight) \in Seq(Messages)
  BY BufferedRest, ReplyIs DEF Receive
<1>3. NextStage(host[l].stage) \in Stages
  BY DEF NextStage, Stages
<1>4. a \in HostType /\ a.calls = host[l].calls /\ a.open = host[l].open /\ a.pending = Rest(l)
  <2>1. a \in HostType
    BY <1>1, <1>2, HostSet
  <2> QED BY <1>1, <2>1 DEF HostType
<1> HIDE DEF a
<1>5. b \in HostType /\ b.calls = a.calls /\ b.open = a.open /\ b.pending = a.pending
  <2>1. b \in HostType
    BY <1>2, <1>4, HostSet
  <2> QED BY <1>4, <2>1 DEF HostType
<1> HIDE DEF b
<1>6. h \in HostType /\ h.calls = b.calls /\ h.open = b.open /\ h.pending = b.pending
  <2>1. h \in HostType
    BY <1>3, <1>5, HostSet
  <2> QED BY <1>5, <2>1 DEF HostType
<1> HIDE DEF h
<1>7. host' = [host EXCEPT ![l] = h] /\ conns' = WithConn(l, Conn(l))
  BY <1>1, SameConn DEF Receive, h, a, b
<1>8. /\ got' \in [Links -> [want : {0} \cup Calls, had : {0} \cup Calls]]
      /\ UNCHANGED <<bridge, holder, noise, executed, lost, spoiled, kind>>
  <2>1. Head(host[l].inflight).id \in Calls
    BY <1>2 DEF Messages
  <2> QED BY <1>1, <1>2, <2>1 DEF TypeOK, Receive, Returned
<1> QED BY <1>1, <1>2, <1>4, <1>5, <1>6, <1>7, <1>8, SameConn, HostActs

LEMMA ReadKeeps ==
  ASSUME IInv, NEW l \in Links, Read(l)
  PROVE  IInv'
<1>1. TypeOK /\ Shaped(l) /\ conns[l] # <<>> /\ host[l] \in HostType
      /\ Answers(host[l].pending, executed[l])
  BY Known, Parts DEF Shaped, Read, Answered
<1>2. /\ Conn(l) \in ConnType /\ Answers(Conn(l).down, executed[l])
      /\ host[l].open <=> Conn(l).open
  BY <1>1, SameConn
<1>3. Conn(l).down \in Seq(Pieces) /\ host[l].pending \in Seq(Pieces)
  BY <1>1, <1>2 DEF ConnType, HostType
<1>4. PICK n \in 1..Shortest(ReadChunk, Len(Conn(l).down)) :
        LET joined == host[l].pending \o SubSeq(Conn(l).down, 1, n) IN
        /\ host' = [host EXCEPT ![l].pending =
                     IF Len(joined) > PendingLimit THEN <<>> ELSE joined]
        /\ conns' = WithConn(l, [Conn(l) EXCEPT !.down = From(@, n + 1)])
  BY DEF Read
<1> DEFINE joined == host[l].pending \o SubSeq(Conn(l).down, 1, n)
           p == IF Len(joined) > PendingLimit THEN <<>> ELSE joined
           h == [host[l] EXCEPT !.pending = p]
           c == [Conn(l) EXCEPT !.down = From(Conn(l).down, n + 1)]
<1>5. n \in 1..Len(Conn(l).down)
  <2>1. Len(Conn(l).down) \in Nat /\ ReadChunk \in Nat
    <3>1. Len(Conn(l).down) \in Nat
      BY <1>3
    <3> QED BY <3>1, Numbers
  <2>2. Shortest(ReadChunk, Len(Conn(l).down)) <= Len(Conn(l).down)
        /\ Shortest(ReadChunk, Len(Conn(l).down)) \in Nat
    BY <2>1 DEF Shortest
  <2> QED BY <2>1, <2>2
<1>6. p \in Seq(Pieces) /\ Answers(p, executed[l])
  <2> DEFINE t == SubSeq(Conn(l).down, 1, n)
  <2>1. t \in Seq(Pieces) /\ Len(t) = n /\ \A i \in 1..n : t[i] = Conn(l).down[i]
    BY <1>3, <1>5
  <2>2. Answers(t, executed[l])
    BY <1>2, <1>3, <1>5, <2>1 DEF Answers
  <2> HIDE DEF t
  <2>3. host[l].pending \o t \in Seq(Pieces) /\ Answers(host[l].pending \o t, executed[l])
    BY <1>1, <1>3, <2>1, <2>2, AnswersJoined
  <2>5. joined = host[l].pending \o t
    BY DEF t
  <2> HIDE DEF joined
  <2> QED BY <2>3, <2>5, NothingAnswered
<1> HIDE DEF p, joined
<1>7. /\ From(Conn(l).down, n + 1) \in Seq(Pieces)
      /\ Answers(From(Conn(l).down, n + 1), executed[l])
  BY <1>2, <1>3, <1>5, AnswersCut
<1>8. h \in HostType /\ h.calls = host[l].calls /\ h.open = host[l].open /\ h.pending = p
  <2>1. h \in HostType
    BY <1>1, <1>6, HostSet
  <2> QED BY <1>1, <2>1 DEF HostType
<1>9. c \in ConnType /\ c.up = Conn(l).up /\ c.open = Conn(l).open
      /\ c.down = From(Conn(l).down, n + 1)
  BY <1>2, <1>7 DEF ConnType
<1>10. host' = [host EXCEPT ![l] = h] /\ conns' = WithConn(l, c)
  BY <1>1, <1>4 DEF p, joined
<1> HIDE DEF h, c
<1>11. /\ got' \in [Links -> [want : {0} \cup Calls, had : {0} \cup Calls]]
       /\ UNCHANGED <<bridge, holder, noise, executed, lost, spoiled, kind>>
  BY <1>1 DEF TypeOK, history, Read
<1> QED BY <1>1, <1>2, <1>6, <1>7, <1>8, <1>9, <1>10, <1>11, HostActs

LEMMA TimeoutKeeps ==
  ASSUME IInv, NEW l \in Links, Timeout(l)
  PROVE  IInv'
<1> DEFINE h == [host[l] EXCEPT !.inflight = <<>>]
<1>1. TypeOK /\ Shaped(l) /\ conns[l] # <<>> /\ host[l] \in HostType
      /\ Answers(host[l].pending, executed[l])
  BY Known, Parts DEF Shaped, Timeout, Answered
<1>2. h \in HostType /\ h.calls = host[l].calls /\ h.open = host[l].open
      /\ h.pending = host[l].pending
  <2>1. <<>> \in Seq(Messages)
    OBVIOUS
  <2>2. h \in HostType
    BY <1>1, <2>1, HostSet
  <2> QED BY <1>1, <2>2 DEF HostType
<1>3. host' = [host EXCEPT ![l] = h] /\ conns' = WithConn(l, Conn(l))
  BY <1>1, SameConn DEF Timeout
<1>4. /\ got' \in [Links -> [want : {0} \cup Calls, had : {0} \cup Calls]]
      /\ UNCHANGED <<bridge, holder, noise, executed, lost, spoiled, kind>>
  BY <1>1 DEF TypeOK, history, Timeout
<1> HIDE DEF h
<1> QED BY <1>1, <1>2, <1>3, <1>4, SameConn, HostActs

\* A request written to the last connection, w = 3 or in part: `w = 3' tells.
Wrote(m, w) == SubSeq(Framed(m), 1, w)

LEMMA WroteIs ==
  ASSUME NEW m \in Messages, NEW w \in {2, 3}
  PROVE  /\ Wrote(m, w) \in Seq(Pieces) /\ Len(Wrote(m, w)) = w
         /\ Wrote(m, w)[1] = Gap /\ Wrote(m, w)[2] = First(m)
         /\ w = 3 => Wrote(m, w)[3] = Final(m)
<1>1. Gap \in Pieces /\ First(m) \in Pieces /\ Final(m) \in Pieces
  BY MessageParts
<1> DEFINE f == <<Gap, First(m), Final(m)>>
<1>2. f \in Seq(Pieces) /\ Len(f) = 3 /\ f[1] = Gap /\ f[2] = First(m) /\ f[3] = Final(m)
  BY <1>1
<1>3. Wrote(m, w) = SubSeq(f, 1, w)
  BY DEF Wrote, Framed
<1> HIDE DEF f
<1>4. CASE w = 2
  <2>1. SubSeq(f, 1, 2) \in Seq(Pieces) /\ Len(SubSeq(f, 1, 2)) = 2
        /\ SubSeq(f, 1, 2)[1] = f[1] /\ SubSeq(f, 1, 2)[2] = f[2]
    BY <1>2
  <2> QED BY <1>2, <1>3, <1>4, <2>1
<1>5. CASE w = 3
  <2>1. SubSeq(f, 1, 3) \in Seq(Pieces) /\ Len(SubSeq(f, 1, 3)) = 3
        /\ SubSeq(f, 1, 3)[1] = f[1] /\ SubSeq(f, 1, 3)[2] = f[2] /\ SubSeq(f, 1, 3)[3] = f[3]
    BY <1>2
  <2> QED BY <1>2, <1>3, <1>5, <2>1
<1> QED BY <1>4, <1>5

LEMMA RequestWritten ==
  ASSUME NEW u \in Seq(Seq(Pieces)), NEW n \in Nat \ {0}, n = Len(u), NEW b \in BridgeType,
         NEW calls \in Nat, NEW done, NEW gone, Requested(u, b, calls, done, gone),
         NEW m \in Messages, NEW w \in {2, 3}, m.id = calls + 1
  PROVE  Requested([u EXCEPT ![n] = @ \o Wrote(m, w)], b, calls + 1, done,
                   IF w = 3 THEN gone ELSE gone \cup {m.id})
<1> DEFINE v == [u EXCEPT ![n] = u[n] \o Wrote(m, w)]
           z == Len(u[n])
           lose == IF w = 3 THEN gone ELSE gone \cup {m.id}
<1>1. u[n] \in Seq(Pieces) /\ \A k \in 1..n : Len(u[k]) \in Nat
  OBVIOUS
<1>2. /\ z \in Nat
      /\ Len(u[n] \o Wrote(m, w)) = z + w
      /\ \A i \in 1..z : (u[n] \o Wrote(m, w))[i] = u[n][i]
      /\ (u[n] \o Wrote(m, w))[z + 1] = Gap /\ (u[n] \o Wrote(m, w))[z + 2] = First(m)
      /\ w = 3 => (u[n] \o Wrote(m, w))[z + 3] = Final(m)
  <2> DEFINE x == Wrote(m, w)
             y == u[n]
  <2>1. /\ x \in Seq(Pieces) /\ Len(x) = w /\ x[1] = Gap /\ x[2] = First(m)
        /\ w = 3 => x[3] = Final(m)
    BY WroteIs
  <2>2. y \in Seq(Pieces) /\ z = Len(y)
    BY <1>1
  <2> HIDE DEF x, y, z
  <2>3. /\ Len(y) \in Nat /\ Len(y \o x) = Len(y) + Len(x)
        /\ \A i \in 1..Len(y) : (y \o x)[i] = y[i]
        /\ \A i \in 1..Len(x) : (y \o x)[Len(y) + i] = x[i]
    BY <2>1, <2>2
  <2>4. /\ z \in Nat /\ Len(y \o x) = z + w
        /\ \A i \in 1..z : (y \o x)[i] = y[i]
        /\ (y \o x)[z + 1] = Gap /\ (y \o x)[z + 2] = First(m)
        /\ w = 3 => (y \o x)[z + 3] = Final(m)
    BY <2>1, <2>2, <2>3
  <2> QED BY <2>4 DEF x, y
<1>3. Len(v) = n /\ v[n] = u[n] \o Wrote(m, w) /\ \A k \in 1..n : k # n => v[k] = u[k]
  OBVIOUS
<1> HIDE DEF v, z
<1>4. Gap.part = "gap" /\ First(m).part = "first" /\ Final(m).part = "final" /\ Final(m).of = m
  BY DEF Gap, First, Final
<1>5. /\ Len(v[n]) = z + w
      /\ \A i \in 1..z : v[n][i] = u[n][i]
      /\ v[n][z + 1] = Gap /\ v[n][z + 2] = First(m)
      /\ w = 3 => v[n][z + 3] = Final(m)
      /\ z = Len(u[n]) /\ z \in Nat
  BY <1>2, <1>3 DEF z
<1>6. \A k \in 1..n : \A i \in 1..Len(u[k]) : i \in 1..Len(v[k]) /\ v[k][i] = u[k][i]
  <2> SUFFICES ASSUME NEW k \in 1..n, NEW i \in 1..Len(u[k])
               PROVE  i \in 1..Len(v[k]) /\ v[k][i] = u[k][i]
    OBVIOUS
  <2>1. CASE k = n
    BY <1>5, <2>1
  <2>2. CASE k # n
    BY <1>3, <2>2
  <2> QED BY <2>1, <2>2
\* A frame's end is one of before, or the new one.
<1>7. ASSUME NEW k \in 1..n, NEW i \in 1..Len(v[k]), v[k][i].part = "final"
      PROVE  \/ i \in 1..Len(u[k]) /\ v[k][i] = u[k][i]
             \/ k = n /\ i = z + 3 /\ w = 3 /\ v[k][i] = Final(m)
  <2>1. CASE k = n /\ i \in 1..z
    BY <1>5, <2>1
  <2>2. CASE k = n /\ i \notin 1..z
    <3>1. i = z + 1 \/ i = z + 2 \/ (i = z + 3 /\ w = 3)
      <4>1. i \in 1..(z + w)
        BY <1>5, <2>2
      <4>2. z \in Nat /\ (w = 2 \/ w = 3) /\ i \notin 1..z
        BY <1>5, <2>2
      <4> QED BY <4>1, <4>2
    <3> QED BY <1>4, <1>5, <1>7, <2>2, <3>1
  <2>3. CASE k # n
    BY <1>3, <2>3
  <2> QED BY <2>1, <2>2, <2>3
<1>8. /\ \A c \in done \cup gone : c \in 1..calls
      /\ b.phase # "reading" => b.doing.id \in 1..calls
  BY DEF Requested, Past, AtHand, Asked, BridgeType
<1>9. Built(v, b)
  <2> SUFFICES ASSUME NEW k \in 1..n, NEW i \in 1..Len(v[k]) PROVE FrameAt(v, b, k, i)
    BY <1>3 DEF Built
  <2>1. CASE i \in 1..Len(u[k])
    <3>1. FrameAt(u, b, k, i)
      BY <2>1 DEF Requested, Built
    <3>2. \A j \in 1..i : v[k][j] = u[k][j]
      BY <1>1, <1>6, <2>1
    <3>3. i \in Nat \ {0}
      BY <2>1
    <3> QED BY <3>1, <3>2, <3>3, FrameSame
  <2>2. CASE i \notin 1..Len(u[k])
    <3>1. k = n /\ (i = z + 1 \/ i = z + 2 \/ (i = z + 3 /\ w = 3))
      <4>1. k = n
        BY <1>3, <2>2
      <4>2. i \in 1..(z + w) /\ i \notin 1..z
        BY <1>5, <2>2, <4>1
      <4>3. z \in Nat /\ (w = 2 \/ w = 3)
        BY <1>5
      <4> HIDE DEF z
      <4> QED BY <4>1, <4>2, <4>3
    <3>2. CASE i = z + 3 /\ w = 3
      <4>1. v[k][i] = Final(m) /\ v[k][z + 2] = First(m) /\ v[k][z + 1] = Gap
        BY <1>5, <3>1, <3>2
      <4>2. z \in Nat
        BY <1>5
      <4>3. i - 1 = z + 2 /\ i - 2 = z + 1 /\ i >= 3
        BY <3>2, <4>2
      <4>4. /\ v[k][i].part = "final" /\ v[k][i].of = m
            /\ v[k][i - 1] = First(m) /\ v[k][i - 2] = Gap
        BY <1>4, <4>1, <4>3
      <4> QED BY <4>3, <4>4 DEF FrameAt
    <3>3. CASE i = z + 1 \/ i = z + 2
      <4>1. v[k][i] = Gap \/ v[k][i] = First(m)
        BY <1>5, <3>1, <3>3
      <4>2. v[k][i].part # "final" /\ v[k][i].part # "text"
        BY <1>4, <4>1
      <4> QED BY <4>2 DEF FrameAt
    <3> QED BY <3>1, <3>2, <3>3
  <2> QED BY <2>1, <2>2
<1>10. Later(v, b, calls + 1, done, lose)
  <2> SUFFICES ASSUME NEW k \in 1..n, NEW i \in 1..Len(v[k]), v[k][i].part = "final"
               PROVE  LaterThan(v[k][i].of.id, b, calls + 1, done, lose)
    BY <1>3 DEF Later
  <2>1. CASE i \in 1..Len(u[k]) /\ v[k][i] = u[k][i]
    <3>1. LaterThan(u[k][i].of.id, b, calls, done, gone)
      BY <2>1 DEF Requested, Later
    <3> QED BY <2>1, <3>1 DEF LaterThan
  <2>2. CASE w = 3 /\ v[k][i] = Final(m)
    <3>1. v[k][i].of.id = calls + 1 /\ lose = gone
      BY <1>4, <2>2
    <3> QED BY <1>8, <3>1 DEF LaterThan
  <2> QED BY <1>7, <2>1, <2>2
<1>11. Ordered(v)
  <2> SUFFICES ASSUME NEW k \in 1..n, NEW j \in 1..n,
                      NEW i \in 1..Len(v[k]), NEW h \in 1..Len(v[j]),
                      v[k][i].part = "final", v[j][h].part = "final",
                      k < j \/ (k = j /\ i < h)
               PROVE  v[k][i].of.id < v[j][h].of.id
    BY <1>3 DEF Ordered
  <2>1. i \in 1..Len(u[k]) /\ v[k][i] = u[k][i]
    <3>1. CASE k = n /\ i = z + 3
      <4>1. j = n /\ h > z + 3
        BY <3>1
      <4>2. Len(v[j]) = z + w /\ z \in Nat
        BY <1>5, <4>1
      <4>3. h \in 1..(z + w) /\ w <= 3
        BY <4>2
      <4> QED BY <4>1, <4>2, <4>3
    <3> QED BY <1>7, <3>1
  <2>2. CASE h \in 1..Len(u[j]) /\ v[j][h] = u[j][h]
    BY <2>1, <2>2 DEF Requested, Ordered
  <2>3. CASE v[j][h] = Final(m)
    <3>1. u[k][i].of.id \in 1..calls
      BY <2>1 DEF Requested, Later, LaterThan
    <3>2. v[j][h].of.id = calls + 1
      BY <1>4, <2>3
    <3> DEFINE a == v[k][i].of.id
    <3>3. a \in 1..calls
      BY <2>1, <3>1
    <3> HIDE DEF a
    <3>4. a < calls + 1
      BY <3>3
    <3> QED BY <3>2, <3>4 DEF a
  <2> QED BY <1>7, <2>2, <2>3
<1>12. AtHand(b, calls + 1, done, lose)
  BY <1>8 DEF Requested, AtHand
<1>13. Past(calls + 1, done, lose)
  BY <1>8 DEF Requested, Past
<1>14. Accounted(v, b, calls + 1, done, lose)
  <2> SUFFICES ASSUME NEW c \in 1..(calls + 1)
               PROVE  c \in done \cup lose \/ (Asked(b) /\ b.doing.id = c) \/ OnItsWay(v, c)
    BY DEF Accounted
  <2>1. CASE c \in 1..calls
    <3>1. c \in done \cup gone \/ (Asked(b) /\ b.doing.id = c) \/ OnItsWay(u, c)
      BY <2>1 DEF Requested, Accounted
    <3>2. ASSUME OnItsWay(u, c) PROVE OnItsWay(v, c)
      <4>0. PICK k \in 1..n : \E i \in 1..Len(u[k]) : u[k][i].part = "final" /\ u[k][i].of.id = c
        BY <3>2 DEF OnItsWay
      <4>1. PICK i \in 1..Len(u[k]) : u[k][i].part = "final" /\ u[k][i].of.id = c
        BY <4>0
      <4>2. i \in 1..Len(v[k]) /\ v[k][i] = u[k][i] /\ k \in 1..Len(v)
        BY <1>3, <1>6
      <4> QED BY <4>1, <4>2 DEF OnItsWay
    <3> QED BY <3>1, <3>2
  <2>2. CASE c = m.id /\ w = 3
    <3>1. n \in 1..Len(v)
      BY <1>3
    <3>2. z + 3 \in 1..Len(v[n])
      BY <1>5, <2>2
    <3>3. v[n][z + 3] = Final(m)
      BY <1>5, <2>2
    <3> QED BY <1>4, <2>2, <3>1, <3>2, <3>3 DEF OnItsWay
  <2>3. CASE c = m.id /\ w = 2
    BY <2>3
  <2> QED BY <2>1, <2>2, <2>3
<1> HIDE DEF lose
<1>15. Requested(v, b, calls + 1, done, lose)
  BY <1>9, <1>10, <1>11, <1>12, <1>13, <1>14 DEF Requested
<1> QED BY <1>15 DEF v, lose


\* The message of the next request.
LEMMA NextRequestIs ==
  ASSUME IInv, NEW l \in Links, MaySend(l)
  PROVE  /\ NextRequest(l) \in Messages /\ NextRequest(l).id = host[l].calls + 1
         /\ NextRequest(l).id \in Calls /\ NextRequest(l).seq \in 0..(SeqModulus - 1)
         /\ NextRequest(l).cmd = host[l].stage /\ host[l].stage \in Stages
         /\ host[l].calls \in Nat
<1>1. host[l] \in HostType
  BY Known, Parts
<1>2. host[l].calls \in {0} \cup Calls /\ host[l].stage \in Stages /\ host[l].sequence \in Nat
  <2>1. host[l].sequence \in 0..(SeqModulus - 1)
    BY <1>1 DEF HostType
  <2> QED BY <1>1, <2>1 DEF HostType
<1>3. host[l].calls \in Nat
  BY <1>2, Numbers
<1>4. host[l].calls + 1 \in Calls
  <2>1. host[l].calls < MaxCalls[l] /\ MaxCalls[l] \in Nat
    BY Numbers DEF MaySend
  <2>2. host[l].calls + 1 \in 1..MaxCalls[l]
    BY <1>3, <2>1
  <2> QED BY <2>2, Numbers
<1>5. (host[l].sequence + 1) % SeqModulus \in 0..(SeqModulus - 1)
  <2>1. host[l].sequence + 1 \in Nat
    BY <1>2
  <2> QED BY <2>1, Numbers
<1> QED BY <1>2, <1>3, <1>4, <1>5 DEF NextRequest, Messages

\* A request is written to the last connection, by a session that goes on or
\* that ends.
LEMMA Writing ==
  ASSUME IInv, NEW l \in Links, conns[l] # <<>>, MaySend(l), NEW w \in {2, 3},
         NEW h \in HostType, host' = [host EXCEPT ![l] = h],
         h.calls = NextRequest(l).id, h.open <=> w = 3,
         Answers(h.pending, executed[l]),
         NEW c \in ConnType, conns' = WithConn(l, c),
         c.up = Conn(l).up \o Wrote(NextRequest(l), w),
         c.open <=> w = 3, Answers(c.down, executed[l]),
         kind' = [kind EXCEPT ![l][NextRequest(l).id] = NextRequest(l).cmd],
         lost' = IF w = 3 THEN lost ELSE [lost EXCEPT ![l] = @ \cup {NextRequest(l).id}],
         UNCHANGED <<bridge, holder, noise, executed, spoiled, got>>
  PROVE  IInv'
<1>1. TypeOK /\ Shapes /\ Shaped(l) /\ Requests(l) /\ Answered(l)
  BY Known
<1>2. host' \in [Links -> HostType] /\ host'[l] = h /\ \A m \in Links \ {l} : host'[m] = host[m]
  BY <1>1, Parts
<1>3. /\ conns' \in [Links -> Seq(ConnType)] /\ Len(conns[l]) \in Nat \ {0}
      /\ Len(conns'[l]) = Len(conns[l]) /\ conns'[l][Len(conns[l])] = c
      /\ \A k \in 1..(Len(conns[l]) - 1) : conns'[l][k] = conns[l][k]
      /\ \A m \in Links \ {l} : conns'[m] = conns[m]
  BY <1>1, LastConn
<1> DEFINE q == NextRequest(l)
<1>4. /\ q \in Messages /\ q.id = host[l].calls + 1 /\ q.id \in Calls /\ q.cmd \in Stages
      /\ host[l].calls \in Nat
  BY NextRequestIs
<1> HIDE DEF q
<1>5. /\ lost' \in [Links -> SUBSET Calls]
      /\ lost'[l] = IF w = 3 THEN lost[l] ELSE lost[l] \cup {q.id}
      /\ \A m \in Links \ {l} : lost'[m] = lost[m]
  <2>1. lost \in [Links -> SUBSET Calls]
    BY <1>1 DEF TypeOK
  <2>2. lost' = IF w = 3 THEN lost ELSE [lost EXCEPT ![l] = @ \cup {q.id}]
    BY DEF q
  <2>3. CASE w = 3
    BY <2>1, <2>2, <2>3
  <2>4. CASE w = 2
    BY <1>4, <2>1, <2>2, <2>4
  <2> QED BY <2>3, <2>4
<1>6. kind' \in [Links -> [Calls -> Stages \cup {"none"}]]
  <2>1. kind' = [kind EXCEPT ![l][q.id] = q.cmd] /\ kind \in [Links -> [Calls -> Stages \cup {"none"}]]
    BY <1>1 DEF q, TypeOK
  <2>2. [kind[l] EXCEPT ![q.id] = q.cmd] \in [Calls -> Stages \cup {"none"}]
    BY <1>4, <2>1
  <2> QED BY <2>1, <2>2
<1>7. TypeOK'
  BY <1>1, <1>2, <1>3, <1>5, <1>6, Parts DEF TypeOK, HostType, ConnType, BridgeType
<1>8. Alone(l)
  BY <1>2, <1>3, <1>5 DEF Alone
<1>9. Shaped(l)'
  <2>1. Conn(l)' = c
    BY <1>3 DEF Conn
  <2>2. conns'[l] # <<>> /\ bridge' = bridge /\ host'[l].open <=> c.open
    BY <1>2, <1>3
  <2> QED BY <1>1, <1>3, <2>1, <2>2 DEF Shaped, Serving
<1>10. Requests(l)'
  <2> DEFINE n == Len(conns[l])
             u == Ups(l)
             v == [u EXCEPT ![n] = u[n] \o Wrote(q, w)]
  <2>1. u \in Seq(Seq(Pieces)) /\ Len(u) = n /\ \A k \in 1..n : u[k] = conns[l][k].up
    BY <1>1, UpsIs
  <2>2. Ups(l)' = v
    <3>1. conns'[l][n].up = u[n] \o Wrote(q, w)
      <4>1. n \in 1..n /\ conns'[l][n] = c
        BY <1>3
      <4>2. u[n] = Conn(l).up
        BY <2>1, <4>1 DEF Conn
      <4>3. c.up = Conn(l).up \o Wrote(q, w)
        BY DEF q
      <4> QED BY <4>1, <4>2, <4>3
    <3>2. \A k \in 1..n : k # n => conns'[l][k].up = u[k]
      <4>1. \A k \in 1..n : k # n => k \in 1..(n - 1)
        BY <1>3
      <4> QED BY <1>3, <2>1, <4>1
    <3>3. Ups(l)' = [k \in 1..n |-> conns'[l][k].up]
      BY <1>3 DEF Ups
    <3> HIDE DEF u, n
    <3>4. v = [k \in 1..n |-> IF k = n THEN u[n] \o Wrote(q, w) ELSE u[k]]
      <4>1. DOMAIN u = 1..n
        BY <2>1
      <4> QED BY <4>1
    <3>5. \A k \in 1..n : conns'[l][k].up = IF k = n THEN u[n] \o Wrote(q, w) ELSE u[k]
      BY <3>1, <3>2
    <3> HIDE DEF v
    <3> QED BY <3>3, <3>4, <3>5
  <2>3. Requested(v, bridge[l], host[l].calls + 1, executed[l],
                  IF w = 3 THEN lost[l] ELSE lost[l] \cup {q.id})
    <3>1. Requested(u, bridge[l], host[l].calls, executed[l], lost[l])
      BY <1>1 DEF Requests
    <3>2. bridge[l] \in BridgeType /\ n \in Nat \ {0}
      BY <1>1, <1>3, Parts
    <3> HIDE DEF u, n
    <3> QED BY <1>4, <2>1, <3>1, <3>2, RequestWritten
  <2> HIDE DEF u, n, v
  <2>4. h.calls = host[l].calls + 1
    BY <1>4 DEF q
  <2>5. bridge'[l] = bridge[l] /\ executed'[l] = executed[l]
    OBVIOUS
  <2> QED BY <1>2, <1>5, <2>2, <2>3, <2>4, <2>5 DEF Requests
<1>11. Answered(l)'
  <2>1. Answers(host'[l].pending, executed'[l])
    BY <1>2
  <2>2. ASSUME NEW k \in 1..Len(conns'[l]) PROVE Answers(conns'[l][k].down, executed'[l])
    <3>1. CASE k = Len(conns[l])
      BY <1>3, <3>1
    <3>2. CASE k \in 1..(Len(conns[l]) - 1)
      BY <1>1, <1>3, <3>2 DEF Answered
    <3> QED BY <1>3, <3>1, <3>2
  <2> QED BY <2>1, <2>2 DEF Answered
<1> QED BY <1>7, <1>8, <1>9, <1>10, <1>11, StepKept

LEMMA SendKeeps ==
  ASSUME IInv, NEW l \in Links, Send(l)
  PROVE  IInv'
<1> DEFINE q == NextRequest(l)
           a == [host[l] EXCEPT !.sequence = q.seq]
           b == [a EXCEPT !.calls = q.id]
           h == [b EXCEPT !.inflight = Append(host[l].inflight, q)]
           c == [Conn(l) EXCEPT !.up = Conn(l).up \o Wrote(q, 3)]
<1>1. /\ TypeOK /\ Shaped(l) /\ conns[l] # <<>> /\ host[l] \in HostType /\ host[l].open
      /\ Answers(host[l].pending, executed[l]) /\ host[l].inflight \in Seq(Messages)
  BY Known, Parts DEF Shaped, Send, MaySend, Answered, HostType
<1>2. /\ q \in Messages /\ q.id \in Calls /\ q.seq \in 0..(SeqModulus - 1)
  BY NextRequestIs DEF Send
<1>3. Wrote(q, 3) = Framed(q) /\ Wrote(q, 3) \in Seq(Pieces)
  <2>1. Len(Framed(q)) = 3 /\ Framed(q) \in Seq(Pieces)
    BY <1>2, MessageParts DEF Framed
  <2>2. SubSeq(Framed(q), 1, 3) = Framed(q)
    BY <2>1
  <2> QED BY <2>1, <2>2 DEF Wrote
<1>4. /\ Conn(l) \in ConnType /\ Answers(Conn(l).down, executed[l])
      /\ host[l].open <=> Conn(l).open
  BY <1>1, SameConn
<1>5. MaySend(l) /\ host' = [host EXCEPT ![l] = h] /\ conns' = WithConn(l, c)
  BY <1>1, <1>3 DEF Send
<1>6. kind' = [kind EXCEPT ![l][q.id] = q.cmd] /\ lost' = lost
      /\ UNCHANGED <<bridge, holder, noise, executed, spoiled, got>>
  BY DEF Send
<1> HIDE DEF q
<1>7. /\ a \in HostType /\ a.open = host[l].open /\ a.pending = host[l].pending
  <2>1. a \in HostType
    BY <1>1, <1>2, HostSet
  <2> QED BY <1>1, <2>1 DEF HostType
<1> HIDE DEF a
<1>8. /\ b \in HostType /\ b.open = a.open /\ b.pending = a.pending /\ b.calls = q.id
  <2>1. q.id \in {0} \cup Calls
    BY <1>2
  <2>2. b \in HostType
    BY <1>7, <2>1, HostSet
  <2> QED BY <1>7, <2>2 DEF HostType
<1> HIDE DEF b
<1>9. h \in HostType /\ h.open = b.open /\ h.pending = b.pending /\ h.calls = b.calls
  <2>1. Append(host[l].inflight, q) \in Seq(Messages)
    BY <1>1, <1>2
  <2>2. h \in HostType
    BY <1>8, <2>1, HostSet
  <2> QED BY <1>8, <2>2 DEF HostType
<1> HIDE DEF h
<1>10. c \in ConnType /\ c.up = Conn(l).up \o Wrote(q, 3) /\ c.open = Conn(l).open
       /\ c.down = Conn(l).down
  <2>1. Conn(l).up \o Wrote(q, 3) \in Seq(Pieces)
    BY <1>3, <1>4 DEF ConnType
  <2> QED BY <1>4, <2>1 DEF ConnType
<1> HIDE DEF c
<1>11. /\ h.calls = NextRequest(l).id /\ c.up = Conn(l).up \o Wrote(NextRequest(l), 3)
       /\ kind' = [kind EXCEPT ![l][NextRequest(l).id] = NextRequest(l).cmd]
       /\ h.open <=> 3 = 3
       /\ c.open <=> 3 = 3
       /\ Answers(h.pending, executed[l]) /\ Answers(c.down, executed[l])
  BY <1>1, <1>4, <1>6, <1>7, <1>8, <1>9, <1>10 DEF q
<1> QED BY <1>1, <1>5, <1>6, <1>9, <1>10, <1>11, Writing

\* What the host leaves that dies between the two halves of its write.
LEMMA HalfWritten ==
  ASSUME IInv, NEW l \in Links, conns[l] # <<>>, DieSending(l)
  PROVE  \E c \in ConnType :
           /\ conns' = WithConn(l, c) /\ ~c.open
           /\ c.up = Conn(l).up \o Wrote(NextRequest(l), 2)
           /\ c.down = <<>> \/ \E n \in 1..(Len(Conn(l).down) + 1) : c.down = From(Conn(l).down, n)
<1> DEFINE q == NextRequest(l)
<1>1. TypeOK /\ Shapes
  BY Known
<1>2. q \in Messages
  BY NextRequestIs DEF DieSending
<1>3. Conn(l) \in ConnType
  BY SameConn
<1>4. PICK e \in HungUp(l) : conns' = [e EXCEPT ![l][Len(e[l])].up = @ \o <<Gap, First(q)>>]
  BY DEF DieSending
<1>5. PICK d \in Seq(Pieces) :
        /\ d = <<>> \/ \E n \in 1..(Len(Conn(l).down) + 1) : d = From(Conn(l).down, n)
        /\ [Conn(l) EXCEPT !.open = FALSE, !.down = d] \in ConnType
        /\ e = WithConn(l, [Conn(l) EXCEPT !.open = FALSE, !.down = d])
  BY <1>1, HangUp
<1> DEFINE g == [Conn(l) EXCEPT !.open = FALSE, !.down = d]
           c == [g EXCEPT !.up = g.up \o Wrote(q, 2)]
<1>6. g \in ConnType /\ g.up = Conn(l).up /\ ~g.open /\ g.down = d
  BY <1>3, <1>5 DEF ConnType
<1>8. Wrote(q, 2) = <<Gap, First(q)>> /\ Wrote(q, 2) \in Seq(Pieces)
  <2>1. /\ Wrote(q, 2) \in Seq(Pieces) /\ Len(Wrote(q, 2)) = 2
        /\ Wrote(q, 2)[1] = Gap /\ Wrote(q, 2)[2] = First(q)
    BY <1>2, WroteIs
  <2> HIDE DEF q
  <2> QED BY <2>1
<1>9. e = WithConn(l, g)
  BY <1>5
<1> HIDE DEF g
<1>10. /\ c \in ConnType /\ c.up = Conn(l).up \o Wrote(q, 2) /\ ~c.open /\ c.down = d
  <2>1. g.up \o Wrote(q, 2) \in Seq(Pieces)
    BY <1>6, <1>8 DEF ConnType
  <2> QED BY <1>6, <2>1 DEF ConnType
<1>11. conns' = WithConn(l, c)
  <2> DEFINE n == Len(conns[l])
             s == conns[l]
  <2>1. n \in Nat \ {0} /\ s \in Seq(ConnType) /\ conns \in [Links -> Seq(ConnType)]
    BY <1>1, Parts, LastConn
  <2>2. e = [conns EXCEPT ![l] = [s EXCEPT ![n] = g]]
    BY <1>9, <2>1 DEF WithConn
  <2>3. Len([s EXCEPT ![n] = g]) = n /\ [s EXCEPT ![n] = g] \in Seq(ConnType)
        /\ [s EXCEPT ![n] = g][n] = g
    BY <1>6, <2>1
  <2> HIDE DEF n, s
  <2>4. e[l] = [s EXCEPT ![n] = g] /\ Len(e[l]) = n /\ e[l][n] = g
    BY <2>1, <2>2, <2>3
  <2>5. conns' = [e EXCEPT ![l] = [e[l] EXCEPT ![n] = [g EXCEPT !.up = g.up \o <<Gap, First(q)>>]]]
    BY <1>4, <2>4
  <2>6. conns' = [conns EXCEPT ![l] = [s EXCEPT ![n] = c]]
    <3>1. [[s EXCEPT ![n] = g] EXCEPT ![n] = c] = [s EXCEPT ![n] = c]
      BY <2>1
    <3>2. [e EXCEPT ![l] = [s EXCEPT ![n] = c]] = [conns EXCEPT ![l] = [s EXCEPT ![n] = c]]
      BY <2>1, <2>2
    <3>3. [g EXCEPT !.up = g.up \o <<Gap, First(q)>>] = c
      BY <1>8
    <3> HIDE DEF c
    <3>4. conns' = [e EXCEPT ![l] = [e[l] EXCEPT ![n] = c]]
      BY <2>5, <3>3
    <3>5. [e[l] EXCEPT ![n] = c] = [s EXCEPT ![n] = c]
      BY <2>4, <3>1
    <3> QED BY <3>2, <3>4, <3>5
  <2> QED BY <2>6 DEF WithConn, n, s
<1> HIDE DEF c, q
<1> QED BY <1>5, <1>10, <1>11 DEF q

LEMMA DieSendingKeeps ==
  ASSUME IInv, NEW l \in Links, DieSending(l)
  PROVE  IInv'
<1> DEFINE q == NextRequest(l)
           a == Closed(host[l])
           h == [a EXCEPT !.calls = q.id]
<1>1. /\ TypeOK /\ Shapes /\ Shaped(l) /\ conns[l] # <<>> /\ host[l] \in HostType
  BY Known, Parts DEF Shaped, DieSending, MaySend
<1>2. /\ q \in Messages /\ q.id \in Calls
  BY NextRequestIs DEF DieSending
<1>3. /\ Conn(l) \in ConnType /\ Answers(Conn(l).down, executed[l])
  BY <1>1, SameConn
<1>4. PICK c \in ConnType :
        /\ conns' = WithConn(l, c) /\ ~c.open /\ c.up = Conn(l).up \o Wrote(q, 2)
        /\ c.down = <<>> \/ \E n \in 1..(Len(Conn(l).down) + 1) : c.down = From(Conn(l).down, n)
  BY <1>1, HalfWritten
<1>5. Answers(c.down, executed[l])
  <2>1. Conn(l).down \in Seq(Pieces) /\ \A n \in 1..(Len(Conn(l).down) + 1) : n \in Nat \ {0}
    BY <1>3 DEF ConnType
  <2>2. \A n \in 1..(Len(Conn(l).down) + 1) : Answers(From(Conn(l).down, n), executed[l])
    BY <1>3, <2>1, AnswersCut
  <2> QED BY <1>4, <2>2, NothingAnswered
<1>6. /\ a \in HostType /\ ~a.open /\ a.pending = <<>>
  BY <1>1, ClosedIs
<1>7. MaySend(l) /\ host' = [host EXCEPT ![l] = h]
      /\ kind' = [kind EXCEPT ![l][q.id] = q.cmd] /\ lost' = [lost EXCEPT ![l] = @ \cup {q.id}]
      /\ UNCHANGED <<bridge, holder, noise, executed, spoiled, got>>
  BY <1>1 DEF DieSending
<1> HIDE DEF a
<1>8. h \in HostType /\ ~h.open /\ h.pending = <<>> /\ h.calls = q.id
  <2>1. q.id \in {0} \cup Calls
    BY <1>2
  <2>2. h \in HostType
    BY <1>6, <2>1, HostSet
  <2> QED BY <1>6, <2>2 DEF HostType
<1> HIDE DEF h
<1>9. /\ h.open <=> 2 = 3
      /\ c.open <=> 2 = 3
      /\ lost' = IF 2 = 3 THEN lost ELSE [lost EXCEPT ![l] = @ \cup {q.id}]
      /\ Answers(h.pending, executed[l]) /\ Answers(c.down, executed[l])
  BY <1>4, <1>5, <1>7, <1>8, NothingAnswered
<1> QED BY <1>1, <1>4, <1>7, <1>8, <1>9, Writing DEF q

-----------------------------------------------------------------------------
(* The bridge, and the console beside it. *)

LEMMA BridgeSet ==
  ASSUME NEW b \in BridgeType
  PROVE  /\ \A x \in BOOLEAN : [b EXCEPT !.serving = x] \in BridgeType
         /\ \A x \in Seq(Pieces) : [b EXCEPT !.frame = x] \in BridgeType
         /\ \A x \in {"reading", "asking", "running", "writing"} : [b EXCEPT !.phase = x] \in BridgeType
         /\ \A x \in Messages \cup {NoMessage} : [b EXCEPT !.doing = x] \in BridgeType
<1>1. \A x \in BOOLEAN : [b EXCEPT !.serving = x] \in BridgeType
  BY DEF BridgeType
<1>2. \A x \in Seq(Pieces) : [b EXCEPT !.frame = x] \in BridgeType
  BY DEF BridgeType
<1>3. \A x \in {"reading", "asking", "running", "writing"} : [b EXCEPT !.phase = x] \in BridgeType
  BY DEF BridgeType
<1>4. \A x \in Messages \cup {NoMessage} : [b EXCEPT !.doing = x] \in BridgeType
  BY DEF BridgeType
<1> QED BY <1>1, <1>2, <1>3, <1>4

LEMMA SameFirst ==
  ASSUME IInv, NEW l \in Links, conns[l] # <<>>
  PROVE  /\ conns[l][1] \in ConnType /\ [conns EXCEPT ![l][1] = conns[l][1]] = conns
         /\ Answers(conns[l][1].down, executed[l])
<1>1. TypeOK /\ Answered(l)
  BY Known
<1>2. conns \in [Links -> Seq(ConnType)] /\ Len(conns[l]) \in Nat \ {0} /\ conns[l] \in Seq(ConnType)
      /\ conns[l][1] \in ConnType
  BY <1>1, Parts, FirstConn
<1>3. [conns[l] EXCEPT ![1] = conns[l][1]] = conns[l]
  BY <1>2
<1>4. Answers(conns[l][1].down, executed[l])
  BY <1>1, <1>2 DEF Answered
<1> QED BY <1>2, <1>3, <1>4

\* Everything the bridge does but take from the link, carry out and give up.
LEMMA BridgeActs ==
  ASSUME IInv, NEW l \in Links, conns[l] # <<>>,
         NEW e \in BridgeType, bridge' = [bridge EXCEPT ![l] = e],
         NEW c \in ConnType, conns' = [conns EXCEPT ![l][1] = c],
         c.up = conns[l][1].up, c.open = conns[l][1].open, Answers(c.down, executed[l]),
         Asked(e) <=> Asked(bridge[l]),
         e.phase # "reading" => bridge[l].phase # "reading" /\ e.doing = bridge[l].doing,
         e.phase = "writing" => bridge[l].phase = "writing",
         Serving(l) => e.serving /\ e.frame = bridge[l].frame,
         holder' \in SUBSET Links, noise' \in [Links -> Nat],
         spoiled' \in [Links -> SUBSET Calls],
         UNCHANGED <<host, executed, lost, kind, got>>
  PROVE  IInv'
<1>1. TypeOK /\ Shapes /\ Shaped(l) /\ Requests(l) /\ Answered(l)
  BY Known
<1>2. bridge' \in [Links -> BridgeType] /\ bridge'[l] = e /\ \A m \in Links \ {l} : bridge'[m] = bridge[m]
  BY <1>1, Parts
<1>3. /\ conns' \in [Links -> Seq(ConnType)] /\ Len(conns[l]) \in Nat \ {0}
      /\ Len(conns'[l]) = Len(conns[l]) /\ conns'[l][1] = c
      /\ \A k \in 2..Len(conns[l]) : conns'[l][k] = conns[l][k]
      /\ \A m \in Links \ {l} : conns'[m] = conns[m]
  BY <1>1, FirstConn
<1>4. TypeOK'
  BY <1>1, <1>2, <1>3, Parts DEF TypeOK, HostType, ConnType, BridgeType
<1>5. Alone(l)
  BY <1>2, <1>3 DEF Alone
<1>6. \A k \in 1..Len(conns[l]) : /\ conns'[l][k].up = conns[l][k].up
                                  /\ conns'[l][k].open = conns[l][k].open
  <2>1. \A k \in 1..Len(conns[l]) : k = 1 \/ k \in 2..Len(conns[l])
    BY <1>3
  <2> QED BY <1>3, <2>1
<1>7. Shaped(l)'
  <2>1. host'[l].open <=> conns'[l] # <<>> /\ conns'[l][Len(conns'[l])].open
    BY <1>1, <1>3, <1>6 DEF Shaped, Conn
  <2>2. \A k \in 1..(Len(conns'[l]) - 1) : ~conns'[l][k].open
    BY <1>1, <1>3, <1>6 DEF Shaped
  <2>3. /\ l \notin Streams => Len(conns'[l]) = 1 /\ e.serving
        /\ e.phase # "reading" => e.serving /\ e.doing \in Messages
        /\ conns'[l] # <<>>
    BY <1>1, <1>3 DEF Shaped, Serving
  <2> QED BY <1>2, <2>1, <2>2, <2>3 DEF Shaped, Serving, Conn
<1>8. Requests(l)'
  <2>1. Ups(l)' = Ups(l)
    BY <1>3, <1>6 DEF Ups
  <2>2. Requested(Ups(l), bridge[l], host[l].calls, executed[l], lost[l])
    BY <1>1 DEF Requests
  <2>3. Requested(Ups(l), e, host[l].calls, executed[l], lost[l])
    BY <2>2, QuietKeeps DEF Serving
  <2> QED BY <1>2, <2>1, <2>3 DEF Requests
<1>9. Answered(l)'
  <2>1. Answers(host'[l].pending, executed'[l]) /\ executed' = executed
    BY <1>1 DEF Answered
  <2>2. ASSUME NEW k \in 1..Len(conns'[l]) PROVE Answers(conns'[l][k].down, executed'[l])
    <3>1. CASE k = 1
      BY <1>3, <2>1, <3>1
    <3>2. CASE k \in 2..Len(conns[l])
      BY <1>1, <1>3, <2>1, <3>2 DEF Answered
    <3> QED BY <1>3, <3>1, <3>2
  <2> QED BY <2>1, <2>2 DEF Answered
<1> QED BY <1>1, <1>4, <1>5, <1>7, <1>8, <1>9, StepKept

\* A client accepted finds the bridge's buffer empty; nothing on its way counted
\* on it.
LEMMA AcceptKeeps ==
  ASSUME IInv, NEW l \in Links, Accept(l)
  PROVE  IInv'
<1> DEFINE a == [bridge[l] EXCEPT !.serving = TRUE]
           e == [a EXCEPT !.frame = <<>>]
<1>1. /\ TypeOK /\ Shaped(l) /\ conns[l] # <<>> /\ bridge[l] \in BridgeType /\ ~Serving(l)
      /\ bridge[l].phase = "reading"
  BY Known, Parts DEF Shaped, Accept
<1>2. a \in BridgeType /\ a.phase = "reading" /\ a.serving
  <2>1. a \in BridgeType
    BY <1>1, BridgeSet
  <2> QED BY <1>1, <2>1 DEF BridgeType
<1>3. bridge' = [bridge EXCEPT ![l] = e] /\ conns' = [conns EXCEPT ![l][1] = conns[l][1]]
  BY <1>1, SameFirst DEF Accept
<1>4. /\ holder' \in SUBSET Links /\ noise' \in [Links -> Nat]
      /\ spoiled' \in [Links -> SUBSET Calls]
      /\ UNCHANGED <<host, executed, lost, kind, got>>
  BY <1>1 DEF TypeOK, Accept, history
<1> HIDE DEF a
<1>5. e \in BridgeType /\ e.phase = "reading" /\ e.serving
  <2>1. <<>> \in Seq(Pieces)
    OBVIOUS
  <2>2. e \in BridgeType
    BY <1>2, <2>1, BridgeSet
  <2> QED BY <1>2, <2>2 DEF BridgeType
<1> HIDE DEF e
<1>6. Asked(e) <=> Asked(bridge[l])
  BY <1>1, <1>5 DEF Asked
<1> QED BY <1>1, <1>3, <1>4, <1>5, <1>6, SameFirst, BridgeActs

LEMMA LockKeeps ==
  ASSUME IInv, NEW l \in Links, Lock(l)
  PROVE  IInv'
<1> DEFINE e == [bridge[l] EXCEPT !.phase = "running"]
<1>1. /\ TypeOK /\ Shaped(l) /\ conns[l] # <<>> /\ bridge[l] \in BridgeType
      /\ bridge[l].phase = "asking"
  BY Known, Parts DEF Shaped, Lock
<1>2. e \in BridgeType /\ e.phase = "running" /\ e.serving = bridge[l].serving
      /\ e.frame = bridge[l].frame /\ e.doing = bridge[l].doing
  <2>1. e \in BridgeType
    BY <1>1, BridgeSet
  <2> QED BY <1>1, <2>1 DEF BridgeType
<1>3. bridge' = [bridge EXCEPT ![l] = e] /\ conns' = [conns EXCEPT ![l][1] = conns[l][1]]
  BY <1>1, SameFirst DEF Lock
<1>4. /\ holder' \in SUBSET Links /\ noise' \in [Links -> Nat]
      /\ spoiled' \in [Links -> SUBSET Calls]
      /\ UNCHANGED <<host, executed, lost, kind, got>>
  BY <1>1 DEF TypeOK, Lock, history
<1> HIDE DEF e
<1>5. Asked(e) <=> Asked(bridge[l])
  BY <1>1, <1>2 DEF Asked
<1>6. /\ conns[l][1] \in ConnType /\ Answers(conns[l][1].down, executed[l])
      /\ e.phase # "writing"
  BY <1>1, <1>2, SameFirst
<1> QED BY <1>1, <1>2, <1>3, <1>4, <1>5, <1>6, BridgeActs DEF Serving

LEMMA IdleIs ==
  ASSUME NEW b \in BridgeType
  PROVE  /\ Idle(b) \in BridgeType /\ Idle(b).phase = "reading" /\ Idle(b).doing = NoMessage
         /\ Idle(b).serving = b.serving /\ Idle(b).frame = b.frame
<1> DEFINE a == [b EXCEPT !.phase = "reading"]
           e == [a EXCEPT !.doing = NoMessage]
<1>1. a \in BridgeType /\ a.phase = "reading" /\ a.serving = b.serving /\ a.frame = b.frame
  <2>1. a \in BridgeType
    BY BridgeSet
  <2> QED BY <2>1 DEF BridgeType
<1>2. Idle(b) = e
  BY DEF Idle
<1> HIDE DEF a
<1>3. e \in BridgeType /\ e.phase = a.phase /\ e.serving = a.serving /\ e.frame = a.frame
  <2>1. e \in BridgeType
    BY <1>1, BridgeSet
  <2> QED BY <1>1, <2>1 DEF BridgeType
<1> QED BY <1>1, <1>2, <1>3

\* A reply, or as much of it as has room, is to what has been done.
LEMMA ReplyWritten ==
  ASSUME IInv, NEW l \in Links, bridge[l].phase = "writing", NEW n \in Int, n <= 3
  PROVE  LET m == bridge[l].doing IN
         /\ m \in Messages /\ m.id \in Calls
         /\ SubSeq(Framed(m), 1, n) \in Seq(Pieces)
         /\ Answers(SubSeq(Framed(m), 1, n), executed[l])
         /\ SubSeq(Framed(m), 1, 3) = Framed(m) /\ Len(Framed(m)) = 3
<1> DEFINE m == bridge[l].doing
           f == Framed(m)
<1>1. m \in Messages /\ m.id \in executed[l] /\ m.id \in Calls
  <2>1. m \in Messages /\ m.id \in executed[l]
    BY Known DEF Shaped, Requests, Requested, AtHand
  <2> QED BY <2>1 DEF Messages
<1>2. f \in Seq(Pieces) /\ Len(f) = 3 /\ f[1] = Gap /\ f[2] = First(m) /\ f[3] = Final(m)
  BY <1>1, MessageParts DEF Framed
<1> HIDE DEF f
<1>3. Answers(f, executed[l])
  <2>1. \A i \in 1..3 : i = 1 \/ i = 2 \/ i = 3
    OBVIOUS
  <2>2. f[1].part = "gap" /\ f[2].part = "first" /\ f[3].of = m
    BY <1>2 DEF Gap, First, Final
  <2> QED BY <1>1, <1>2, <2>1, <2>2 DEF Answers
<1>4. SubSeq(f, 1, n) \in Seq(Pieces) /\ Answers(SubSeq(f, 1, n), executed[l])
  <2>1. CASE n < 1
    <3>1. SubSeq(f, 1, n) = <<>>
      BY <1>2, <2>1
    <3>2. <<>> \in Seq(Pieces) /\ Answers(<<>>, executed[l])
      BY NothingAnswered
    <3> QED BY <3>1, <3>2
  <2>2. CASE n >= 1
    <3>1. n \in 1..3
      BY <2>2
    <3>2. f \in Seq(Pieces) /\ Len(f) = 3
      BY <1>2
    <3>3. n \in 1..Len(f) /\ f \in Seq(Pieces)
      BY <3>1, <3>2
    <3>4. SubSeq(f, 1, n) \in Seq(Pieces)
      BY <3>3
    <3>5. Len(SubSeq(f, 1, n)) = n /\ \A i \in 1..n : SubSeq(f, 1, n)[i] = f[i]
      BY <3>3
    <3> QED BY <1>3, <3>1, <3>2, <3>4, <3>5 DEF Answers
  <2> QED BY <2>1, <2>2
<1>5. SubSeq(f, 1, 3) = f
  <2>1. f \in Seq(Pieces) /\ Len(f) = 3
    BY <1>2
  <2> QED BY <2>1
<1> QED BY <1>1, <1>2, <1>4, <1>5 DEF f

\* The bridge has written what it could and reads again.
LEMMA Replying ==
  ASSUME IInv, NEW l \in Links, bridge[l].phase = "writing",
         bridge' = [bridge EXCEPT ![l] = Idle(@)],
         NEW d \in Seq(Pieces), Answers(d, executed[l]),
         conns' = [conns EXCEPT ![l][1].down = d],
         spoiled' \in [Links -> SUBSET Calls],
         UNCHANGED <<host, holder, noise, executed, lost, kind, got>>
  PROVE  IInv'
<1> DEFINE e == Idle(bridge[l])
           c == [conns[l][1] EXCEPT !.down = d]
<1>1. TypeOK /\ Shaped(l) /\ conns[l] # <<>> /\ bridge[l] \in BridgeType
  BY Known, Parts DEF Shaped
<1>2. e \in BridgeType /\ e.phase = "reading" /\ e.serving = bridge[l].serving /\ e.frame = bridge[l].frame
  BY <1>1, IdleIs
<1>3. c \in ConnType /\ c.up = conns[l][1].up /\ c.open = conns[l][1].open /\ c.down = d
  BY <1>1, SameFirst DEF ConnType
<1>4. bridge' = [bridge EXCEPT ![l] = e] /\ conns' = [conns EXCEPT ![l][1] = c]
  OBVIOUS
<1>5. holder' \in SUBSET Links /\ noise' \in [Links -> Nat]
  BY <1>1 DEF TypeOK
<1>6. Asked(e) <=> Asked(bridge[l])
  BY <1>2 DEF Asked
<1> HIDE DEF e, c
<1> QED BY <1>1, <1>2, <1>3, <1>4, <1>5, <1>6, BridgeActs DEF Serving

LEMMA WriteKeeps ==
  ASSUME IInv, NEW l \in Links, Write(l)
  PROVE  IInv'
<1> DEFINE m == bridge[l].doing
           d == conns[l][1].down
           x == IF l \in Streams /\ ~conns[l][1].open THEN d ELSE d \o Framed(m)
<1>1. TypeOK /\ Shaped(l) /\ conns[l] # <<>> /\ bridge[l].phase = "writing"
  BY Known DEF Shaped, Write
<1>2. d \in Seq(Pieces) /\ Answers(d, executed[l])
  BY <1>1, SameFirst DEF ConnType
<1>3. Framed(m) \in Seq(Pieces) /\ Answers(Framed(m), executed[l])
  <2>1. 3 \in Int /\ 3 <= 3
    OBVIOUS
  <2> QED BY <1>1, <2>1, ReplyWritten
<1>4. conns' = [conns EXCEPT ![l][1].down = x] /\ bridge' = [bridge EXCEPT ![l] = Idle(@)]
  BY DEF Write, Swallows
<1>5. /\ spoiled' \in [Links -> SUBSET Calls]
      /\ UNCHANGED <<host, holder, noise, executed, lost, kind, got>>
  BY <1>1 DEF TypeOK, Write, history
<1> HIDE DEF m, d
<1>6. x \in Seq(Pieces) /\ Answers(x, executed[l])
  BY <1>2, <1>3, AnswersJoined
<1> HIDE DEF x
<1> QED BY <1>1, <1>4, <1>5, <1>6, Replying

LEMMA WriteCutKeeps ==
  ASSUME IInv, NEW l \in Links, WriteCut(l)
  PROVE  IInv'
<1> DEFINE m == bridge[l].doing
           d == conns[l][1].down
           t == SubSeq(Framed(m), 1, Room(l))
<1>1. TypeOK /\ Shaped(l) /\ conns[l] # <<>> /\ bridge[l].phase = "writing"
  BY Known DEF Shaped, WriteCut
<1>2. d \in Seq(Pieces) /\ Answers(d, executed[l])
  BY <1>1, SameFirst DEF ConnType
<1>3. Room(l) \in Int
  <2>1. Len(d) \in Nat /\ TxCapacity \in Nat
    <3>1. Len(d) \in Nat
      BY <1>2
    <3> QED BY <3>1, Numbers
  <2> QED BY <2>1 DEF Room
<1>4. t \in Seq(Pieces) /\ Answers(t, executed[l]) /\ m.id \in Calls
  <2>1. 3 \in Int /\ 3 <= 3
    OBVIOUS
  <2>2. Len(Framed(m)) = 3
    BY <1>1, <2>1, ReplyWritten
  <2>3. Room(l) <= 3
    BY <1>3, <2>2 DEF WriteCut
  <2> QED BY <1>1, <1>3, <2>3, ReplyWritten
<1>5. conns' = [conns EXCEPT ![l][1].down = d \o t] /\ bridge' = [bridge EXCEPT ![l] = Idle(@)]
  BY DEF WriteCut
<1>6. /\ spoiled' = [spoiled EXCEPT ![l] = @ \cup {m.id}]
      /\ UNCHANGED <<host, holder, noise, executed, lost, kind, got>>
  BY DEF WriteCut
<1>7. spoiled' \in [Links -> SUBSET Calls]
  BY <1>1, <1>4, <1>6 DEF TypeOK
<1> HIDE DEF m, d, t
<1>8. d \o t \in Seq(Pieces) /\ Answers(d \o t, executed[l])
  BY <1>2, <1>4, AnswersJoined
<1> QED BY <1>1, <1>5, <1>6, <1>7, <1>8, Replying

LEMMA ConsoleLineKeeps ==
  ASSUME IInv, NEW l \in Links, ConsoleLine(l)
  PROVE  IInv'
<1> DEFINE d == conns[l][1].down
<1>1. TypeOK /\ Shaped(l) /\ conns[l] # <<>> /\ bridge[l] \in BridgeType /\ l \notin Streams
  <2>1. TypeOK /\ Shaped(l) /\ bridge[l] \in BridgeType
    BY Known, Parts
  <2>2. l \notin Streams
    BY Zenon DEF ConsoleLine
  <2> QED BY <2>1, <2>2 DEF Shaped
<1>2. d \in Seq(Pieces) /\ Answers(d, executed[l]) /\ Len(d) \in Nat
  BY <1>1, SameFirst DEF ConnType
<1>3. PICK p \in 0..Len(d) :
        /\ conns' = [conns EXCEPT ![l][1].down = SubSeq(d, 1, p) \o <<Text>> \o From(d, p + 1)]
        /\ spoiled' = [spoiled EXCEPT ![l] = @ \cup
             (IF p < Len(d) /\ d[p + 1].part \in {"first", "final"} THEN {d[p + 1].of.id} ELSE {})]
  BY DEF ConsoleLine
<1> DEFINE x == SubSeq(d, 1, p) \o <<Text>> \o From(d, p + 1)
           c == [conns[l][1] EXCEPT !.down = x]
<1>4. spoiled' \in [Links -> SUBSET Calls]
  <2>1. ASSUME p < Len(d), d[p + 1].part \in {"first", "final"} PROVE d[p + 1].of.id \in Calls
    <3>1. d[p + 1] \in Pieces
      BY <1>2, <2>1
    <3>2. d[p + 1].of \in Messages
      BY <2>1, <3>1, MessageParts
    <3> QED BY <3>2 DEF Messages
  <2>2. spoiled \in [Links -> SUBSET Calls]
    BY <1>1 DEF TypeOK
  <2> HIDE DEF d
  <2> QED BY <1>3, <2>1, <2>2
<1>5. noise' \in [Links -> Nat] /\ UNCHANGED <<host, bridge, holder, executed, lost, kind, got>>
  <2>1. noise \in [Links -> Nat]
    BY <1>1 DEF TypeOK
  <2>2. noise' = [noise EXCEPT ![l] = noise[l] + 1]
    BY DEF ConsoleLine
  <2>3. UNCHANGED <<host, bridge, holder, executed, lost, kind, got>>
    BY DEF ConsoleLine
  <2> QED BY <2>1, <2>2, <2>3
<1>6. x \in Seq(Pieces) /\ Answers(x, executed[l])
  <2>1. SubSeq(d, 1, p) \in Seq(Pieces) /\ Answers(SubSeq(d, 1, p), executed[l])
    <3> HIDE DEF d
    <3>1. /\ SubSeq(d, 1, p) \in Seq(Pieces) /\ Len(SubSeq(d, 1, p)) = p
          /\ \A i \in 1..p : SubSeq(d, 1, p)[i] = d[i]
      BY <1>2
    <3> QED BY <1>2, <3>1 DEF Answers
  <2>2. <<Text>> \in Seq(Pieces) /\ Answers(<<Text>>, executed[l])
    <3>1. Text \in Pieces /\ Text.part = "text"
      BY MessageParts DEF Text
    <3> QED BY <3>1 DEF Answers
  <2>3. From(d, p + 1) \in Seq(Pieces) /\ Answers(From(d, p + 1), executed[l])
    <3>1. p + 1 \in Nat \ {0}
      BY <1>2
    <3> QED BY <1>2, <3>1, AnswersCut
  <2> HIDE DEF d
  <2>4. SubSeq(d, 1, p) \o <<Text>> \in Seq(Pieces)
        /\ Answers(SubSeq(d, 1, p) \o <<Text>>, executed[l])
    BY <2>1, <2>2, AnswersJoined
  <2> QED BY <2>3, <2>4, AnswersJoined
<1>7. conns' = [conns EXCEPT ![l][1] = c] /\ bridge' = [bridge EXCEPT ![l] = bridge[l]]
  BY <1>1, <1>3, <1>5, Parts
<1> HIDE DEF x
<1>8. c \in ConnType /\ c.up = conns[l][1].up /\ c.open = conns[l][1].open /\ c.down = x
  BY <1>1, <1>6, SameFirst DEF ConnType
<1> HIDE DEF c, d
<1>9. holder' \in SUBSET Links
  BY <1>1, <1>5 DEF TypeOK
<1> QED BY <1>1, <1>4, <1>5, <1>6, <1>7, <1>8, <1>9, BridgeActs DEF Serving

\* Where a piece was before the one at the head of the first connection went.
Before(k, i) == IF k = 1 THEN i + 1 ELSE i
Shorter(u, v) ==
  /\ Len(v) = Len(u) /\ Len(u) \in Nat \ {0}
  /\ Len(u[1]) \in Nat \ {0} /\ Len(v[1]) = Len(u[1]) - 1
  /\ \A k \in 1..Len(u) : Len(v[k]) \in Nat /\ Len(u[k]) \in Nat
  /\ \A k \in 2..Len(u) : v[k] = u[k]
  /\ \A i \in 1..Len(v[1]) : v[1][i] = u[1][i + 1]

LEMMA WasBefore ==
  ASSUME NEW u, NEW v, Shorter(u, v)
  PROVE  /\ \A k \in 1..Len(v) : \A i \in 1..Len(v[k]) :
              Before(k, i) \in 1..Len(u[k]) /\ u[k][Before(k, i)] = v[k][i]
         /\ \A k \in 1..Len(u) : \A i \in 1..Len(u[k]) :
              \/ k = 1 /\ i = 1
              \/ \E h \in 1..Len(v[k]) : k \in 1..Len(v) /\ v[k][h] = u[k][i]
<1>1. ASSUME NEW k \in 1..Len(v), NEW i \in 1..Len(v[k])
      PROVE  Before(k, i) \in 1..Len(u[k]) /\ u[k][Before(k, i)] = v[k][i]
  <2>1. CASE k = 1
    BY <2>1 DEF Before, Shorter
  <2>2. CASE k # 1
    <3>1. k \in 2..Len(u)
      BY <2>2 DEF Shorter
    <3> QED BY <2>2, <3>1 DEF Before, Shorter
  <2> QED BY <2>1, <2>2
<1>2. ASSUME NEW k \in 1..Len(u), NEW i \in 1..Len(u[k]), ~(k = 1 /\ i = 1)
      PROVE  \E h \in 1..Len(v[k]) : k \in 1..Len(v) /\ v[k][h] = u[k][i]
  <2>1. CASE k = 1
    <3>1. i - 1 \in 1..Len(v[1]) /\ (i - 1) + 1 = i
      BY <1>2, <2>1 DEF Shorter
    <3>2. v[1][i - 1] = u[1][i]
      BY <3>1 DEF Shorter
    <3> QED BY <2>1, <3>1, <3>2 DEF Shorter
  <2>2. CASE k # 1
    <3>1. k \in 2..Len(u)
      BY <2>2 DEF Shorter
    <3> QED BY <3>1 DEF Shorter
  <2> QED BY <2>1, <2>2
<1> QED BY <1>1, <1>2

\* What is left stands as it stood, when the buffer holds what went.
LEMMA StillBuilt ==
  ASSUME NEW u, NEW v, Shorter(u, v), NEW b, NEW e, Built(u, b), e.serving,
         u[1][1] = Gap => e.frame = <<>>,
         \A m : u[1][1] = First(m) /\ b.frame = <<>> => e.frame = <<First(m)>>
  PROVE  Built(v, e)
<1> SUFFICES ASSUME NEW k \in 1..Len(v), NEW i \in 1..Len(v[k]) PROVE FrameAt(v, e, k, i)
  BY DEF Built
<1>1. Before(k, i) \in 1..Len(u[k]) /\ u[k][Before(k, i)] = v[k][i] /\ k \in 1..Len(u)
  <2>1. k \in 1..Len(u)
    BY DEF Shorter
  <2> QED BY <2>1, WasBefore
<1>2. FrameAt(u, b, k, Before(k, i))
  BY <1>1 DEF Built
<1>3. CASE k # 1
  <2>1. Before(k, i) = i /\ v[k] = u[k]
    <3>1. k \in 2..Len(u)
      BY <1>1, <1>3 DEF Shorter
    <3> QED BY <1>3, <3>1 DEF Before, Shorter
  <2> QED BY <1>2, <1>3, <2>1 DEF FrameAt
<1>4. CASE k = 1
  <2>1. Before(k, i) = i + 1 /\ i \in 1..Len(v[1]) /\ i \in Nat \ {0} /\ i + 1 \in 1..Len(u[1])
    BY <1>1, <1>4 DEF Before, Shorter
  <2>2. v[1][i] = u[1][i + 1] /\ FrameAt(u, b, 1, i + 1)
    BY <1>2, <1>4, <2>1 DEF Shorter
  <2>3. CASE v[1][i].part # "final"
    BY <1>4, <2>2, <2>3 DEF FrameAt
  <2>4. CASE i >= 3 /\ v[1][i].part = "final"
    <3>1. i - 1 \in 1..Len(v[1]) /\ i - 2 \in 1..Len(v[1])
          /\ (i - 1) + 1 = i /\ (i - 2) + 1 = i - 1
          /\ (i + 1) - 1 = i /\ (i + 1) - 2 = i - 1 /\ i + 1 # 1 /\ i + 1 # 2
      <4>1. Len(v[1]) \in Nat /\ i \in 1..Len(v[1]) /\ i >= 3
        BY <2>1, <2>4 DEF Shorter
      <4> QED BY <4>1
    <3>2. v[1][i - 1] = u[1][i] /\ v[1][i - 2] = u[1][i - 1]
      BY <3>1 DEF Shorter
    <3>3. u[1][i] = First(v[1][i].of) /\ u[1][i - 1] = Gap
      BY <2>2, <2>4, <3>1 DEF FrameAt
    <3> QED BY <1>4, <2>2, <2>4, <3>2, <3>3 DEF FrameAt
  <2>5. CASE i = 2 /\ v[1][i].part = "final"
    <3>1. u[1][2] = First(v[1][2].of) /\ u[1][1] = Gap
      BY <2>2, <2>5 DEF FrameAt
    <3>2. 1 \in 1..Len(v[1])
      BY <2>1, <2>5
    <3>3. v[1][1] = u[1][2]
      BY <3>2 DEF Shorter
    <3> QED BY <1>4, <2>2, <2>5, <3>1, <3>3 DEF FrameAt
  <2>6. CASE i = 1 /\ v[1][i].part = "final"
    <3>1. u[1][1] = First(v[1][1].of) /\ b.frame = <<>>
      BY <2>2, <2>6 DEF FrameAt
    <3>2. e.frame = <<First(v[1][1].of)>>
      BY <3>1
    <3> QED BY <1>4, <2>2, <2>6, <3>2 DEF FrameAt
  <2> QED BY <2>1, <2>3, <2>4, <2>5, <2>6
<1> QED BY <1>3, <1>4

LEMMA StillOrdered ==
  ASSUME NEW u, NEW v, Shorter(u, v), Ordered(u)
  PROVE  Ordered(v)
<1> SUFFICES ASSUME NEW k \in 1..Len(v), NEW j \in 1..Len(v),
                    NEW i \in 1..Len(v[k]), NEW h \in 1..Len(v[j]),
                    v[k][i].part = "final", v[j][h].part = "final",
                    k < j \/ (k = j /\ i < h)
             PROVE  v[k][i].of.id < v[j][h].of.id
  BY DEF Ordered
<1>1. /\ Before(k, i) \in 1..Len(u[k]) /\ u[k][Before(k, i)] = v[k][i] /\ k \in 1..Len(u)
      /\ Before(j, h) \in 1..Len(u[j]) /\ u[j][Before(j, h)] = v[j][h] /\ j \in 1..Len(u)
  <2>1. k \in 1..Len(u) /\ j \in 1..Len(u)
    BY DEF Shorter
  <2> QED BY <2>1, WasBefore
<1>2. i \in Nat /\ h \in Nat
  BY DEF Shorter
<1>3. k < j \/ (k = j /\ Before(k, i) < Before(j, h))
  BY <1>2 DEF Before
<1> QED BY <1>1, <1>3 DEF Ordered

\* A piece that ends no request: nothing at hand changes.
LEMMA PieceTaken ==
  ASSUME NEW u, NEW v, Shorter(u, v), NEW b, NEW e, NEW calls, NEW done, NEW gone,
         Requested(u, b, calls, done, gone), b.phase = "reading",
         e.phase = "reading", e.serving, u[1][1].part # "final",
         u[1][1] = Gap => e.frame = <<>>,
         \A m : u[1][1] = First(m) /\ b.frame = <<>> => e.frame = <<First(m)>>
  PROVE  Requested(v, e, calls, done, gone)
<1>1. Built(v, e)
  BY StillBuilt DEF Requested
<1>2. Ordered(v)
  BY StillOrdered DEF Requested
<1>3. Later(v, e, calls, done, gone)
  <2>1. SUFFICES ASSUME NEW k \in 1..Len(v), NEW i \in 1..Len(v[k]), v[k][i].part = "final"
                 PROVE  LaterThan(v[k][i].of.id, e, calls, done, gone)
    BY DEF Later
  <2>2. k \in 1..Len(u)
    BY DEF Shorter
  <2>3. Before(k, i) \in 1..Len(u[k]) /\ u[k][Before(k, i)] = v[k][i]
    BY WasBefore
  <2>4. LaterThan(v[k][i].of.id, b, calls, done, gone)
    BY <2>1, <2>2, <2>3 DEF Requested, Later
  <2> QED BY <2>4 DEF LaterThan
<1>4. AtHand(e, calls, done, gone) /\ Past(calls, done, gone)
  BY DEF Requested, AtHand, Asked
<1>5. Accounted(v, e, calls, done, gone)
  <2>1. SUFFICES ASSUME NEW c \in 1..calls, c \notin done \cup gone PROVE OnItsWay(v, c)
    BY DEF Accounted
  <2>2. OnItsWay(u, c)
    BY <2>1 DEF Requested, Accounted, Asked
  <2>3. PICK k \in 1..Len(u) : \E i \in 1..Len(u[k]) : u[k][i].part = "final" /\ u[k][i].of.id = c
    BY <2>2 DEF OnItsWay
  <2>4. PICK i \in 1..Len(u[k]) : u[k][i].part = "final" /\ u[k][i].of.id = c
    BY <2>3
  <2>5. ~(k = 1 /\ i = 1)
    BY <2>4
  <2>6. \E h \in 1..Len(v[k]) : k \in 1..Len(v) /\ v[k][h] = u[k][i]
    BY <2>5, WasBefore
  <2> QED BY <2>4, <2>6 DEF OnItsWay
<1> QED BY <1>1, <1>2, <1>3, <1>4, <1>5 DEF Requested

\* The last of a request: it is now the one at hand.
LEMMA RequestTaken ==
  ASSUME NEW u, NEW v, Shorter(u, v), NEW b, NEW e, NEW calls, NEW done, NEW gone,
         Requested(u, b, calls, done, gone), b.phase = "reading",
         u[1][1].part = "final", e.phase = "asking", e.serving, e.doing = u[1][1].of
  PROVE  Requested(v, e, calls, done, gone)
<1>1. Built(v, e)
  <2>1. u[1][1] # Gap /\ \A m : u[1][1] # First(m)
    BY DEF Gap, First
  <2> QED BY <2>1, StillBuilt DEF Requested
<1>2. Ordered(v)
  BY StillOrdered DEF Requested
<1>3. 1 \in 1..Len(u) /\ 1 \in 1..Len(u[1])
  BY DEF Shorter
<1>4. LaterThan(e.doing.id, b, calls, done, gone)
  BY <1>3 DEF Requested, Later
<1>5. Later(v, e, calls, done, gone)
  <2>1. SUFFICES ASSUME NEW k \in 1..Len(v), NEW i \in 1..Len(v[k]), v[k][i].part = "final"
                 PROVE  LaterThan(v[k][i].of.id, e, calls, done, gone)
    BY DEF Later
  <2>2. k \in 1..Len(u) /\ i \in Nat \ {0}
    BY DEF Shorter
  <2>3. Before(k, i) \in 1..Len(u[k]) /\ u[k][Before(k, i)] = v[k][i]
    BY WasBefore
  <2>4. LaterThan(v[k][i].of.id, b, calls, done, gone)
    BY <2>1, <2>2, <2>3 DEF Requested, Later
  <2>5. 1 < k \/ (1 = k /\ 1 < Before(k, i))
    BY <2>2 DEF Before
  <2>6. e.doing.id < v[k][i].of.id
    BY <1>3, <2>1, <2>2, <2>3, <2>5 DEF Requested, Ordered
  <2> QED BY <2>4, <2>6 DEF LaterThan
<1>6. AtHand(e, calls, done, gone) /\ Past(calls, done, gone)
  BY <1>4 DEF Requested, AtHand, Asked, LaterThan
<1>7. Accounted(v, e, calls, done, gone)
  <2>1. SUFFICES ASSUME NEW c \in 1..calls, c \notin done \cup gone, c # e.doing.id
                 PROVE  OnItsWay(v, c)
    BY DEF Accounted, Asked
  <2>2. OnItsWay(u, c)
    BY <2>1 DEF Requested, Accounted, Asked
  <2>3. PICK k \in 1..Len(u) : \E i \in 1..Len(u[k]) : u[k][i].part = "final" /\ u[k][i].of.id = c
    BY <2>2 DEF OnItsWay
  <2>4. PICK i \in 1..Len(u[k]) : u[k][i].part = "final" /\ u[k][i].of.id = c
    BY <2>3
  <2>5. ~(k = 1 /\ i = 1)
    BY <2>1, <2>4
  <2>6. \E h \in 1..Len(v[k]) : k \in 1..Len(v) /\ v[k][h] = u[k][i]
    BY <2>5, WasBefore
  <2> QED BY <2>4, <2>6 DEF OnItsWay
<1> QED BY <1>1, <1>2, <1>5, <1>6, <1>7 DEF Requested

\* What the bridge makes of a piece.
LEMMA TakenIs ==
  ASSUME NEW b \in BridgeType, NEW p \in Pieces, b.phase = "reading", b.serving,
         p.part = "final" => b.frame = <<First(p.of)>>,
         p.part # "text"
  PROVE  LET f == Append(b.frame, p)
             e == IF p.part = "first" THEN [b EXCEPT !.frame = f]
                  ELSE IF Decodes(f)
                       THEN [b EXCEPT !.frame = <<>>, !.phase = "asking", !.doing = p.of]
                       ELSE [b EXCEPT !.frame = <<>>]
         IN /\ e \in BridgeType /\ e.serving
            /\ p.part = "final" => e.phase = "asking" /\ e.doing = p.of /\ p.of \in Messages
            /\ p.part # "final" => e.phase = "reading" /\ e.doing = b.doing
            /\ p = Gap => e.frame = <<>>
            /\ \A m : p = First(m) /\ b.frame = <<>> => e.frame = <<First(m)>>
<1> DEFINE f == Append(b.frame, p)
           e1 == [b EXCEPT !.frame = f]
           e2 == [b EXCEPT !.frame = <<>>]
           e3 == [e2 EXCEPT !.phase = "asking"]
           e4 == [e3 EXCEPT !.doing = p.of]
           e == IF p.part = "first" THEN e1
                ELSE IF Decodes(f)
                     THEN [b EXCEPT !.frame = <<>>, !.phase = "asking", !.doing = p.of]
                     ELSE e2
<1> SUFFICES /\ e \in BridgeType /\ e.serving
             /\ p.part = "final" => e.phase = "asking" /\ e.doing = p.of /\ p.of \in Messages
             /\ p.part # "final" => e.phase = "reading" /\ e.doing = b.doing
             /\ p = Gap => e.frame = <<>>
             /\ \A m : p = First(m) /\ b.frame = <<>> => e.frame = <<First(m)>>
  OBVIOUS
<1>0. b.frame \in Seq(Pieces) /\ f \in Seq(Pieces) /\ <<>> \in Seq(Pieces)
  BY DEF BridgeType
<1>1. /\ e1 \in BridgeType /\ e1.serving /\ e1.phase = "reading" /\ e1.frame = f
      /\ e1.doing = b.doing
  <2>1. e1 \in BridgeType
    BY <1>0, BridgeSet
  <2> QED BY <2>1 DEF BridgeType
<1>2. /\ e2 \in BridgeType /\ e2.serving /\ e2.phase = "reading" /\ e2.frame = <<>>
      /\ e2.doing = b.doing
  <2>1. e2 \in BridgeType
    BY <1>0, BridgeSet
  <2> QED BY <2>1 DEF BridgeType
<1>3. CASE p.part = "first"
  <2>1. \A m : p = First(m) /\ b.frame = <<>> => f = <<First(m)>>
    OBVIOUS
  <2>2. p # Gap
    BY <1>3 DEF Gap
  <2> QED BY <1>1, <1>3, <2>1, <2>2
<1>4. CASE p.part = "gap"
  <2>1. ~Decodes(f)
    <3>1. SUFFICES ASSUME Len(f) = 2, f[2].part = "final" PROVE FALSE
      BY DEF Decodes
    <3>2. f[2] = p
      BY <1>0, <3>1
    <3> QED BY <1>4, <3>1, <3>2
  <2>2. \A m : p # First(m)
    BY <1>4 DEF First
  <2>3. e = e2
    BY <1>4, <2>1
  <2> HIDE DEF e, e2
  <2> QED BY <1>2, <1>4, <2>2, <2>3
<1>5. CASE p.part = "final"
  <2>1. Decodes(f)
    <3>1. Len(f) = 2 /\ f[1] = First(p.of) /\ f[2] = p
      <4>1. Len(b.frame) = 1 /\ b.frame[1] = First(p.of)
        BY <1>5
      <4> QED BY <1>0, <4>1
    <3>2. First(p.of).part = "first" /\ First(p.of).of = p.of
      BY DEF First
    <3> HIDE DEF f
    <3> QED BY <1>5, <3>1, <3>2 DEF Decodes
  <2>2. p # Gap /\ \A m : p # First(m)
    BY <1>5 DEF First, Gap
  <2>3. p.of \in Messages
    BY <1>5, MessageParts
  <2> HIDE DEF e2
  <2>4. e3 \in BridgeType /\ e3.serving /\ e3.phase = "asking" /\ e3.frame = e2.frame
    <3>1. e3 \in BridgeType
      BY <1>2, BridgeSet
    <3> QED BY <1>2, <3>1 DEF BridgeType
  <2> HIDE DEF e3
  <2>5. e4 \in BridgeType /\ e4.serving /\ e4.phase = "asking" /\ e4.doing = p.of
        /\ e4.frame = e3.frame
    <3>1. e4 \in BridgeType
      BY <2>3, <2>4, BridgeSet
    <3> QED BY <2>4, <3>1 DEF BridgeType
  <2>6. e4 = [b EXCEPT !.frame = <<>>, !.phase = "asking", !.doing = p.of]
    BY DEF e2, e3
  <2>7. e = e4
    BY <1>5, <2>1, <2>6
  <2> HIDE DEF e, e4
  <2> QED BY <1>2, <1>5, <2>2, <2>3, <2>4, <2>5, <2>7
<1>6. p.part \in {"first", "gap", "final"}
  BY DEF Pieces
<1> QED BY <1>3, <1>4, <1>5, <1>6

\* The bridge takes from its link, or carries out: the requests are seen to apart.
LEMMA ServeActs ==
  ASSUME IInv, NEW l \in Links, conns[l] # <<>>,
         NEW e \in BridgeType, bridge' = [bridge EXCEPT ![l] = e],
         e.serving, e.phase # "reading" => e.doing \in Messages,
         NEW c \in ConnType, conns' = [conns EXCEPT ![l][1] = c],
         c.open = conns[l][1].open, c.down = conns[l][1].down,
         NEW d \in SUBSET Calls, executed' = [executed EXCEPT ![l] = d], executed[l] \subseteq d,
         holder' \in SUBSET Links, Requests(l)',
         UNCHANGED <<host, noise, lost, spoiled, kind, got>>
  PROVE  IInv'
<1>1. TypeOK /\ Shapes /\ Shaped(l) /\ Answered(l)
  BY Known
<1>2. bridge' \in [Links -> BridgeType] /\ bridge'[l] = e /\ \A m \in Links \ {l} : bridge'[m] = bridge[m]
  BY <1>1, Parts
<1>3. /\ conns' \in [Links -> Seq(ConnType)] /\ Len(conns[l]) \in Nat \ {0}
      /\ Len(conns'[l]) = Len(conns[l]) /\ conns'[l][1] = c
      /\ \A k \in 2..Len(conns[l]) : conns'[l][k] = conns[l][k]
      /\ \A m \in Links \ {l} : conns'[m] = conns[m]
  BY <1>1, FirstConn
<1>4. /\ executed' \in [Links -> SUBSET Calls] /\ executed'[l] = d
      /\ \A m \in Links \ {l} : executed'[m] = executed[m]
  BY <1>1 DEF TypeOK
<1>5. TypeOK'
  BY <1>1, <1>2, <1>3, <1>4 DEF TypeOK, HostType, ConnType, BridgeType
<1>6. Alone(l)
  BY <1>2, <1>3, <1>4 DEF Alone
<1>7. \A k \in 1..Len(conns[l]) : /\ conns'[l][k].open = conns[l][k].open
                                  /\ conns'[l][k].down = conns[l][k].down
  <2>1. \A k \in 1..Len(conns[l]) : k = 1 \/ k \in 2..Len(conns[l])
    BY <1>3
  <2> QED BY <1>3, <2>1
<1>8. Shaped(l)'
  <2>1. host'[l].open <=> conns'[l] # <<>> /\ conns'[l][Len(conns'[l])].open
    BY <1>1, <1>3, <1>7 DEF Shaped, Conn
  <2>2. \A k \in 1..(Len(conns'[l]) - 1) : ~conns'[l][k].open
    BY <1>1, <1>3, <1>7 DEF Shaped
  <2>3. l \notin Streams => Len(conns'[l]) = 1
    BY <1>1, <1>3 DEF Shaped
  <2>4. conns'[l] # <<>>
    BY <1>3
  <2> QED BY <1>2, <2>1, <2>2, <2>3, <2>4 DEF Shaped, Serving, Conn
<1>9. Answered(l)'
  <2>1. Answers(host'[l].pending, executed'[l])
    BY <1>1, <1>4 DEF Answered, Answers
  <2>2. ASSUME NEW k \in 1..Len(conns'[l]) PROVE Answers(conns'[l][k].down, executed'[l])
    BY <1>1, <1>3, <1>4, <1>7 DEF Answered, Answers
  <2> QED BY <2>1, <2>2 DEF Answered
<1> QED BY <1>1, <1>5, <1>6, <1>8, <1>9, StepKept

LEMMA TakeKeeps ==
  ASSUME IInv, NEW l \in Links, Take(l)
  PROVE  IInv'
<1> DEFINE u == Ups(l)
           v == Ups(l)'
           p == Head(Upstream(l))
           f == Append(bridge[l].frame, p)
           e == IF p.part = "first" THEN [bridge[l] EXCEPT !.frame = f]
                ELSE IF Decodes(f)
                     THEN [bridge[l] EXCEPT !.frame = <<>>, !.phase = "asking", !.doing = p.of]
                     ELSE [bridge[l] EXCEPT !.frame = <<>>]
           c == [conns[l][1] EXCEPT !.up = Tail(Upstream(l))]
<1>1. /\ TypeOK /\ Shapes /\ Shaped(l) /\ Requests(l) /\ conns[l] # <<>> /\ bridge[l] \in BridgeType
      /\ bridge[l].phase = "reading" /\ bridge[l].serving
  BY Known, Parts DEF Shaped, Take, Serving
<1>2. /\ conns[l][1] \in ConnType /\ Len(conns[l]) \in Nat \ {0}
      /\ Upstream(l) \in Seq(Pieces) /\ Upstream(l) # <<>>
  BY <1>1, FirstConn DEF ConnType, Upstream, Take
<1>3. /\ p \in Pieces /\ p = Upstream(l)[1] /\ Len(Upstream(l)) \in Nat \ {0}
      /\ Tail(Upstream(l)) \in Seq(Pieces)
      /\ Len(Tail(Upstream(l))) = Len(Upstream(l)) - 1
      /\ \A i \in 1..Len(Tail(Upstream(l))) : Tail(Upstream(l))[i] = Upstream(l)[i + 1]
  BY <1>2
<1>4. /\ c \in ConnType /\ c.open = conns[l][1].open /\ c.down = conns[l][1].down
      /\ c.up = Tail(Upstream(l))
  BY <1>2, <1>3 DEF ConnType
<1>5. conns' = [conns EXCEPT ![l][1] = c] /\ bridge' = [bridge EXCEPT ![l] = e]
  BY DEF Take, Upstream
<1>6. UNCHANGED <<host, holder, noise, executed, lost, spoiled, kind, got>>
  BY DEF Take, history
<1> HIDE DEF e, c, p
<1>7. /\ Len(conns'[l]) = Len(conns[l]) /\ conns'[l][1] = c
      /\ \A k \in 2..Len(conns[l]) : conns'[l][k] = conns[l][k]
      /\ \A k \in 1..Len(conns[l]) : conns[l][k] \in ConnType
      /\ \A k \in 1..Len(conns[l]) : conns'[l][k] \in ConnType
  <2>1. conns' \in [Links -> Seq(ConnType)] /\ Len(conns'[l]) = Len(conns[l]) /\ conns'[l][1] = c
        /\ \A k \in 2..Len(conns[l]) : conns'[l][k] = conns[l][k]
    BY <1>1, <1>4, <1>5, FirstConn
  <2> QED BY <1>1, <2>1, Parts
<1>8. /\ Len(u) = Len(conns[l]) /\ Len(v) = Len(conns[l])
      /\ \A k \in 1..Len(conns[l]) : u[k] = conns[l][k].up /\ v[k] = conns'[l][k].up
  BY <1>2, <1>7 DEF Ups
<1>9. Shorter(u, v)
  <2>1. \A k \in 1..Len(conns[l]) : Len(u[k]) \in Nat /\ Len(v[k]) \in Nat
    <3>1. \A k \in 1..Len(conns[l]) : conns[l][k].up \in Seq(Pieces) /\ conns'[l][k].up \in Seq(Pieces)
      BY <1>7 DEF ConnType
    <3> QED BY <1>8, <3>1
  <2>2. u[1] = Upstream(l) /\ v[1] = Tail(Upstream(l))
    BY <1>2, <1>4, <1>7, <1>8 DEF Upstream
  <2>3. \A k \in 2..Len(conns[l]) : v[k] = u[k]
    BY <1>2, <1>7, <1>8
  <2> HIDE DEF u, v
  <2> QED BY <1>2, <1>3, <1>8, <2>1, <2>2, <2>3 DEF Shorter
<1>10. u[1][1] = p /\ Requested(u, bridge[l], host[l].calls, executed[l], lost[l])
  BY <1>1, <1>2, <1>3, <1>8 DEF Requests, Upstream
<1> HIDE DEF u, v
<1>11. FrameAt(u, bridge[l], 1, 1)
  <2>1. 1 \in 1..Len(u) /\ 1 \in 1..Len(u[1])
    BY <1>9 DEF Shorter
  <2> QED BY <1>10, <2>1 DEF Requested, Built
<1>12. p.part # "text" /\ (p.part = "final" => bridge[l].frame = <<First(p.of)>>)
  <2>1. /\ u[1][1].part # "text"
        /\ u[1][1].part = "final" => bridge[l].frame = <<First(u[1][1].of)>>
    BY <1>11 DEF FrameAt
  <2> QED BY <1>10, <2>1
<1>13. /\ e \in BridgeType /\ e.serving
       /\ p.part = "final" => e.phase = "asking" /\ e.doing = p.of /\ p.of \in Messages
       /\ p.part # "final" => e.phase = "reading"
       /\ p = Gap => e.frame = <<>>
       /\ \A m : p = First(m) /\ bridge[l].frame = <<>> => e.frame = <<First(m)>>
  <2> DEFINE b == bridge[l]
             g == Append(b.frame, p)
             i == IF p.part = "first" THEN [b EXCEPT !.frame = g]
                  ELSE IF Decodes(g)
                       THEN [b EXCEPT !.frame = <<>>, !.phase = "asking", !.doing = p.of]
                       ELSE [b EXCEPT !.frame = <<>>]
  <2>1. /\ b \in BridgeType /\ b.phase = "reading" /\ b.serving /\ p \in Pieces
        /\ p.part = "final" => b.frame = <<First(p.of)>>
        /\ p.part # "text"
    BY <1>1, <1>3, <1>12
  <2>2. e = i
    BY DEF e
  <2> HIDE DEF b
  <2>3. /\ i \in BridgeType /\ i.serving
        /\ p.part = "final" => i.phase = "asking" /\ i.doing = p.of /\ p.of \in Messages
        /\ p.part # "final" => i.phase = "reading"
        /\ p = Gap => i.frame = <<>>
        /\ \A m : p = First(m) /\ b.frame = <<>> => i.frame = <<First(m)>>
    BY <2>1, TakenIs
  <2> HIDE DEF i
  <2> QED BY <2>2, <2>3 DEF b
<1>14. Requested(v, e, host[l].calls, executed[l], lost[l])
  <2>1. CASE p.part = "final"
    BY <1>1, <1>9, <1>10, <1>13, <2>1, RequestTaken
  <2>2. CASE p.part # "final"
    BY <1>1, <1>9, <1>10, <1>13, <2>2, PieceTaken
  <2> QED BY <2>1, <2>2
<1>15. Requests(l)'
  <2>1. bridge'[l] = e
    BY <1>1, <1>5, Parts
  <2> QED BY <1>6, <1>14, <2>1 DEF Requests, v
<1>16. e.phase # "reading" => e.doing \in Messages
  BY <1>13
<1>17. /\ executed[l] \in SUBSET Calls /\ executed' = [executed EXCEPT ![l] = executed[l]]
       /\ holder' \in SUBSET Links
  BY <1>1, <1>6 DEF TypeOK
<1> QED BY <1>1, <1>4, <1>5, <1>6, <1>13, <1>15, <1>16, <1>17, ServeActs

\* Carried out: what was at hand is now done, and later than what was done.
LEMMA CarriedOut ==
  ASSUME NEW u, NEW b, NEW e, NEW calls, NEW done, NEW gone,
         Requested(u, b, calls, done, gone), b.phase = "running",
         e.phase = "writing", e.doing = b.doing, e.serving = b.serving, e.frame = b.frame
  PROVE  Requested(u, e, calls, done \cup {b.doing.id}, gone)
<1>1. Built(u, e) /\ Ordered(u)
  BY DEF Requested, Built, FrameAt
<1>2. Later(u, e, calls, done \cup {b.doing.id}, gone)
  BY DEF Requested, Later, LaterThan
<1>3. AtHand(e, calls, done \cup {b.doing.id}, gone) /\ Past(calls, done \cup {b.doing.id}, gone)
  BY DEF Requested, AtHand, Past, Asked
<1>4. Accounted(u, e, calls, done \cup {b.doing.id}, gone)
  BY DEF Requested, Accounted, Asked
<1> QED BY <1>1, <1>2, <1>3, <1>4 DEF Requested

LEMMA RunKeeps ==
  ASSUME IInv, NEW l \in Links, Run(l)
  PROVE  IInv'
<1> DEFINE e == [bridge[l] EXCEPT !.phase = "writing"]
           d == executed[l] \cup {bridge[l].doing.id}
<1>1. /\ TypeOK /\ Shaped(l) /\ Requests(l) /\ conns[l] # <<>> /\ bridge[l] \in BridgeType
      /\ bridge[l].phase = "running" /\ bridge[l].doing \in Messages /\ bridge[l].serving
  BY Known, Parts DEF Shaped, Run, Serving
<1>2. e \in BridgeType /\ e.phase = "writing" /\ e.serving = bridge[l].serving
      /\ e.frame = bridge[l].frame /\ e.doing = bridge[l].doing
  <2>1. e \in BridgeType
    BY <1>1, BridgeSet
  <2> QED BY <1>1, <2>1 DEF BridgeType
<1>3. /\ bridge' = [bridge EXCEPT ![l] = e] /\ executed' = [executed EXCEPT ![l] = d]
      /\ holder' = {} /\ UNCHANGED <<host, conns, noise, lost, spoiled, kind, got>>
  BY DEF Run
<1>4. conns' = [conns EXCEPT ![l][1] = conns[l][1]] /\ conns[l][1] \in ConnType
  BY <1>1, <1>3, SameFirst
<1>5. d \in SUBSET Calls /\ executed[l] \subseteq d
  <2>1. bridge[l].doing.id \in Calls
    BY <1>1 DEF Messages
  <2> QED BY <1>1, <2>1 DEF TypeOK
<1> HIDE DEF e
<1>6. Requests(l)'
  <2>1. Requested(Ups(l), e, host[l].calls, d, lost[l])
    BY <1>1, <1>2, CarriedOut DEF Requests
  <2>2. bridge'[l] = e /\ executed'[l] = d /\ Ups(l)' = Ups(l)
    BY <1>1, <1>3, Parts DEF TypeOK, Ups
  <2> QED BY <1>3, <2>1, <2>2 DEF Requests
<1> HIDE DEF d
<1>7. holder' \in SUBSET Links
  BY <1>3
<1> QED BY <1>1, <1>2, <1>3, <1>4, <1>5, <1>6, <1>7, ServeActs

\* A connection given up takes with it what it still carried.
Ended(u) == {c \in Calls : \E i \in 1..Len(u[1]) : u[1][i].part = "final" /\ u[1][i].of.id = c}

LEMMA ConnectionGone ==
  ASSUME NEW u, NEW v, NEW b, NEW e, NEW calls, NEW done, NEW gone,
         Requested(u, b, calls, done, gone), ~Asked(b), e.phase = "reading",
         1..calls \subseteq Calls,
         Len(u) \in Nat \ {0}, Len(v) = Len(u) - 1,
         \A k \in 1..Len(v) : v[k] = u[k + 1],
         \A c \in Calls : c \in Nat,
         \A k \in 1..Len(u) : Len(u[k]) \in Nat
  PROVE  Requested(v, e, calls, done, gone \cup Ended(u))
<1>1. \A k \in 1..Len(v) : k + 1 \in 2..Len(u) /\ k + 1 \in 1..Len(u) /\ k \in Nat /\ v[k] = u[k + 1]
  OBVIOUS
<1>2. Built(v, e)
  <2>1. SUFFICES ASSUME NEW k \in 1..Len(v), NEW i \in 1..Len(v[k]) PROVE FrameAt(v, e, k, i)
    BY DEF Built
  <2>2. FrameAt(u, b, k + 1, i) /\ k + 1 # 1 /\ v[k] = u[k + 1]
    BY <1>1 DEF Requested, Built
  <2> QED BY <2>2 DEF FrameAt
<1>3. Ordered(v)
  <2>1. SUFFICES ASSUME NEW k \in 1..Len(v), NEW j \in 1..Len(v),
                        NEW i \in 1..Len(v[k]), NEW h \in 1..Len(v[j]),
                        v[k][i].part = "final", v[j][h].part = "final",
                        k < j \/ (k = j /\ i < h)
                 PROVE  v[k][i].of.id < v[j][h].of.id
    BY DEF Ordered
  <2>2. k + 1 < j + 1 \/ (k + 1 = j + 1 /\ i < h)
    <3>1. k \in Int /\ j \in Int
      BY <1>1
    <3> QED BY <2>1, <3>1
  <2>3. /\ k + 1 \in 1..Len(u) /\ j + 1 \in 1..Len(u)
        /\ v[k] = u[k + 1] /\ v[j] = u[j + 1]
    BY <1>1
  <2>4. Ordered(u)
    BY DEF Requested
  <2>5. \A x \in 1..Len(u), y \in 1..Len(u) :
          /\ i \in 1..Len(u[x]) /\ h \in 1..Len(u[y])
          /\ u[x][i].part = "final" /\ u[y][h].part = "final"
          /\ x < y \/ (x = y /\ i < h)
          => u[x][i].of.id < u[y][h].of.id
    BY <2>4 DEF Ordered
  <2>6. /\ i \in 1..Len(u[k + 1]) /\ h \in 1..Len(u[j + 1])
        /\ u[k + 1][i].part = "final" /\ u[j + 1][h].part = "final"
    BY <2>1, <2>3
  <2>7. u[k + 1][i].of.id < u[j + 1][h].of.id
    BY <2>2, <2>3, <2>5, <2>6
  <2> QED BY <2>3, <2>7
<1>4. ASSUME NEW c \in Ended(u)
      PROVE  /\ LaterThan(c, b, calls, done, gone)
             /\ \A k \in 2..Len(u) : \A i \in 1..Len(u[k]) :
                  u[k][i].part = "final" => c < u[k][i].of.id
  <2>1. PICK i \in 1..Len(u[1]) : u[1][i].part = "final" /\ u[1][i].of.id = c
    BY DEF Ended
  <2>2. 1 \in 1..Len(u) /\ \A k \in 2..Len(u) : k \in 1..Len(u) /\ 1 < k
    OBVIOUS
  <2>3. LaterThan(c, b, calls, done, gone)
    BY <2>1, <2>2 DEF Requested, Later
  <2>4. ASSUME NEW k \in 2..Len(u), NEW h \in 1..Len(u[k]), u[k][h].part = "final"
        PROVE  c < u[k][h].of.id
    BY <2>1, <2>2, <2>4 DEF Requested, Ordered
  <2> QED BY <2>3, <2>4
<1>5. Later(v, e, calls, done, gone \cup Ended(u))
  <2>1. SUFFICES ASSUME NEW k \in 1..Len(v), NEW i \in 1..Len(v[k]), v[k][i].part = "final"
                 PROVE  LaterThan(v[k][i].of.id, e, calls, done, gone \cup Ended(u))
    BY DEF Later
  <2>2. LaterThan(v[k][i].of.id, b, calls, done, gone)
    BY <1>1, <2>1 DEF Requested, Later
  <2>3. \A c \in Ended(u) : c < v[k][i].of.id /\ c \in Nat
    BY <1>1, <1>4, <2>1 DEF Ended
  <2>4. v[k][i].of.id \notin Ended(u)
    BY <2>3
  <2> QED BY <2>2, <2>4 DEF LaterThan
<1>6. AtHand(e, calls, done, gone \cup Ended(u))
  BY DEF AtHand, Asked
<1>7. Past(calls, done, gone \cup Ended(u))
  <2>1. Past(calls, done, gone)
    BY DEF Requested
  <2>2. \A c \in Ended(u) : c \in 1..calls /\ \A d \in done : d < c
    BY <1>4 DEF LaterThan
  <2>3. \A c \in Ended(u) : c \notin done
    <3>1. \A c \in Ended(u) : c \in Nat
      BY DEF Ended
    <3> QED BY <2>2, <3>1
  <2> QED BY <2>1, <2>2, <2>3 DEF Past
<1>8. Accounted(v, e, calls, done, gone \cup Ended(u))
  <2>1. SUFFICES ASSUME NEW c \in 1..calls, c \notin done \cup gone, c \notin Ended(u)
                 PROVE  OnItsWay(v, c)
    BY DEF Accounted
  <2>2. OnItsWay(u, c)
    BY <2>1 DEF Requested, Accounted
  <2>3. PICK k \in 1..Len(u) : \E i \in 1..Len(u[k]) : u[k][i].part = "final" /\ u[k][i].of.id = c
    BY <2>2 DEF OnItsWay
  <2>4. PICK i \in 1..Len(u[k]) : u[k][i].part = "final" /\ u[k][i].of.id = c
    BY <2>3
  <2>5. k # 1
    BY <2>1, <2>4 DEF Ended
  <2>6. k - 1 \in 1..Len(v) /\ (k - 1) + 1 = k
    BY <2>5
  <2>7. v[k - 1] = u[k]
    BY <2>6
  <2> QED BY <2>4, <2>6, <2>7 DEF OnItsWay
<1> QED BY <1>2, <1>3, <1>5, <1>6, <1>7, <1>8 DEF Requested

\* serve_bridge returns.
LEMMA DroppedKeeps ==
  ASSUME IInv, NEW l \in Links, l \in Streams, conns[l] # <<>>, ~conns[l][1].open,
         ~Asked(bridge[l]), Dropped(l),
         UNCHANGED <<host, holder, noise, executed, spoiled, kind, got>>
  PROVE  IInv'
<1> DEFINE u == Ups(l)
           v == Ups(l)'
           i == Idle(bridge[l])
           f == [i EXCEPT !.serving = FALSE]
           e == [f EXCEPT !.frame = <<>>]
           s == conns[l]
           t == Tail(conns[l])
           g == lost[l] \cup Ended(u)
<1>1. /\ TypeOK /\ Shapes /\ Shaped(l) /\ Requests(l) /\ Answered(l)
      /\ bridge[l] \in BridgeType /\ host[l] \in HostType
  BY Known, Parts
<1>2. i \in BridgeType /\ i.phase = "reading"
  BY <1>1, IdleIs
<1>3. bridge' = [bridge EXCEPT ![l] = e] /\ conns' = [conns EXCEPT ![l] = t]
  BY DEF Dropped
<1> HIDE DEF i
<1>4. f \in BridgeType /\ f.phase = "reading" /\ f.serving = FALSE
  <2>1. f \in BridgeType
    BY <1>2, BridgeSet
  <2> QED BY <1>2, <2>1 DEF BridgeType
<1> HIDE DEF f
<1>5. e \in BridgeType /\ e.phase = "reading" /\ e.serving = FALSE
  <2>1. <<>> \in Seq(Pieces)
    OBVIOUS
  <2>2. e \in BridgeType
    BY <1>4, <2>1, BridgeSet
  <2> QED BY <1>4, <2>2 DEF BridgeType
<1> HIDE DEF e
<1>6. s \in Seq(ConnType) /\ Len(s) \in Nat \ {0} /\ conns \in [Links -> Seq(ConnType)]
      /\ \A k \in 1..Len(s) : s[k] \in ConnType
  BY <1>1, Parts, FirstConn
<1>7. /\ t \in Seq(ConnType) /\ Len(t) = Len(s) - 1
      /\ \A k \in 1..Len(t) : t[k] = s[k + 1]
  <2> HIDE DEF s
  <2>1. s \in Seq(ConnType) /\ s # <<>>
    BY <1>6
  <2>2. Tail(s) \in Seq(ConnType) /\ Len(Tail(s)) = Len(s) - 1
        /\ \A k \in 1..Len(Tail(s)) : Tail(s)[k] = s[k + 1]
    BY <2>1
  <2> QED BY <2>2 DEF s
<1> HIDE DEF t
<1>8. /\ conns' \in [Links -> Seq(ConnType)] /\ conns'[l] = t
      /\ \A m \in Links \ {l} : conns'[m] = conns[m]
      /\ bridge' \in [Links -> BridgeType] /\ bridge'[l] = e
      /\ \A m \in Links \ {l} : bridge'[m] = bridge[m]
  BY <1>1, <1>3, <1>5, <1>6, <1>7, Parts
<1>9. /\ u \in Seq(Seq(Pieces)) /\ Len(u) = Len(s) /\ \A k \in 1..Len(s) : u[k] = s[k].up
      /\ Len(v) = Len(t) /\ \A k \in 1..Len(t) : v[k] = t[k].up
  <2>1. Len(v) = Len(t) /\ \A k \in 1..Len(t) : v[k] = t[k].up
    BY <1>6, <1>7, <1>8 DEF Ups
  <2> QED BY <1>1, <2>1, UpsIs
<1>10. lost' = [lost EXCEPT ![l] = g]
  <2>1. 1 \in 1..Len(s)
    BY <1>6
  <2>2. u[1] = Upstream(l)
    BY <1>9, <2>1 DEF Upstream
  <2>3. Ended(u) = {c \in Calls : \E h \in 1..Len(Upstream(l)) :
                      Upstream(l)[h].part = "final" /\ Upstream(l)[h].of.id = c}
    BY <2>2 DEF Ended
  <2> HIDE DEF u
  <2> QED BY <2>3 DEF Dropped
<1>11. Requested(v, e, host[l].calls, executed[l], g)
  <2>1. Requested(u, bridge[l], host[l].calls, executed[l], lost[l])
    BY <1>1 DEF Requests
  <2>2. 1..host[l].calls \subseteq Calls
    <3>1. host[l].calls \in {0} \cup Calls
      BY <1>1 DEF HostType
    <3>2. CASE host[l].calls = 0
      BY <3>2
    <3>3. CASE host[l].calls \in Calls
      BY <3>3, Numbers
    <3> QED BY <3>1, <3>2, <3>3
  <2>3. \A c \in Calls : c \in Nat
    BY Numbers
  <2>4. \A k \in 1..Len(u) : Len(u[k]) \in Nat
    <3> HIDE DEF u, v
    <3> QED BY <1>9
  <2>5. Len(u) \in Nat \ {0} /\ Len(v) = Len(u) - 1
    BY <1>6, <1>7, <1>9
  <2>6. \A k \in 1..Len(v) : v[k] = u[k + 1]
    <3>1. \A k \in 1..Len(t) : k + 1 \in 1..Len(s)
      BY <1>6, <1>7
    <3> HIDE DEF u, v, s
    <3> QED BY <1>7, <1>9, <3>1
  <2> HIDE DEF u, v, s
  <2>7. Requested(v, e, host[l].calls, executed[l], lost[l] \cup Ended(u))
    BY <1>5, <2>1, <2>2, <2>3, <2>4, <2>5, <2>6, ConnectionGone
  <2> QED BY <2>7
<1>12. /\ lost[l] \in SUBSET Calls /\ g \in SUBSET Calls /\ lost' \in [Links -> SUBSET Calls]
       /\ lost'[l] = g /\ \A m \in Links \ {l} : lost'[m] = lost[m]
  <2>1. lost \in [Links -> SUBSET Calls]
    BY <1>1 DEF TypeOK
  <2>2. g \in SUBSET Calls
    BY <2>1 DEF Ended
  <2> HIDE DEF g
  <2> QED BY <1>10, <2>1, <2>2
<1> HIDE DEF g
<1>13. Requests(l)'
  BY <1>8, <1>11, <1>12 DEF Requests
<1>14. TypeOK'
  BY <1>1, <1>8, <1>12 DEF TypeOK, HostType, ConnType, BridgeType
<1>15. Alone(l)
  BY <1>8, <1>12 DEF Alone
<1> HIDE DEF u, v
<1>16. Shaped(l)'
  <2>1. host'[l].open <=> conns'[l] # <<>> /\ conns'[l][Len(conns'[l])].open
    <3>1. host[l].open <=> s[Len(s)].open
      BY <1>1 DEF Shaped, Conn
    <3>2. CASE Len(s) = 1
      <4>1. t = <<>>
        BY <1>7, <3>2
      <4> QED BY <1>8, <3>1, <3>2, <4>1
    <3>3. CASE Len(s) # 1
      <4>1. t # <<>> /\ Len(t) \in 1..Len(t) /\ Len(t) + 1 = Len(s)
        BY <1>6, <1>7, <3>3
      <4>2. t[Len(t)] = s[Len(s)]
        BY <1>7, <4>1
      <4> QED BY <1>8, <3>1, <4>1, <4>2
    <3> QED BY <3>2, <3>3
  <2>2. \A k \in 1..(Len(conns'[l]) - 1) : ~conns'[l][k].open
    <3>1. \A k \in 1..(Len(t) - 1) : k \in 1..Len(t) /\ k + 1 \in 1..(Len(s) - 1)
      BY <1>6, <1>7
    <3>2. \A k \in 1..(Len(s) - 1) : ~s[k].open
      BY <1>1 DEF Shaped
    <3> HIDE DEF s
    <3> QED BY <1>7, <1>8, <3>1, <3>2
  <2> QED BY <1>5, <1>8, <2>1, <2>2 DEF Shaped, Serving, Conn
<1>17. Answered(l)'
  <2>1. Answers(host'[l].pending, executed'[l])
    BY <1>1 DEF Answered
  <2>2. \A k \in 1..Len(s) : Answers(s[k].down, executed[l])
    BY <1>1 DEF Answered
  <2>3. \A k \in 1..Len(t) : k + 1 \in 1..Len(s)
    BY <1>6, <1>7
  <2>4. \A k \in 1..Len(t) : Answers(t[k].down, executed[l])
    <3> HIDE DEF s
    <3> QED BY <1>7, <2>2, <2>3
  <2> QED BY <1>8, <2>1, <2>4 DEF Answered
<1> QED BY <1>13, <1>14, <1>15, <1>16, <1>17, StepKept

LEMMA WriteFailsKeeps ==
  ASSUME IInv, NEW l \in Links, WriteFails(l)
  PROVE  IInv'
<1>1. conns[l] # <<>> /\ ~Asked(bridge[l])
  BY Known DEF Shaped, WriteFails, Asked
<1> QED BY <1>1, DroppedKeeps DEF WriteFails

LEMMA EndOfStreamKeeps ==
  ASSUME IInv, NEW l \in Links, EndOfStream(l)
  PROVE  IInv'
<1>1. conns[l] # <<>> /\ ~Asked(bridge[l])
  BY Known DEF Shaped, EndOfStream, Asked
<1> QED BY <1>1, DroppedKeeps DEF EndOfStream

-----------------------------------------------------------------------------
(* The invariant. *)

LEMMA InitKept == Init => IInv
<1> SUFFICES ASSUME Init PROVE IInv
  OBVIOUS
<1>1. TypeOK /\ Shapes
  BY InitHolds
<1>2. ASSUME NEW l \in Links PROVE Requests(l) /\ Answered(l)
  <2>1. /\ host[l].calls = 0 /\ host[l].pending = <<>> /\ executed[l] = {} /\ lost[l] = {}
        /\ bridge[l].phase = "reading"
    BY DEF Init
  <2>2. \A k \in 1..Len(conns[l]) : conns[l][k].up = <<>> /\ conns[l][k].down = <<>>
    <3>1. CASE l \in Streams
      <4>1. Len(conns[l]) = 0
        BY <3>1 DEF Init
      <4> QED BY <4>1
    <3>2. CASE l \notin Streams
      <4>1. conns[l] = <<[open |-> FALSE, up |-> <<>>, down |-> <<>>]>>
        BY <3>2 DEF Init
      <4> QED BY <4>1
    <3> QED BY <3>1, <3>2
  <2>3. \A k \in 1..Len(Ups(l)) : Len(Ups(l)[k]) = 0
    <3>1. Len(Ups(l)) = Len(conns[l]) /\ \A k \in 1..Len(conns[l]) : Ups(l)[k] = conns[l][k].up
      BY <1>1, UpsIs
    <3> QED BY <2>2, <3>1
  <2>4. Built(Ups(l), bridge[l]) /\ Ordered(Ups(l))
    BY <2>3 DEF Built, Ordered
  <2>5. Later(Ups(l), bridge[l], host[l].calls, executed[l], lost[l])
    BY <2>3 DEF Later
  <2>6. /\ AtHand(bridge[l], host[l].calls, executed[l], lost[l])
        /\ Past(host[l].calls, executed[l], lost[l])
        /\ Accounted(Ups(l), bridge[l], host[l].calls, executed[l], lost[l])
    BY <2>1 DEF AtHand, Asked, Past, Accounted
  <2>7. Requests(l)
    BY <2>4, <2>5, <2>6 DEF Requests, Requested
  <2>8. Answered(l)
    BY <2>1, <2>2, NothingAnswered DEF Answered
  <2> QED BY <2>7, <2>8
<1> QED BY <1>1, <1>2 DEF IInv, Kept, Shapes

LEMMA Idling == ASSUME IInv, UNCHANGED vars PROVE IInv'
<1>1. UNCHANGED <<host, conns, bridge, holder, noise, executed, lost, spoiled, kind, got>>
  BY DEF vars, history
<1>2. TypeOK'
  BY <1>1 DEF IInv, TypeOK
<1>3. ASSUME NEW l \in Links PROVE Kept(l)'
  <2>1. Kept(l)
    BY DEF IInv
  <2>2. Shaped(l)'
    BY <1>1, <2>1 DEF Kept, Shaped, Serving, Conn
  <2>3. Requests(l)'
    <3>1. Ups(l)' = Ups(l)
      BY <1>1 DEF Ups
    <3> QED BY <1>1, <2>1, <3>1 DEF Kept, Requests
  <2>4. Answered(l)'
    BY <1>1, <2>1 DEF Kept, Answered, Answers
  <2> QED BY <2>2, <2>3, <2>4 DEF Kept
<1> QED BY <1>2, <1>3 DEF IInv

LEMMA NextKeeps == IInv /\ [Next]_vars => IInv'
<1> SUFFICES ASSUME IInv, [Next]_vars PROVE IInv'
  OBVIOUS
<1>1. CASE UNCHANGED vars
  BY <1>1, Idling
<1>2. ASSUME NEW l \in Links, HostStep(l) PROVE IInv'
  <2>1. CASE Open(l) BY <2>1, OpenKeeps
  <2>2. CASE Close(l) BY <2>2, CloseKeeps
  <2>3. CASE Send(l) BY <2>3, SendKeeps
  <2>4. CASE DieSending(l) BY <2>4, DieSendingKeeps
  <2>5. CASE Receive(l) BY <2>5, ReceiveKeeps
  <2>6. CASE Discard(l) BY <2>6, DiscardKeeps
  <2>7. CASE Unidentified(l) BY <2>7, UnidentifiedKeeps
  <2>8. CASE Read(l) BY <2>8, ReadKeeps
  <2>9. CASE Timeout(l) BY <2>9, TimeoutKeeps
  <2> QED BY <1>2, <2>1, <2>2, <2>3, <2>4, <2>5, <2>6, <2>7, <2>8, <2>9 DEF HostStep
<1>3. ASSUME NEW l \in Links, BridgeStep(l) PROVE IInv'
  <2>1. CASE Accept(l) BY <2>1, AcceptKeeps
  <2>2. CASE Take(l) BY <2>2, TakeKeeps
  <2>3. CASE Lock(l) BY <2>3, LockKeeps
  <2>4. CASE Run(l) BY <2>4, RunKeeps
  <2>5. CASE Write(l) BY <2>5, WriteKeeps
  <2>6. CASE WriteCut(l) BY <2>6, WriteCutKeeps
  <2>7. CASE WriteFails(l) BY <2>7, WriteFailsKeeps
  <2>8. CASE EndOfStream(l) BY <2>8, EndOfStreamKeeps
  <2> QED BY <1>3, <2>1, <2>2, <2>3, <2>4, <2>5, <2>6, <2>7, <2>8 DEF BridgeStep
<1>4. ASSUME NEW l \in Links, ConsoleLine(l) PROVE IInv'
  BY <1>4, ConsoleLineKeeps
<1> QED BY <1>1, <1>2, <1>3, <1>4 DEF Next

\* The invariant the others rest on: at every link frames reach the bridge
\* whole, in the order they were sent, and every request a session wrote is
\* accounted for; replies are replies to what was carried out.
THEOREM Inductive == Spec => []IInv
<1>1. Init => IInv
  BY InitKept
<1>2. IInv /\ [Next]_vars => IInv'
  BY NextKeeps
<1> QED BY <1>1, <1>2, PTL DEF Spec

\* Every variable of the command path has its type.
THEOREM TypeCorrect == Spec => []TypeOK
<1>1. IInv => TypeOK
  BY DEF IInv
<1> QED BY <1>1, Inductive, PTL

-----------------------------------------------------------------------------
(* What it says of the requests. *)

\* Every request a session wrote was carried out, or ended with its connection
\* or its half-written frame, or is at hand, or is on its way.
NoneForgotten ==
  \A l \in Links : \A c \in 1..host[l].calls :
    \/ c \in executed[l] \cup lost[l]
    \/ bridge[l].phase \in {"asking", "running"} /\ bridge[l].doing.id = c
    \/ \E k \in 1..Len(conns[l]) : \E i \in 1..Len(conns[l][k].up) :
         conns[l][k].up[i] = Final(conns[l][k].up[i].of) /\ conns[l][k].up[i].of.id = c

\* serve_bridge and Transport::send together: however sessions come and go, are
\* killed in the middle of a write or share a pipe, no request disappears.
THEOREM NothingForgotten == Spec => []NoneForgotten
<1>1. IInv => NoneForgotten
  <2> SUFFICES ASSUME IInv, NEW l \in Links, NEW c \in 1..host[l].calls,
                      c \notin executed[l] \cup lost[l],
                      ~(bridge[l].phase \in {"asking", "running"} /\ bridge[l].doing.id = c)
               PROVE  \E k \in 1..Len(conns[l]) : \E i \in 1..Len(conns[l][k].up) :
                        /\ conns[l][k].up[i] = Final(conns[l][k].up[i].of)
                        /\ conns[l][k].up[i].of.id = c
    BY DEF NoneForgotten
  <2>1. TypeOK /\ Requests(l)
    BY Known
  <2>2. /\ Len(Ups(l)) = Len(conns[l])
        /\ \A k \in 1..Len(conns[l]) : Ups(l)[k] = conns[l][k].up
        /\ \A k \in 1..Len(conns[l]) : conns[l][k] \in ConnType
    BY <2>1, UpsIs, Parts
  <2>3. OnItsWay(Ups(l), c)
    BY <2>1 DEF Requests, Requested, Accounted, Asked
  <2>4. PICK k \in 1..Len(conns[l]) : \E i \in 1..Len(conns[l][k].up) :
          conns[l][k].up[i].part = "final" /\ conns[l][k].up[i].of.id = c
    BY <2>2, <2>3 DEF OnItsWay
  <2>5. PICK i \in 1..Len(conns[l][k].up) :
          conns[l][k].up[i].part = "final" /\ conns[l][k].up[i].of.id = c
    BY <2>4
  <2>6. conns[l][k].up[i] \in Pieces
    BY <2>2 DEF ConnType
  <2>7. conns[l][k].up[i] = Final(conns[l][k].up[i].of)
    BY <2>5, <2>6 DEF Pieces, Final
  <2> QED BY <2>5, <2>7
<1> QED BY <1>1, Inductive, PTL

\* What is not bridge_command neither carries out nor interrupts what it does.
LEMMA OnlyRun ==
  ASSUME IInv, [Next]_vars, NEW m \in Links, ~Run(m)
  PROVE  executed'[m] = executed[m] /\ ~CarriesOut(m)
<1>1. CASE UNCHANGED vars
  BY <1>1 DEF vars, history, CarriesOut
<1>2. ASSUME NEW l \in Links, HostStep(l) \/ BridgeStep(l) \/ ConsoleLine(l)
      PROVE  executed'[m] = executed[m] /\ ~CarriesOut(m)
  <2>1. bridge \in [Links -> BridgeType] /\ executed \in [Links -> SUBSET Calls]
    BY Known DEF TypeOK, BridgeType
  <2>2. CASE HostStep(l) \/ ConsoleLine(l)
    <3>1. executed' = executed /\ bridge' = bridge
      BY <2>2, Zenon DEF HostStep, Open, Close, Send, DieSending, Receive, Discard,
                         Unidentified, Read, Timeout, ConsoleLine, history
    <3> QED BY <3>1 DEF CarriesOut
  <2>3. CASE Run(l)
    <3>1. l # m
      BY <2>3
    <3>2. bridge'[m] = bridge[m] /\ executed'[m] = executed[m]
      BY <2>1, <2>3, <3>1 DEF Run
    <3> QED BY <3>2 DEF CarriesOut
  <2>4. CASE Accept(l) \/ Take(l) \/ Lock(l) \/ Write(l) \/ WriteCut(l) \/ WriteFails(l)
             \/ EndOfStream(l)
    <3>1. executed' = executed
      BY <2>4, Zenon DEF Accept, Take, Lock, Write, WriteCut, WriteFails, EndOfStream,
                         history
    <3>2. /\ bridge[l].phase # "running"
          /\ \E e : bridge' = [bridge EXCEPT ![l] = e]
      <4>1. CASE Accept(l)
        <5>1. bridge[l].phase = "reading"
          BY <4>1, Known DEF Accept, Shaped, Serving
        <5>2. bridge' = [bridge EXCEPT ![l].serving = TRUE, ![l].frame = <<>>]
          BY <4>1 DEF Accept
        <5> QED BY <5>1, <5>2
      <4>2. CASE Take(l)
        <5>1. bridge[l].phase = "reading"
          BY <4>2 DEF Take
        <5> DEFINE f == Append(bridge[l].frame, Head(Upstream(l)))
                   p == Head(Upstream(l))
        <5>2. bridge' = [bridge EXCEPT ![l] =
                IF p.part = "first" THEN [@ EXCEPT !.frame = f]
                ELSE IF Decodes(f)
                     THEN [@ EXCEPT !.frame = <<>>, !.phase = "asking", !.doing = p.of]
                     ELSE [@ EXCEPT !.frame = <<>>]]
          BY <4>2, Zenon DEF Take
        <5> HIDE DEF f, p
        <5> QED BY <5>1, <5>2
      <4>3. CASE Lock(l)
        BY <4>3 DEF Lock
      <4>4. CASE Write(l)
        <5>1. bridge[l].phase = "writing" /\ bridge' = [bridge EXCEPT ![l] = Idle(@)]
          BY <4>4, Zenon DEF Write
        <5> QED BY <5>1
      <4>5. CASE WriteCut(l)
        <5>1. bridge[l].phase = "writing" /\ bridge' = [bridge EXCEPT ![l] = Idle(@)]
          BY <4>5, Zenon DEF WriteCut
        <5> QED BY <5>1
      <4>6. CASE WriteFails(l) \/ EndOfStream(l)
        <5>1. bridge[l].phase \in {"writing", "reading"}
          BY <4>6 DEF WriteFails, EndOfStream
        <5>2. bridge' = [bridge EXCEPT ![l] =
                           [Idle(@) EXCEPT !.serving = FALSE, !.frame = <<>>]]
          BY <4>6, Zenon DEF WriteFails, EndOfStream, Dropped
        <5> QED BY <5>1, <5>2
      <4> QED BY <2>4, <4>1, <4>2, <4>3, <4>4, <4>5, <4>6
    <3>4. bridge'[m] = bridge[m] \/ m = l
      BY <2>1, <3>2
    <3> QED BY <3>1, <3>2, <3>4 DEF CarriesOut
  <2> QED BY <1>2, <2>2, <2>3, <2>4 DEF BridgeStep
<1> QED BY <1>1, <1>2 DEF Next

\* Though frames of many sessions share a pipe, and their sequence numbers start
\* again, serve_bridge carries out requests in the order they were made, never
\* one twice, nor one of which only half was written.
THEOREM CarriedOutInOrder == Spec => CarriedOutOnce
<1>1. ASSUME IInv, [Next]_vars PROVE [OnceInOrder]_vars
  <2> SUFFICES ASSUME NEW l \in Links
               PROVE  /\ CarriesOut(l) =>
                           /\ bridge[l].doing.id \in
                                (1..host[l].calls) \ (executed[l] \cup lost[l])
                           /\ \A d \in executed[l] : d < bridge[l].doing.id
                           /\ executed'[l] = executed[l] \cup {bridge[l].doing.id}
                      /\ ~CarriesOut(l) => executed'[l] = executed[l]
    BY DEF OnceInOrder
  <2>1. CASE ~Run(l)
    BY <1>1, <2>1, OnlyRun
  <2>2. CASE Run(l)
    <3>1. bridge \in [Links -> BridgeType] /\ executed \in [Links -> SUBSET Calls]
      BY <1>1, Known DEF TypeOK, BridgeType
    <3>2. /\ executed'[l] = executed[l] \cup {bridge[l].doing.id}
          /\ CarriesOut(l)
      BY <2>2, <3>1 DEF Run, CarriesOut, BridgeType
    <3>3. AtHand(bridge[l], host[l].calls, executed[l], lost[l]) /\ Asked(bridge[l])
          /\ Past(host[l].calls, executed[l], lost[l])
      BY <1>1, <2>2, Known DEF Requests, Requested, Run, Asked
    <3>4. \A d \in executed[l] : d \in Nat /\ d < bridge[l].doing.id
      BY <3>3 DEF AtHand, Past
    <3>5. bridge[l].doing.id \notin executed[l]
      BY <3>4
    <3>6. bridge[l].doing.id \in (1..host[l].calls) \ (executed[l] \cup lost[l])
      BY <3>3, <3>5 DEF AtHand
    <3> QED BY <3>2, <3>4, <3>6
  <2> QED BY <2>1, <2>2
<1> QED BY <1>1, Inductive, PTL DEF Spec, CarriedOutOnce

-----------------------------------------------------------------------------
(* The bridge is a remote procedure call. *)

\* The calls of a link, as Rpc sees them.
CallsOf(calls, done, gone) ==
  [c \in Calls |-> IF c > calls THEN "unmade"
                   ELSE IF c \in done THEN "done"
                   ELSE IF c \in gone THEN "lost" ELSE "queued"]
IdsOf(s) == [i \in 1..Len(s) |-> s[i].id]

Calling == [l \in Links |-> CallsOf(host[l].calls, executed[l], lost[l])]
Waiting == [l \in Links |-> IdsOf(host[l].inflight)]
Given   == [l \in Links |-> got[l].had]

\* One more call is made: it was not, all before it were, and it is queued or,
\* given up at once, lost.
Grows(calls, done, gone) ==
  /\ CallsOf(calls, done, gone)[calls + 1] = "unmade"
  /\ \A d \in 1..calls : d \in Calls => CallsOf(calls, done, gone)[d] # "unmade"
  /\ CallsOf(calls + 1, done, gone) = [CallsOf(calls, done, gone) EXCEPT ![calls + 1] = "queued"]
  /\ CallsOf(calls + 1, done, gone \cup {calls + 1})
       = [CallsOf(calls, done, gone) EXCEPT ![calls + 1] = "lost"]

LEMMA CallMade ==
  ASSUME NEW calls \in Nat, calls + 1 \in Calls, NEW done, NEW gone, Past(calls, done, gone)
  PROVE  Grows(calls, done, gone)
<1>1. \A c \in Calls : c \in Nat
  BY Numbers
<1>2. calls + 1 \notin done /\ calls + 1 \notin gone /\ calls + 1 > calls
  BY DEF Past
<1>3. \A c \in Calls : c > calls + 1 <=> c > calls /\ c # calls + 1
  BY <1>1
<1>4. CallsOf(calls, done, gone)[calls + 1] = "unmade"
  BY <1>2 DEF CallsOf
<1>5. \A d \in 1..calls : d \in Calls => CallsOf(calls, done, gone)[d] # "unmade"
  <2>1. \A d \in 1..calls : ~(d > calls)
    OBVIOUS
  <2> QED BY <2>1 DEF CallsOf
<1>6. CallsOf(calls + 1, done, gone) = [CallsOf(calls, done, gone) EXCEPT ![calls + 1] = "queued"]
  BY <1>2, <1>3 DEF CallsOf
<1>7. CallsOf(calls + 1, done, gone \cup {calls + 1})
        = [CallsOf(calls, done, gone) EXCEPT ![calls + 1] = "lost"]
  BY <1>2, <1>3 DEF CallsOf
<1> QED BY <1>4, <1>5, <1>6, <1>7 DEF Grows

LEMMA CallDone ==
  ASSUME NEW calls \in Nat, NEW done, NEW gone, NEW c \in Calls, c \in 1..calls,
         c \notin done, c \notin gone
  PROVE  /\ CallsOf(calls, done, gone)[c] = "queued"
         /\ CallsOf(calls, done \cup {c}, gone) = [CallsOf(calls, done, gone) EXCEPT ![c] = "done"]
<1>1. ~(c > calls)
  OBVIOUS
<1> QED BY <1>1 DEF CallsOf

LEMMA IdsFacts ==
  /\ IdsOf(<<>>) = <<>>
  /\ \A s \in Seq(Messages) : IdsOf(s) \in Seq(Calls)
  /\ \A s \in Seq(Messages) : s # <<>> =>
       /\ IdsOf(s) # <<>> /\ Head(IdsOf(s)) = Head(s).id
       /\ Tail(IdsOf(s)) = IdsOf(Tail(s))
  /\ \A s \in Seq(Messages) : \A m \in Messages : IdsOf(Append(s, m)) = Append(IdsOf(s), m.id)
<1>1. \A m \in Messages : m.id \in Calls
  BY DEF Messages
<1>2. ASSUME NEW s \in Seq(Messages)
      PROVE  /\ IdsOf(s) \in Seq(Calls) /\ Len(IdsOf(s)) = Len(s) /\ Len(s) \in Nat
             /\ \A i \in 1..Len(s) : IdsOf(s)[i] = s[i].id /\ s[i] \in Messages
  <2>1. Len(s) \in Nat /\ \A i \in 1..Len(s) : s[i] \in Messages
    OBVIOUS
  <2>2. \A i \in 1..Len(s) : s[i].id \in Calls
    BY <1>1, <2>1
  <2> QED BY <2>1, <2>2 DEF IdsOf
<1>3. IdsOf(<<>>) = <<>>
  BY DEF IdsOf
<1>4. ASSUME NEW s \in Seq(Messages), s # <<>>
      PROVE  /\ IdsOf(s) # <<>> /\ Head(IdsOf(s)) = Head(s).id
             /\ Tail(IdsOf(s)) = IdsOf(Tail(s))
  <2>1. /\ Len(s) \in Nat \ {0} /\ Tail(s) \in Seq(Messages) /\ Len(Tail(s)) = Len(s) - 1
        /\ \A i \in 1..Len(Tail(s)) : Tail(s)[i] = s[i + 1]
        /\ Head(s) = s[1]
    BY <1>4
  <2>2. IdsOf(s) # <<>> /\ 1 \in 1..Len(s)
    BY <1>2, <2>1
  <2>3. Head(IdsOf(s)) = Head(s).id
    <3>1. Head(IdsOf(s)) = IdsOf(s)[1]
      BY <1>2, <2>2
    <3> QED BY <1>2, <2>1, <2>2, <3>1
  <2> DEFINE a == Tail(IdsOf(s))
             b == IdsOf(Tail(s))
  <2>4. a \in Seq(Calls) /\ Len(a) = Len(s) - 1 /\ \A i \in 1..Len(a) : a[i] = IdsOf(s)[i + 1]
    <3>1. IdsOf(s) \in Seq(Calls) /\ IdsOf(s) # <<>> /\ Len(IdsOf(s)) = Len(s)
      BY <1>2, <2>2
    <3> QED BY <3>1, HeadTailProperties
  <2>5. b \in Seq(Calls) /\ Len(b) = Len(s) - 1 /\ \A i \in 1..Len(b) : b[i] = Tail(s)[i].id
    BY <1>2, <2>1, Zenon
  <2>6. \A i \in 1..Len(a) : a[i] = b[i]
    <3>1. \A i \in 1..Len(a) : i + 1 \in 1..Len(s) /\ i \in 1..Len(Tail(s)) /\ i \in 1..Len(b)
      BY <2>1, <2>4, <2>5
    <3> HIDE DEF a, b
    <3> QED BY <1>2, <2>1, <2>4, <2>5, <3>1
  <2> HIDE DEF a, b
  <2>7. a = b
    BY <2>4, <2>5, <2>6, SeqEqual
  <2> QED BY <2>2, <2>3, <2>7 DEF a, b
<1>5. ASSUME NEW s \in Seq(Messages), NEW m \in Messages
      PROVE  IdsOf(Append(s, m)) = Append(IdsOf(s), m.id)
  <2> DEFINE t == Append(s, m)
             a == IdsOf(t)
             b == Append(IdsOf(s), m.id)
  <2>1. t \in Seq(Messages) /\ Len(t) = Len(s) + 1 /\ t[Len(s) + 1] = m
        /\ \A i \in 1..Len(s) : t[i] = s[i]
    OBVIOUS
  <2> HIDE DEF t
  <2>2. a \in Seq(Calls) /\ Len(a) = Len(s) + 1 /\ \A i \in 1..Len(a) : a[i] = t[i].id
    BY <1>2, <2>1
  <2>3. b \in Seq(Calls) /\ Len(b) = Len(s) + 1 /\ b[Len(s) + 1] = m.id
        /\ \A i \in 1..Len(s) : b[i] = IdsOf(s)[i]
    BY <1>1, <1>2
  <2> HIDE DEF a, b
  <2>4. ASSUME NEW i \in 1..Len(a) PROVE a[i] = b[i]
    <3>1. Len(s) \in Nat
      BY <1>2
    <3>2. CASE i = Len(s) + 1
      BY <2>1, <2>2, <2>3, <3>2
    <3>3. CASE i \in 1..Len(s)
      BY <1>2, <2>1, <2>2, <2>3, <3>3
    <3> QED BY <2>2, <3>1, <3>2, <3>3
  <2>5. a = b
    BY <2>2, <2>3, <2>4, SeqEqual
  <2> QED BY <2>5 DEF a, b, t
<1> QED BY <1>2, <1>3, <1>4, <1>5

\* The steps of Rpc, in these terms.
LEMMA AsRpc ==
  /\ \A l, c :
       /\ Calling[l][c] = "unmade" /\ \A d \in 1..(c - 1) : Calling[l][d] # "unmade"
       /\ Given' = Given
       /\ \/ /\ Calling' = [Calling EXCEPT ![l][c] = "queued"]
             /\ Waiting' = [Waiting EXCEPT ![l] = Append(@, c)]
          \/ /\ Calling' = [Calling EXCEPT ![l][c] = "lost"]
             /\ Waiting' = [Waiting EXCEPT ![l] = <<>>]
       => rpc!Make(l, c)
  /\ \A l, c :
       /\ Calling[l][c] = "queued" /\ \A d \in 1..(c - 1) : Calling[l][d] # "queued"
       /\ Calling' = [Calling EXCEPT ![l][c] = "done"]
       /\ Waiting' = Waiting /\ Given' = Given
       => rpc!CarryOut(l, c)
  /\ \A l, E :
       /\ E # {} /\ \A c \in E : Calling[l][c] = "queued"
       /\ Calling' = [Calling EXCEPT ![l] =
            [c \in Calls |-> IF c \in E THEN "lost" ELSE Calling[l][c]]]
       /\ Waiting' = Waiting /\ Given' = Given
       => rpc!Lose(l, E)
  /\ \A l, c :
       /\ Waiting[l] # <<>> /\ Calling[l][c] = "done"
       /\ c = Head(Waiting[l]) \/ (l \in Links \ Streams /\ c < Head(Waiting[l]))
       /\ Given' = [Given EXCEPT ![l] = c]
       /\ Waiting' = [Waiting EXCEPT ![l] = Tail(Waiting[l])]
       /\ Calling' = Calling
       => rpc!Answer(l, c)
  /\ \A l :
       /\ Waiting[l] # <<>> /\ Waiting' = [Waiting EXCEPT ![l] = <<>>]
       /\ Calling' = Calling /\ Given' = Given
       => rpc!GiveUp(l)
  /\ Calling' = Calling /\ Waiting' = Waiting /\ Given' = Given
     => UNCHANGED rpc!vars
<1>1. ASSUME NEW l, NEW c,
             Calling[l][c] = "unmade", \A d \in 1..(c - 1) : Calling[l][d] # "unmade",
             Given' = Given,
             \/ /\ Calling' = [Calling EXCEPT ![l][c] = "queued"]
                /\ Waiting' = [Waiting EXCEPT ![l] = Append(@, c)]
             \/ /\ Calling' = [Calling EXCEPT ![l][c] = "lost"]
                /\ Waiting' = [Waiting EXCEPT ![l] = <<>>]
      PROVE  rpc!Make(l, c)
  BY <1>1, Zenon DEF rpc!Make, Calling, CallsOf, Waiting, IdsOf, Given
<1>2. ASSUME NEW l, NEW c,
             Calling[l][c] = "queued", \A d \in 1..(c - 1) : Calling[l][d] # "queued",
             Calling' = [Calling EXCEPT ![l][c] = "done"],
             Waiting' = Waiting, Given' = Given
      PROVE  rpc!CarryOut(l, c)
  BY <1>2, Zenon DEF rpc!CarryOut, Calling, CallsOf, Waiting, IdsOf, Given
<1>3. ASSUME NEW l, NEW E, E # {}, \A c \in E : Calling[l][c] = "queued",
             Calling' = [Calling EXCEPT ![l] =
               [c \in Calls |-> IF c \in E THEN "lost" ELSE Calling[l][c]]],
             Waiting' = Waiting, Given' = Given
      PROVE  rpc!Lose(l, E)
  BY <1>3, Zenon DEF rpc!Lose, Calling, CallsOf, Waiting, IdsOf, Given
<1>4. ASSUME NEW l, NEW c, Waiting[l] # <<>>, Calling[l][c] = "done",
             c = Head(Waiting[l]) \/ (l \in Links \ Streams /\ c < Head(Waiting[l])),
             Given' = [Given EXCEPT ![l] = c],
             Waiting' = [Waiting EXCEPT ![l] = Tail(Waiting[l])],
             Calling' = Calling
      PROVE  rpc!Answer(l, c)
  BY <1>4, Zenon DEF rpc!Answer, Calling, CallsOf, Waiting, IdsOf, Given
<1>5. ASSUME NEW l, Waiting[l] # <<>>, Waiting' = [Waiting EXCEPT ![l] = <<>>],
             Calling' = Calling, Given' = Given
      PROVE  rpc!GiveUp(l)
  BY <1>5, Zenon DEF rpc!GiveUp, Calling, CallsOf, Waiting, IdsOf, Given
<1>6. ASSUME Calling' = Calling, Waiting' = Waiting, Given' = Given
      PROVE  UNCHANGED rpc!vars
  BY <1>6 DEF rpc!vars, Calling, CallsOf, Waiting, IdsOf, Given
<1> QED BY <1>1, <1>2, <1>3, <1>4, <1>5, <1>6

LEMMA InitAsRpc == Init => rpc!Init
<1> SUFFICES ASSUME Init PROVE rpc!Init
  OBVIOUS
<1>1. \A c \in Calls : c > 0
  BY Numbers
<1>2. ASSUME NEW l \in Links
      PROVE  /\ host[l].calls = 0 /\ host[l].inflight = <<>> /\ got[l].had = 0
             /\ \A c \in Calls : c > host[l].calls
  BY <1>1 DEF Init
<1>5. \A l \in Links : IdsOf(host[l].inflight) = <<>>
  BY <1>2, IdsFacts
<1>6. Waiting = [l \in Links |-> <<>>]
  BY <1>5 DEF Waiting
<1>7. Calling = [l \in Links |-> [c \in Calls |-> "unmade"]]
  BY <1>2 DEF Calling, CallsOf
<1>8. Given = [l \in Links |-> 0]
  BY <1>2 DEF Given
<1> QED BY <1>6, <1>7, <1>8 DEF rpc!Init, Calling, CallsOf, Waiting, IdsOf, Given

\* One link at a time.
LEMMA OneLink ==
  ASSUME NEW l \in Links, host' = [host EXCEPT ![l] = host'[l]],
         executed' = [executed EXCEPT ![l] = executed'[l]],
         lost' = [lost EXCEPT ![l] = lost'[l]],
         host \in [Links -> HostType], executed \in [Links -> SUBSET Calls],
         lost \in [Links -> SUBSET Calls]
  PROVE  /\ Calling' = [Calling EXCEPT ![l] = CallsOf(host'[l].calls, executed'[l], lost'[l])]
         /\ Waiting' = [Waiting EXCEPT ![l] = IdsOf(host'[l].inflight)]
         /\ Calling[l] = CallsOf(host[l].calls, executed[l], lost[l])
         /\ Waiting[l] = IdsOf(host[l].inflight)
         /\ [Calling EXCEPT ![l] = Calling[l]] = Calling
         /\ [Waiting EXCEPT ![l] = Waiting[l]] = Waiting
<1>1. \A m \in Links \ {l} : host'[m] = host[m] /\ executed'[m] = executed[m] /\ lost'[m] = lost[m]
  OBVIOUS
<1>2. Calling' = [m \in Links |-> CallsOf(host'[m].calls, executed'[m], lost'[m])]
  BY DEF Calling, CallsOf
<1>3. Waiting' = [m \in Links |-> IdsOf(host'[m].inflight)]
  BY DEF Waiting, IdsOf
<1>4. Calling' = [Calling EXCEPT ![l] = CallsOf(host'[l].calls, executed'[l], lost'[l])]
  BY <1>1, <1>2 DEF Calling
<1>5. Waiting' = [Waiting EXCEPT ![l] = IdsOf(host'[l].inflight)]
  BY <1>1, <1>3 DEF Waiting
<1> QED BY <1>4, <1>5 DEF Calling, Waiting

\* What Rpc sees nothing of.
LEMMA Unseen ==
  ASSUME TypeOK, NEW l \in Links, host' = [host EXCEPT ![l] = host'[l]],
         host'[l].calls = host[l].calls, host'[l].inflight = host[l].inflight,
         UNCHANGED <<executed, lost, got>>
  PROVE  UNCHANGED rpc!vars
<1>1. /\ host \in [Links -> HostType] /\ executed \in [Links -> SUBSET Calls]
      /\ lost \in [Links -> SUBSET Calls]
  BY Parts DEF TypeOK
<1>2. executed' = [executed EXCEPT ![l] = executed'[l]] /\ lost' = [lost EXCEPT ![l] = lost'[l]]
  BY <1>1
<1>3. Calling' = Calling /\ Waiting' = Waiting
  BY <1>1, <1>2, OneLink
<1>4. Given' = Given
  BY DEF Given
<1> QED BY <1>3, <1>4, AsRpc

\* A session that stops waiting.
LEMMA Abandoned ==
  ASSUME TypeOK, NEW l \in Links, host' = [host EXCEPT ![l] = host'[l]],
         host'[l].calls = host[l].calls, host'[l].inflight = <<>>,
         UNCHANGED <<executed, lost, got>>
  PROVE  [rpc!Next]_(rpc!vars)
<1>1. /\ host \in [Links -> HostType] /\ executed \in [Links -> SUBSET Calls]
      /\ lost \in [Links -> SUBSET Calls]
  BY Parts DEF TypeOK
<1>2. executed' = [executed EXCEPT ![l] = executed'[l]] /\ lost' = [lost EXCEPT ![l] = lost'[l]]
  BY <1>1
<1>3. Calling' = Calling /\ Waiting' = [Waiting EXCEPT ![l] = <<>>]
  BY <1>1, <1>2, OneLink, IdsFacts
<1>4. Given' = Given
  BY DEF Given
<1>5. CASE Waiting[l] # <<>>
  <2>1. rpc!GiveUp(l)
    BY <1>3, <1>4, <1>5, AsRpc
  <2> QED BY <2>1 DEF rpc!Next
<1>6. CASE Waiting[l] = <<>>
  <2>1. Waiting' = Waiting
    BY <1>1, <1>2, <1>3, <1>6, OneLink
  <2> QED BY <1>3, <1>4, <2>1, AsRpc
<1> QED BY <1>5, <1>6

LEMMA HostSteps ==
  ASSUME IInv, NEW l \in Links,
         Open(l) \/ Close(l) \/ Unidentified(l) \/ Timeout(l) \/ Discard(l) \/ Read(l)
  PROVE  [rpc!Next]_(rpc!vars)
<1>1. TypeOK /\ host \in [Links -> HostType] /\ host[l] \in HostType
  BY Known, Parts
<1>2. /\ Closed(host[l]).inflight = <<>> /\ Closed(host[l]).calls = host[l].calls
      /\ Closed(host[l]) \in HostType
  BY <1>1, ClosedIs
<1>3. CASE Close(l) \/ Unidentified(l)
  <2>1. host' = [host EXCEPT ![l] = Closed(host[l])] /\ UNCHANGED <<executed, lost, got>>
    BY <1>3 DEF Close, Unidentified, history
  <2>2. host'[l] = Closed(host[l])
    BY <1>1, <2>1
  <2> QED BY <1>1, <1>2, <2>1, <2>2, Abandoned
<1>4. CASE Open(l)
  <2> DEFINE c == Closed(host[l])
             h == [c EXCEPT !.open = TRUE, !.sessions = host[l].sessions + 1]
  <2>1. host' = [host EXCEPT ![l] = h] /\ UNCHANGED <<executed, lost, got>>
    BY <1>4 DEF Open, history
  <2>2. c.inflight = <<>> /\ c.calls = host[l].calls /\ c \in HostType
    BY <1>2
  <2> HIDE DEF c
  <2>3. h.inflight = <<>> /\ h.calls = host[l].calls
    BY <2>2 DEF HostType
  <2> HIDE DEF h
  <2>4. host'[l] = h
    BY <1>1, <2>1
  <2> QED BY <1>1, <2>1, <2>3, <2>4, Abandoned
<1>5. CASE Timeout(l)
  <2> DEFINE h == [host[l] EXCEPT !.inflight = <<>>]
  <2>1. host' = [host EXCEPT ![l] = h] /\ UNCHANGED <<executed, lost, got>>
    BY <1>5 DEF Timeout, history
  <2>2. h.inflight = <<>> /\ h.calls = host[l].calls
    BY <1>1 DEF HostType
  <2> HIDE DEF h
  <2>3. host'[l] = h
    BY <1>1, <2>1
  <2> QED BY <1>1, <2>1, <2>2, <2>3, Abandoned
<1>6. CASE Discard(l) \/ Read(l)
  <2>1. PICK s : host' = [host EXCEPT ![l] = [host[l] EXCEPT !.pending = s]]
    <3>1. CASE Discard(l)
      BY <3>1 DEF Discard
    <3>2. CASE Read(l)
      BY <3>2 DEF Read
    <3> QED BY <1>6, <3>1, <3>2
  <2>2. UNCHANGED <<executed, lost, got>>
    BY <1>6 DEF Discard, Read, history
  <2> DEFINE h == [host[l] EXCEPT !.pending = s]
  <2>3. h.inflight = host[l].inflight /\ h.calls = host[l].calls
    BY <1>1 DEF HostType
  <2> HIDE DEF h
  <2>4. host'[l] = h
    BY <1>1, <2>1 DEF h
  <2> QED BY <1>1, <2>1, <2>2, <2>3, <2>4, Unseen DEF h
<1> QED BY <1>3, <1>4, <1>5, <1>6

LEMMA BridgeSteps ==
  ASSUME IInv, NEW l \in Links,
         Accept(l) \/ Take(l) \/ Lock(l) \/ Write(l) \/ WriteCut(l) \/ ConsoleLine(l)
  PROVE  [rpc!Next]_(rpc!vars)
<1>1. TypeOK /\ host \in [Links -> HostType]
  BY Known, Parts
<1>2. UNCHANGED <<host, executed, lost, got>>
  <2>1. Accept(l) \/ Take(l) \/ Lock(l) \/ Write(l) => UNCHANGED <<host, executed, lost, got>>
    BY Zenon DEF Accept, Take, Lock, Write, history
  <2>2. WriteCut(l) => UNCHANGED <<host, executed, lost, got>>
    BY Zenon DEF WriteCut
  <2>3. ConsoleLine(l) => UNCHANGED <<host, executed, lost, got>>
    BY Zenon DEF ConsoleLine
  <2> QED BY <2>1, <2>2, <2>3, Zenon
<1>3. host' = [host EXCEPT ![l] = host'[l]]
  BY <1>1, <1>2
<1> QED BY <1>1, <1>2, <1>3, Unseen

\* Transport::send: the next call.
LEMMA MakeSteps ==
  ASSUME IInv, NEW l \in Links, Send(l) \/ DieSending(l)
  PROVE  rpc!Next
<1> DEFINE q == NextRequest(l)
           n == host[l].calls
<1>1. TypeOK /\ host \in [Links -> HostType] /\ host[l] \in HostType /\ Requests(l)
      /\ executed \in [Links -> SUBSET Calls] /\ lost \in [Links -> SUBSET Calls]
  BY Known, Parts DEF TypeOK
<1>2. /\ q \in Messages /\ q.id = n + 1 /\ n + 1 \in Calls /\ q.cmd \in Stages /\ n \in Nat
  BY NextRequestIs DEF Send, DieSending
<1>3. UNCHANGED <<executed, got>>
  BY DEF Send, DieSending
<1>4. Past(n, executed[l], lost[l])
  BY <1>1 DEF Requests, Requested
<1> HIDE DEF q, n
<1>5. /\ CallsOf(n, executed[l], lost[l])[n + 1] = "unmade"
      /\ \A d \in 1..n : d \in Calls => CallsOf(n, executed[l], lost[l])[d] # "unmade"
      /\ CallsOf(n + 1, executed[l], lost[l])
           = [CallsOf(n, executed[l], lost[l]) EXCEPT ![n + 1] = "queued"]
      /\ CallsOf(n + 1, executed[l], lost[l] \cup {n + 1})
           = [CallsOf(n, executed[l], lost[l]) EXCEPT ![n + 1] = "lost"]
  <2>1. Grows(n, executed[l], lost[l])
    BY <1>2, <1>4, CallMade
  <2> QED BY <2>1 DEF Grows
<1>6. Calling[l] = CallsOf(n, executed[l], lost[l]) /\ Waiting[l] = IdsOf(host[l].inflight)
      /\ Calling = [m \in Links |-> Calling[m]]
  BY DEF Calling, Waiting, n
<1>7. /\ Calling[l][n + 1] = "unmade"
      /\ \A d \in 1..((n + 1) - 1) : Calling[l][d] # "unmade"
  <2>1. (n + 1) - 1 = n /\ \A d \in 1..n : d \in Calls
    <3>1. \A d \in 1..n : d \in 1..(n + 1)
      BY <1>2
    <3> QED BY <1>2, <3>1, Numbers
  <2> QED BY <1>5, <1>6, <2>1
<1>8. Given' = Given
  BY <1>3 DEF Given
<1>9. executed' = [executed EXCEPT ![l] = executed'[l]] /\ executed'[l] = executed[l]
  BY <1>1, <1>3
<1>10. PICK c \in Calls : c = n + 1
  BY <1>2
<1>11. CASE Send(l)
  <2> DEFINE a == [host[l] EXCEPT !.sequence = q.seq]
             b == [a EXCEPT !.calls = q.id]
             h == [b EXCEPT !.inflight = Append(host[l].inflight, q)]
  <2>1. host' = [host EXCEPT ![l] = h] /\ lost' = lost
    BY <1>1, <1>11 DEF Send, q
  <2>2. a.inflight = host[l].inflight /\ b.calls = q.id
        /\ h.calls = n + 1 /\ h.inflight = Append(host[l].inflight, q)
    BY <1>1, <1>2 DEF HostType
  <2> HIDE DEF h
  <2>3. /\ host'[l] = h /\ host' = [host EXCEPT ![l] = host'[l]]
        /\ lost' = [lost EXCEPT ![l] = lost'[l]] /\ lost'[l] = lost[l]
    BY <1>1, <2>1
  <2>4. /\ Calling' = [Calling EXCEPT ![l] = CallsOf(n + 1, executed[l], lost[l])]
        /\ Waiting' = [Waiting EXCEPT ![l] = IdsOf(Append(host[l].inflight, q))]
    BY <1>1, <1>9, <2>2, <2>3, OneLink
  <2>5. Calling' = [Calling EXCEPT ![l][n + 1] = "queued"]
    BY <1>5, <1>6, <2>4
  <2>6. Waiting' = [Waiting EXCEPT ![l] = Append(Waiting[l], n + 1)]
    <3>1. host[l].inflight \in Seq(Messages)
      BY <1>1 DEF HostType
    <3>2. IdsOf(Append(host[l].inflight, q)) = Append(Waiting[l], n + 1)
      BY <1>2, <1>6, <3>1, IdsFacts
    <3> QED BY <2>4, <3>2
  <2>7. rpc!Make(l, c)
    BY <1>7, <1>8, <1>10, <2>5, <2>6, AsRpc
  <2> QED BY <2>7 DEF rpc!Next
<1>12. CASE DieSending(l)
  <2> DEFINE e == Closed(host[l])
             h == [e EXCEPT !.calls = q.id]
  <2>1. host' = [host EXCEPT ![l] = h] /\ lost' = [lost EXCEPT ![l] = lost[l] \cup {q.id}]
    BY <1>12 DEF DieSending, q
  <2>2. e \in HostType /\ e.inflight = <<>>
    BY <1>1, ClosedIs
  <2> HIDE DEF e
  <2>3. h.calls = n + 1 /\ h.inflight = <<>>
    BY <1>2, <2>2 DEF HostType
  <2> HIDE DEF h
  <2>4. /\ host'[l] = h /\ host' = [host EXCEPT ![l] = host'[l]]
        /\ lost' = [lost EXCEPT ![l] = lost'[l]] /\ lost'[l] = lost[l] \cup {n + 1}
    BY <1>1, <1>2, <2>1
  <2>5. /\ Calling' = [Calling EXCEPT ![l] = CallsOf(n + 1, executed[l], lost[l] \cup {n + 1})]
        /\ Waiting' = [Waiting EXCEPT ![l] = IdsOf(<<>>)]
    BY <1>1, <1>9, <2>3, <2>4, OneLink
  <2>6. Calling' = [Calling EXCEPT ![l][n + 1] = "lost"]
    BY <1>5, <1>6, <2>5
  <2>7. Waiting' = [Waiting EXCEPT ![l] = <<>>]
    BY <2>5, IdsFacts
  <2>8. rpc!Make(l, c)
    BY <1>7, <1>8, <1>10, <2>6, <2>7, AsRpc
  <2> QED BY <2>8 DEF rpc!Next
<1> QED BY <1>11, <1>12

\* bridge_command: the first call queued is carried out.
LEMMA RunStep ==
  ASSUME IInv, NEW l \in Links, Run(l)
  PROVE  rpc!Next
<1> DEFINE b == bridge[l]
           n == host[l].calls
           u == Ups(l)
<1>1. /\ TypeOK /\ host \in [Links -> HostType] /\ host[l] \in HostType /\ Requests(l) /\ Shaped(l)
      /\ executed \in [Links -> SUBSET Calls] /\ lost \in [Links -> SUBSET Calls]
      /\ b.phase = "running"
  BY Known, Parts DEF TypeOK, Run
<1>2. Requested(u, b, n, executed[l], lost[l])
  BY <1>1 DEF Requests
<1>3. n \in Nat
  <2>1. n \in {0} \cup Calls
    BY <1>1 DEF HostType
  <2> QED BY <2>1, Counted
<1>4. PICK c \in Calls : c = bridge[l].doing.id /\ c \in Nat
  <2>1. bridge[l].doing \in Messages
    BY <1>1 DEF Shaped
  <2> QED BY <2>1, Numbers DEF Messages
<1>5. /\ executed' = [executed EXCEPT ![l] = executed[l] \cup {c}]
      /\ UNCHANGED <<host, lost, kind, got>>
  BY <1>4 DEF Run
<1> HIDE DEF u, n
<1>6. /\ c \in 1..n /\ c \notin lost[l] /\ c \notin executed[l]
  <2>1. /\ c \in 1..n /\ c \notin lost[l] /\ \A d \in executed[l] : d < c
    BY <1>1, <1>2, <1>4 DEF Requested, AtHand, Asked
  <2> QED BY <1>4, <2>1
<1>7. ASSUME NEW d \in 1..(c - 1) PROVE d \in executed[l] \cup lost[l]
  <2>1. d \in 1..n /\ d < c /\ d # c /\ d \in Nat
    BY <1>3, <1>4, <1>6
  <2>2. d \in executed[l] \cup lost[l] \/ OnItsWay(u, d)
    BY <1>2, <1>4, <2>1 DEF Requested, Accounted
  <2>3. OnItsWay(u, d) => c < d
    <3>1. b.phase # "reading" /\ Later(u, b, n, executed[l], lost[l])
      BY <1>1, <1>2 DEF Requested
    <3> QED BY <1>4, <3>1 DEF OnItsWay, Later, LaterThan
  <2> QED BY <1>4, <2>1, <2>2, <2>3
<1> HIDE DEF b
<1>8. Calling[l] = CallsOf(n, executed[l], lost[l])
  BY DEF Calling, n
<1>9. Calling[l][c] = "queued" /\ \A d \in 1..(c - 1) : Calling[l][d] # "queued"
  <2>1. \A d \in 1..(c - 1) : d \in Calls
    <3>1. \A d \in 1..(c - 1) : d \in 1..c
      BY <1>4
    <3> QED BY <1>4, <3>1, Numbers
  <2>2. \A d \in 1..(c - 1) : CallsOf(n, executed[l], lost[l])[d] # "queued"
    BY <1>7, <2>1 DEF CallsOf
  <2>3. CallsOf(n, executed[l], lost[l])[c] = "queued"
    <3>1. ~(c > n)
      BY <1>3, <1>6
    <3> QED BY <1>6, <3>1 DEF CallsOf
  <2> QED BY <1>8, <2>2, <2>3
<1>10. /\ host' = [host EXCEPT ![l] = host'[l]] /\ host'[l] = host[l]
       /\ executed' = [executed EXCEPT ![l] = executed'[l]] /\ executed'[l] = executed[l] \cup {c}
       /\ lost' = [lost EXCEPT ![l] = lost'[l]] /\ lost'[l] = lost[l]
  BY <1>1, <1>5
<1>11. /\ Calling' = [Calling EXCEPT ![l] = CallsOf(n, executed[l] \cup {c}, lost[l])]
       /\ Waiting' = Waiting
  <2>1. /\ Calling' = [Calling EXCEPT ![l] = CallsOf(host'[l].calls, executed'[l], lost'[l])]
        /\ Waiting' = [Waiting EXCEPT ![l] = IdsOf(host'[l].inflight)]
        /\ Waiting[l] = IdsOf(host[l].inflight) /\ [Waiting EXCEPT ![l] = Waiting[l]] = Waiting
    BY <1>1, <1>10, OneLink
  <2>2. host'[l].calls = n
    BY <1>10 DEF n
  <2> QED BY <1>10, <2>1, <2>2
<1>12. Calling' = [Calling EXCEPT ![l][c] = "done"]
  <2>1. CallsOf(n, executed[l] \cup {c}, lost[l])
          = [CallsOf(n, executed[l], lost[l]) EXCEPT ![c] = "done"]
    BY <1>3, <1>6, CallDone
  <2> QED BY <1>8, <1>11, <2>1
<1>13. Given' = Given
  BY <1>5 DEF Given
<1>14. rpc!CarryOut(l, c)
  BY <1>9, <1>11, <1>12, <1>13, AsRpc
<1> QED BY <1>14 DEF rpc!Next

\* serve_bridge returns: what was still queued on the connection goes with it.
LEMMA LoseSteps ==
  ASSUME IInv, NEW l \in Links, WriteFails(l) \/ EndOfStream(l)
  PROVE  [rpc!Next]_(rpc!vars)
<1> DEFINE n == host[l].calls
           u == Ups(l)
<1>1. /\ TypeOK /\ host \in [Links -> HostType] /\ host[l] \in HostType /\ Requests(l) /\ Shaped(l)
      /\ executed \in [Links -> SUBSET Calls] /\ lost \in [Links -> SUBSET Calls]
  BY Known, Parts DEF TypeOK
<1>2. conns[l] # <<>>
  BY <1>1 DEF Shaped, WriteFails, EndOfStream
<1>3. Len(conns[l]) \in Nat \ {0} /\ Len(u) = Len(conns[l]) /\ u[1] = Upstream(l)
  <2>1. Len(conns[l]) \in Nat \ {0}
    BY <1>1, <1>2, FirstConn
  <2>2. 1 \in 1..Len(conns[l])
    BY <2>1
  <2> QED BY <1>1, <2>1, <2>2, UpsIs DEF Upstream
<1>4. PICK E \in SUBSET Calls :
        E = {c \in Calls : \E i \in 1..Len(Upstream(l)) :
               Upstream(l)[i].part = "final" /\ Upstream(l)[i].of.id = c}
  OBVIOUS
<1>5. /\ lost' = [lost EXCEPT ![l] = lost[l] \cup E]
      /\ UNCHANGED <<host, executed, kind, got>>
  BY <1>4 DEF WriteFails, EndOfStream, Dropped
<1>6. n \in Nat
  <2>1. n \in {0} \cup Calls
    BY <1>1 DEF HostType
  <2> QED BY <2>1, Counted
<1> HIDE DEF u, n
<1>7. Requested(u, bridge[l], n, executed[l], lost[l])
  BY <1>1 DEF Requests, u, n
<1>8. ASSUME NEW c \in E PROVE c \in 1..n /\ c \notin executed[l] /\ c \notin lost[l]
  <2>1. PICK i \in 1..Len(u[1]) : u[1][i].part = "final" /\ u[1][i].of.id = c
    BY <1>3, <1>4
  <2>2. 1 \in 1..Len(u)
    BY <1>3
  <2>3. LaterThan(c, bridge[l], n, executed[l], lost[l])
    BY <1>7, <2>1, <2>2 DEF Requested, Later
  <2>4. c \in Nat
    BY Numbers
  <2> QED BY <2>3, <2>4 DEF LaterThan
<1>9. /\ host' = [host EXCEPT ![l] = host'[l]] /\ host'[l] = host[l]
      /\ executed' = [executed EXCEPT ![l] = executed'[l]] /\ executed'[l] = executed[l]
      /\ lost' = [lost EXCEPT ![l] = lost'[l]] /\ lost'[l] = lost[l] \cup E
  BY <1>1, <1>5
<1>10. /\ Calling' = [Calling EXCEPT ![l] = CallsOf(n, executed[l], lost[l] \cup E)]
       /\ Waiting' = Waiting
       /\ Calling[l] = CallsOf(n, executed[l], lost[l])
  <2>1. /\ Calling' = [Calling EXCEPT ![l] = CallsOf(host'[l].calls, executed'[l], lost'[l])]
        /\ Waiting' = [Waiting EXCEPT ![l] = IdsOf(host'[l].inflight)]
        /\ Waiting[l] = IdsOf(host[l].inflight) /\ [Waiting EXCEPT ![l] = Waiting[l]] = Waiting
        /\ Calling[l] = CallsOf(host[l].calls, executed[l], lost[l])
    BY <1>1, <1>9, OneLink
  <2>2. host'[l].calls = n /\ host[l].calls = n
    BY <1>9 DEF n
  <2> QED BY <1>9, <2>1, <2>2
<1>11. Given' = Given
  BY <1>5 DEF Given
<1>12. CASE E = {}
  <2>1. lost' = lost
    BY <1>1, <1>5, <1>12
  <2> QED BY <1>1, <1>5, <1>9, <2>1, Unseen
<1>13. CASE E # {}
  <2>1. \A c \in E : Calling[l][c] = "queued"
    <3>1. \A c \in E : ~(c > n)
      BY <1>6, <1>8
    <3> QED BY <1>8, <1>10, <3>1 DEF CallsOf
  <2>2. CallsOf(n, executed[l], lost[l] \cup E)
          = [c \in Calls |-> IF c \in E THEN "lost" ELSE CallsOf(n, executed[l], lost[l])[c]]
    <3>1. E \subseteq 1..n /\ E \cap executed[l] = {}
      BY <1>8
    <3>2. \A c \in E : ~(c > n) /\ c \notin executed[l]
      BY <1>6, <3>1
    <3> QED BY <3>2 DEF CallsOf
  <2>3. Calling' = [Calling EXCEPT ![l] =
          [c \in Calls |-> IF c \in E THEN "lost" ELSE Calling[l][c]]]
    BY <1>10, <2>2
  <2>4. rpc!Lose(l, E)
    BY <1>10, <1>11, <1>13, <2>1, <2>3, AsRpc
  <2> QED BY <2>4 DEF rpc!Next
<1> QED BY <1>12, <1>13

\* The reply returned last is of no later request than the one awaited, and on a
\* stream of that one.
InTurn == \A l \in Links :
  /\ got[l].had <= got[l].want
  /\ l \in Streams => got[l].had = got[l].want

\* Transport::receive: the result of a call that was carried out, the awaited one
\* or, on a shared pipe, an earlier.
LEMMA AnswerStep ==
  ASSUME IInv, NEW l \in Links, Receive(l), InTurn'
  PROVE  rpc!Next
<1> DEFINE s == host[l].inflight
           w == Head(host[l].inflight).id
<1>1. /\ TypeOK /\ host \in [Links -> HostType] /\ host[l] \in HostType /\ Requests(l)
      /\ executed \in [Links -> SUBSET Calls] /\ lost \in [Links -> SUBSET Calls]
      /\ got \in [Links -> [want : {0} \cup Calls, had : {0} \cup Calls]]
  BY Known, Parts DEF TypeOK
<1>2. /\ Reply(l).id \in executed[l] /\ Reply(l).id \in Calls /\ Head(s) \in Messages
      /\ s \in Seq(Messages) /\ s # <<>>
  BY <1>1, ReplyIs DEF Receive, Awaiting, HostType
<1>3. PICK c \in Calls : c = Reply(l).id
  BY <1>2
<1>4. w \in Calls
  BY <1>2 DEF Messages
<1> DEFINE a == [host[l] EXCEPT !.pending = Rest(l)]
           b == [a EXCEPT !.inflight = Tail(s)]
           h == [b EXCEPT !.stage = NextStage(host[l].stage)]
<1>5. host' = [host EXCEPT ![l] = h]
  BY <1>1 DEF Receive
<1>6. /\ got' = [got EXCEPT ![l] = [want |-> w, had |-> c]]
      /\ UNCHANGED <<executed, lost, kind>>
  BY <1>3 DEF Receive, Returned
<1>7. h.calls = host[l].calls /\ h.inflight = Tail(s)
  <2>1. a.calls = host[l].calls /\ b.calls = a.calls /\ b.inflight = Tail(s)
    BY <1>1 DEF HostType
  <2> QED BY <1>1, <2>1 DEF HostType
<1> HIDE DEF h
<1>8. /\ host'[l] = h /\ host' = [host EXCEPT ![l] = host'[l]]
      /\ executed' = [executed EXCEPT ![l] = executed'[l]] /\ executed'[l] = executed[l]
      /\ lost' = [lost EXCEPT ![l] = lost'[l]] /\ lost'[l] = lost[l]
  BY <1>1, <1>5, <1>6
<1>9. /\ Calling' = [Calling EXCEPT ![l] = CallsOf(host'[l].calls, executed'[l], lost'[l])]
      /\ Waiting' = [Waiting EXCEPT ![l] = IdsOf(host'[l].inflight)]
      /\ Calling[l] = CallsOf(host[l].calls, executed[l], lost[l])
      /\ Waiting[l] = IdsOf(host[l].inflight)
      /\ [Calling EXCEPT ![l] = Calling[l]] = Calling
  BY <1>1, <1>8, OneLink
<1>10. Calling' = Calling
  BY <1>7, <1>8, <1>9
<1>11. /\ Waiting[l] # <<>> /\ Head(Waiting[l]) = w
       /\ Waiting' = [Waiting EXCEPT ![l] = Tail(Waiting[l])]
  <2>1. /\ IdsOf(s) # <<>> /\ Head(IdsOf(s)) = w /\ Tail(IdsOf(s)) = IdsOf(Tail(s))
    BY <1>2, IdsFacts
  <2> HIDE DEF w
  <2> QED BY <1>7, <1>8, <1>9, <2>1
<1>12. Given' = [Given EXCEPT ![l] = c]
  BY <1>1, <1>6 DEF Given
<1>13. Calling[l][c] = "done"
  <2>1. c \in executed[l] /\ ~(c > host[l].calls)
    <3>1. host[l].calls \in Nat
      <4>1. host[l].calls \in {0} \cup Calls
        BY <1>1 DEF HostType
      <4> QED BY <4>1, Counted
    <3>2. c \in executed[l] /\ c \in 1..host[l].calls
      BY <1>1, <1>2, <1>3 DEF Requests, Requested, Past
    <3> QED BY <3>1, <3>2
  <2> QED BY <1>9, <2>1 DEF CallsOf
<1>14. c = w \/ (l \in Links \ Streams /\ c < w)
  <2>1. got'[l].want = w /\ got'[l].had = c
    BY <1>1, <1>6
  <2>2. c <= w /\ (l \in Streams => c = w)
    BY <2>1 DEF InTurn
  <2>3. c \in Nat /\ w \in Nat
    BY <1>4, Counted
  <2> HIDE DEF w
  <2> QED BY <2>2, <2>3
<1> HIDE DEF w
<1>15. rpc!Answer(l, c)
  BY <1>6, <1>10, <1>11, <1>12, <1>13, <1>14, AsRpc
<1> QED BY <1>15 DEF rpc!Next

\* Every step of the command path is a step of Rpc or none.
LEMMA StepAsRpc == IInv /\ InTurn' /\ [Next]_vars => [rpc!Next]_(rpc!vars)
<1> SUFFICES ASSUME IInv, InTurn', [Next]_vars PROVE [rpc!Next]_(rpc!vars)
  OBVIOUS
<1>1. CASE UNCHANGED vars
  <2>1. UNCHANGED <<host, executed, lost, got>>
    BY <1>1 DEF vars, history
  <2>2. Calling' = Calling /\ Waiting' = Waiting /\ Given' = Given
    BY <2>1 DEF Calling, CallsOf, Waiting, IdsOf, Given
  <2> QED BY <2>1, <2>2, AsRpc
<1>2. ASSUME NEW l \in Links, HostStep(l) PROVE [rpc!Next]_(rpc!vars)
  <2>1. CASE Send(l) \/ DieSending(l)
    BY <2>1, MakeSteps
  <2>2. CASE Receive(l)
    BY <2>2, AnswerStep
  <2>3. CASE Open(l) \/ Close(l) \/ Unidentified(l) \/ Timeout(l) \/ Discard(l) \/ Read(l)
    BY <2>3, HostSteps
  <2> QED BY <1>2, <2>1, <2>2, <2>3 DEF HostStep
<1>3. ASSUME NEW l \in Links, BridgeStep(l) \/ ConsoleLine(l) PROVE [rpc!Next]_(rpc!vars)
  <2>1. CASE Run(l)
    BY <2>1, RunStep
  <2>2. CASE WriteFails(l) \/ EndOfStream(l)
    BY <2>2, LoseSteps
  <2>3. CASE Accept(l) \/ Take(l) \/ Lock(l) \/ Write(l) \/ WriteCut(l) \/ ConsoleLine(l)
    BY <2>3, BridgeSteps
  <2> QED BY <1>3, <2>1, <2>2, <2>3 DEF BridgeStep
<1> QED BY <1>1, <1>2, <1>3 DEF Next
=============================================================================
