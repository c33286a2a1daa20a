------------------------------- MODULE Bridge -------------------------------
(* The command path between host processes and the hub: Transport on the    *)
(* host, serve_bridge on the probe, one thread per link, the Hub mutex      *)
(* between them.                                                            *)
(*                                                                          *)
(* A frame is three pieces: the zero that separates it from whatever came   *)
(* before, the first of its bytes, and the last of them with the closing    *)
(* zero.  COBS and the CRC make a frame decodable exactly when its bytes    *)
(* arrive whole and alone.  Links outside Streams (USB Serial/JTAG) are one *)
(* pipe every session shares: what a closed session left unread is still    *)
(* there, and console text may fall between any two bytes for the host.     *)
(* A stream (TCP) gives every session a connection of its own.              *)
(***************************************************************************)
EXTENDS Naturals, Sequences, FiniteSets

CONSTANTS
  Links,       \* the links of the probe, each with its serve_bridge thread
  Streams,     \* those that are TCP
  Depth,       \* requests a host keeps in flight (fast-dump --depth n: n + 1)
  SeqModulus,  \* sequence numbers there are
  LinkRoom,    \* messages a link holds at once
  TxCapacity,  \* pieces a transmit buffer (USB, or a socket) holds unread
  ReadChunk,   \* pieces one read of the host returns at most
  PendingLimit,\* pieces the host buffers before it clears them
  MaxCalls, MaxSessions, MaxNoise \* bounds of the exploration, for each link

ASSUME BridgeAssumption ==
  /\ Streams \subseteq Links
  /\ {Depth, ReadChunk} \subseteq Nat \ {0}
  /\ {SeqModulus, LinkRoom, TxCapacity, PendingLimit} \subseteq Nat
  /\ {MaxCalls, MaxSessions, MaxNoise} \subseteq [Links -> Nat]
  /\ LinkRoom < SeqModulus \* Transport.sequence has 16 bits
  /\ 2 * ReadChunk <= PendingLimit \* 4 * (MAX_FRAME + 2) against one

VARIABLES
  host,    \* per link, the host process that has it open, and its Transport
  conns,   \* per link, its connections, the one being served first
  bridge,  \* per link, the state of its serve_bridge
  holder,  \* the link whose thread holds the Hub mutex
  noise,   \* per link, console lines printed
  executed, lost, spoiled, \* per link, history: what became of each request
  kind,    \* per link, history: the command of each request
  got      \* per link, history: the request whose reply was returned last

history == <<executed, lost, spoiled, kind, got>>
vars == <<host, conns, bridge, holder, noise, history>>

Calls == UNION {1..MaxCalls[l] : l \in Links}
\* with_transport says Hello and asks for Capabilities before anything else.
Stages == {"hello", "caps", "work"}
NextStage(s) == IF s = "hello" THEN "caps" ELSE "work"

Messages  == [seq : 0..(SeqModulus - 1), cmd : Stages, id : Calls]
NoMessage == [seq |-> 0, cmd |-> "none", id |-> 0]
Pieces == [part : {"first", "final"}, of : Messages]
          \cup [part : {"gap", "text"}, of : {NoMessage}]

Gap      == [part |-> "gap", of |-> NoMessage]
Text     == [part |-> "text", of |-> NoMessage]
First(m) == [part |-> "first", of |-> m]
Final(m) == [part |-> "final", of |-> m]

-----------------------------------------------------------------------------
(* Framing. *)

\* A frame with no zero of its own in front.
FramedBare(m) == <<First(m), Final(m)>>
\* One write: the zero, the frame, its delimiter.
Framed(m) == <<Gap, First(m), Final(m)>>

Ends(s)     == {i \in 1..Len(s) : s[i].part \in {"gap", "final"}}
HasFrame(s) == Ends(s) # {}
FrameEnd(s) == CHOOSE i \in Ends(s) : \A j \in Ends(s) : i <= j
\* cobs_decode and decode_packet succeed on whole frames only.
Decodes(s)  == /\ Len(s) = 2
               /\ s[1].part = "first" /\ s[2].part = "final"
               /\ s[1].of = s[2].of

\* Message m stands whole and alone in s.
Whole(s, m) ==
  \E i \in 2..Len(s) :
    /\ s[i - 1] = First(m) /\ s[i] = Final(m)
    /\ i = 2 \/ s[i - 2].part \in {"gap", "final"}

Shortest(a, b) == IF a <= b THEN a ELSE b
From(s, i) == SubSeq(s, i, Len(s))

-----------------------------------------------------------------------------
(* The host: Transport, and the sessions that own it. *)

Closed(h) == [h EXCEPT !.open = FALSE, !.stage = "hello", !.sequence = 0,
                       !.inflight = <<>>, !.pending = <<>>]

Conn(l) == conns[l][Len(conns[l])]
WithConn(l, c) == [conns EXCEPT ![l][Len(conns[l])] = c]
\* Closing a stream discards what was not read.  Closing the port of a shared
\* pipe discards what the host's driver had taken; the probe keeps the rest.
Unread(l) == IF l \in Streams THEN {<<>>}
             ELSE {From(Conn(l).down, n) : n \in 1..(Len(Conn(l).down) + 1)}
HungUp(l) == {WithConn(l, [Conn(l) EXCEPT !.open = FALSE, !.down = d]) : d \in Unread(l)}

Open(l) ==
  /\ ~host[l].open /\ host[l].sessions < MaxSessions[l]
  /\ host' = [host EXCEPT ![l] = [Closed(@) EXCEPT !.open = TRUE,
                                      !.sessions = host[l].sessions + 1]]
  /\ conns' = IF l \in Streams
              THEN [conns EXCEPT ![l] = Append(@, [open |-> TRUE, up |-> <<>>,
                                                   down |-> <<>>])]
              ELSE WithConn(l, [Conn(l) EXCEPT !.open = TRUE])
  /\ UNCHANGED <<bridge, holder, noise, history>>

\* The session ends: its command line finished, failed or was killed.
Close(l) ==
  /\ host[l].open
  /\ host' = [host EXCEPT ![l] = Closed(@)]
  /\ conns' \in HungUp(l)
  /\ UNCHANGED <<bridge, holder, noise, history>>

\* Messages on their way, either direction; a full link blocks write_all.
Finals(s)  == {i \in DOMAIN s : s[i].part = "final"}
Carried(l) == Cardinality(Finals(host[l].pending \o Conn(l).down \o Conn(l).up))
              + (IF bridge[l].phase = "reading" THEN 0 ELSE 1)

\* A sequence number that does not wrap.
NextRequestUnwrapped(l) == [seq |-> host[l].sequence + 1,
                            cmd |-> host[l].stage, id |-> host[l].calls + 1]
NextRequest(l) == [seq |-> (host[l].sequence + 1) % SeqModulus,
                   cmd |-> host[l].stage, id |-> host[l].calls + 1]
MaySend(l) ==
  /\ host[l].open /\ host[l].calls < MaxCalls[l]
  /\ Carried(l) < LinkRoom
  /\ IF host[l].stage = "work" THEN Len(host[l].inflight) < Depth
                               ELSE host[l].inflight = <<>>

\* Transport::send
Send(l) ==
  /\ MaySend(l)
  /\ LET m == NextRequest(l) IN
     /\ host' = [host EXCEPT ![l].sequence = m.seq, ![l].calls = m.id,
                             ![l].inflight = Append(@, m)]
     /\ conns' = WithConn(l, [Conn(l) EXCEPT !.up = @ \o Framed(m)])
     /\ kind' = [kind EXCEPT ![l][m.id] = m.cmd]
  /\ UNCHANGED <<bridge, holder, noise, executed, lost, spoiled, got>>

\* The process dies between the two halves of its write.
DieSending(l) ==
  /\ MaySend(l)
  /\ LET m == NextRequest(l) IN
     /\ host' = [host EXCEPT ![l] = [Closed(@) EXCEPT !.calls = m.id]]
     /\ \E c \in HungUp(l) :
          conns' = [c EXCEPT ![l][Len(c[l])].up = @ \o <<Gap, First(m)>>]
     /\ kind' = [kind EXCEPT ![l][m.id] = m.cmd]
     /\ lost' = [lost EXCEPT ![l] = @ \cup {m.id}]
  /\ UNCHANGED <<bridge, holder, noise, executed, spoiled, got>>

\* The first frame receive has buffered, and whether it is the awaited reply.
NextFrame(l) == SubSeq(host[l].pending, 1, FrameEnd(host[l].pending))
Rest(l)      == From(host[l].pending, FrameEnd(host[l].pending) + 1)
Reply(l)     == NextFrame(l)[1].of
\* A reply taken for the awaited one whatever its number.
MineUnnumbered(l) == Decodes(NextFrame(l))
Mine(l) == Decodes(NextFrame(l)) /\ Reply(l).seq = Head(host[l].inflight).seq
Awaiting(l)  == host[l].open /\ host[l].inflight # <<>>
\* with_transport checks who answered Hello.
Identified(l) == host[l].stage = "hello" => Reply(l).cmd = "hello"

\* receive: what does not decode, or carries another number, is dropped.
Discard(l) ==
  /\ Awaiting(l) /\ HasFrame(host[l].pending) /\ ~Mine(l)
  /\ host' = [host EXCEPT ![l].pending = Rest(l)]
  /\ UNCHANGED <<conns, bridge, holder, noise, history>>

Returned(l) == [got EXCEPT ![l] = [want |-> Head(host[l].inflight).id,
                                   had |-> Reply(l).id]]

\* receive when its buffer was a local of one call.
ReceiveLocal(l) ==
  /\ Awaiting(l) /\ HasFrame(host[l].pending) /\ Mine(l) /\ Identified(l)
  /\ host' = [host EXCEPT ![l].pending = <<>>, ![l].inflight = Tail(@),
                          ![l].stage = NextStage(@)]
  /\ got' = Returned(l)
  /\ UNCHANGED <<conns, bridge, holder, noise, executed, lost, spoiled, kind>>

\* The awaited reply is returned; what is buffered behind it stays.
Receive(l) ==
  /\ Awaiting(l) /\ HasFrame(host[l].pending) /\ Mine(l) /\ Identified(l)
  /\ host' = [host EXCEPT ![l].pending = Rest(l), ![l].inflight = Tail(@),
                          ![l].stage = NextStage(@)]
  /\ got' = Returned(l)
  /\ UNCHANGED <<conns, bridge, holder, noise, executed, lost, spoiled, kind>>

\* Something else answered Hello: the session is not opened.
Unidentified(l) ==
  /\ Awaiting(l) /\ HasFrame(host[l].pending) /\ Mine(l) /\ ~Identified(l)
  /\ host' = [host EXCEPT ![l] = Closed(@)]
  /\ conns' \in HungUp(l)
  /\ UNCHANGED <<bridge, holder, noise, history>>

\* Only then is the link read: as much as one call returns.
Read(l) ==
  LET h == host[l] IN
  /\ h.open /\ h.inflight # <<>> /\ ~HasFrame(h.pending)
  /\ \E n \in 1..Shortest(ReadChunk, Len(Conn(l).down)) :
       LET joined == h.pending \o SubSeq(Conn(l).down, 1, n) IN
       /\ host' = [host EXCEPT ![l].pending =
                     IF Len(joined) > PendingLimit THEN <<>> ELSE joined]
       /\ conns' = WithConn(l, [Conn(l) EXCEPT !.down = From(@, n + 1)])
  /\ UNCHANGED <<bridge, holder, noise, history>>

\* Three seconds of reading and no reply.  probe-rs and the GDB server go on with
\* the session; every other caller gives up with Close.  What arrives between the
\* last read and the deadline may as well arrive just after it.
Timeout(l) ==
  /\ host[l].open /\ host[l].stage = "work" /\ Len(host[l].inflight) = 1
  /\ ~HasFrame(host[l].pending) /\ Conn(l).down = <<>>
  /\ host' = [host EXCEPT ![l].inflight = <<>>]
  /\ UNCHANGED <<conns, bridge, holder, noise, history>>

-----------------------------------------------------------------------------
(* The probe: serve_bridge. *)

Serving(l) == bridge[l].serving
\* spawn_network_bridge: one client at a time.
Accept(l) ==
  /\ l \in Streams /\ ~Serving(l) /\ conns[l] # <<>>
  /\ bridge' = [bridge EXCEPT ![l].serving = TRUE, ![l].frame = <<>>]
  /\ UNCHANGED <<host, conns, holder, noise, history>>

Upstream(l) == conns[l][1].up

\* One byte of the chunk: kept, or the end of a frame to decode.
Take(l) ==
  /\ Serving(l) /\ bridge[l].phase = "reading" /\ Upstream(l) # <<>>
  /\ LET p == Head(Upstream(l))
         f == Append(bridge[l].frame, p)
     IN bridge' = [bridge EXCEPT ![l] =
          IF p.part = "first" THEN [@ EXCEPT !.frame = f]
          ELSE IF Decodes(f)
               THEN [@ EXCEPT !.frame = <<>>, !.phase = "asking", !.doing = p.of]
               ELSE [@ EXCEPT !.frame = <<>>]]
  /\ conns' = [conns EXCEPT ![l][1].up = Tail(@)]
  /\ UNCHANGED <<host, holder, noise, history>>

\* hub.lock() where a guard lives until its reply is written: whoever is still
\* writing a reply has the mutex.
LockHeldThroughWrite(l) ==
  /\ bridge[l].phase = "asking"
  /\ \A k \in Links : bridge[k].phase \notin {"running", "writing"}
  /\ holder' = {l}
  /\ bridge' = [bridge EXCEPT ![l].phase = "running"]
  /\ UNCHANGED <<host, conns, noise, history>>

\* hub.lock()
Lock(l) ==
  /\ bridge[l].phase = "asking" /\ holder = {}
  /\ holder' = {l}
  /\ bridge' = [bridge EXCEPT ![l].phase = "running"]
  /\ UNCHANGED <<host, conns, noise, history>>

\* bridge_command, and the guard dropped.
Run(l) ==
  /\ bridge[l].phase = "running"
  /\ holder' = {}
  /\ bridge' = [bridge EXCEPT ![l].phase = "writing"]
  /\ executed' = [executed EXCEPT ![l] = @ \cup {bridge[l].doing.id}]
  /\ UNCHANGED <<host, conns, noise, lost, spoiled, kind, got>>

Room(l) == TxCapacity - Len(conns[l][1].down)
Idle(b) == [b EXCEPT !.phase = "reading", !.doing = NoMessage]

\* A closed stream takes what is written to it, or refuses it (WriteFails).
Swallows(l) == l \in Streams /\ ~conns[l][1].open

\* The reply in one write, which waits while the buffer has no room for it: on a
\* stream for as long as the client is connected and does not read.
Write(l) ==
  LET m == bridge[l].doing IN
  /\ bridge[l].phase = "writing"
  /\ Swallows(l) \/ Len(Framed(m)) <= Room(l)
  /\ bridge' = [bridge EXCEPT ![l] = Idle(@)]
  /\ conns' = [conns EXCEPT ![l][1].down =
       IF Swallows(l) THEN @ ELSE @ \o Framed(m)]
  /\ UNCHANGED <<host, holder, noise, history>>

\* A command whose reply could not be delivered, carried out again.
WriteCutRetried(l) ==
  LET m == bridge[l].doing IN
  /\ bridge[l].phase = "writing" /\ l \notin Streams
  /\ Len(Framed(m)) > Room(l)
  /\ bridge' = [bridge EXCEPT ![l].phase = "asking"]
  /\ conns' = [conns EXCEPT ![l][1].down = @ \o SubSeq(Framed(m), 1, Room(l))]
  /\ spoiled' = [spoiled EXCEPT ![l] = @ \cup {m.id}]
  /\ UNCHANGED <<host, holder, noise, executed, lost, kind, got>>

\* usb_write_all gives up when nothing has drained for 100 ms.
WriteCut(l) ==
  LET m == bridge[l].doing IN
  /\ bridge[l].phase = "writing" /\ l \notin Streams
  /\ Len(Framed(m)) > Room(l)
  /\ bridge' = [bridge EXCEPT ![l] = Idle(@)]
  /\ conns' = [conns EXCEPT ![l][1].down = @ \o SubSeq(Framed(m), 1, Room(l))]
  /\ spoiled' = [spoiled EXCEPT ![l] = @ \cup {m.id}]
  /\ UNCHANGED <<host, holder, noise, executed, lost, kind, got>>

\* serve_bridge returns; what the connection still carried goes with it.
Dropped(l) ==
  /\ conns' = [conns EXCEPT ![l] = Tail(@)]
  /\ bridge' = [bridge EXCEPT ![l] = [Idle(@) EXCEPT !.serving = FALSE, !.frame = <<>>]]
  /\ lost' = [lost EXCEPT ![l] = @ \cup
       {c \in Calls : \E i \in 1..Len(Upstream(l)) :
          Upstream(l)[i].part = "final" /\ Upstream(l)[i].of.id = c}]

\* A closed stream refuses the reply.
WriteFails(l) ==
  /\ bridge[l].phase = "writing" /\ l \in Streams /\ ~conns[l][1].open
  /\ Dropped(l)
  /\ UNCHANGED <<host, holder, noise, executed, spoiled, kind, got>>

\* At the end of a stream read returns Ok(0), which serve_bridge passes over;
\* it returns at the error lwIP reports when the socket is read again.
EndOfStream(l) ==
  /\ l \in Streams /\ Serving(l) /\ bridge[l].phase = "reading"
  /\ Upstream(l) = <<>> /\ ~conns[l][1].open
  /\ Dropped(l)
  /\ UNCHANGED <<host, holder, noise, executed, spoiled, kind, got>>

\* A console line falls between two bytes on their way to the host.
ConsoleLine(l) ==
  LET down == conns[l][1].down IN
  /\ l \notin Streams /\ noise[l] < MaxNoise[l]
  /\ noise' = [noise EXCEPT ![l] = @ + 1]
  /\ \E p \in 0..Len(down) :
       /\ conns' = [conns EXCEPT ![l][1].down =
                      SubSeq(down, 1, p) \o <<Text>> \o From(down, p + 1)]
       /\ spoiled' = [spoiled EXCEPT ![l] = @ \cup
            (IF p < Len(down) /\ down[p + 1].part \in {"first", "final"}
             THEN {down[p + 1].of.id} ELSE {})]
  /\ UNCHANGED <<host, bridge, holder, executed, lost, kind, got>>

-----------------------------------------------------------------------------
Init ==
  /\ host = [l \in Links |->
       [open |-> FALSE, stage |-> "hello", sequence |-> 0, inflight |-> <<>>,
        pending |-> <<>>, sessions |-> 0, calls |-> 0]]
  /\ conns = [l \in Links |-> IF l \in Streams THEN <<>>
       ELSE <<[open |-> FALSE, up |-> <<>>, down |-> <<>>]>>]
  /\ bridge = [l \in Links |->
       [serving |-> l \notin Streams, frame |-> <<>>, phase |-> "reading",
        doing |-> NoMessage]]
  /\ holder = {}
  /\ noise = [l \in Links |-> 0]
  /\ executed = [l \in Links |-> {}]
  /\ lost = [l \in Links |-> {}]
  /\ spoiled = [l \in Links |-> {}]
  /\ kind = [l \in Links |-> [c \in Calls |-> "none"]]
  /\ got = [l \in Links |-> [want |-> 0, had |-> 0]]

HostStep(l)   == Open(l) \/ Close(l) \/ Send(l) \/ DieSending(l) \/ Receive(l)
                 \/ Discard(l) \/ Unidentified(l)
                 \/ Read(l) \/ Timeout(l)
BridgeStep(l) == Accept(l) \/ Take(l) \/ Lock(l) \/ Run(l) \/ Write(l)
                 \/ WriteCut(l) \/ WriteFails(l) \/ EndOfStream(l)

Next == \E l \in Links : HostStep(l) \/ BridgeStep(l) \/ ConsoleLine(l)

Spec == Init /\ [][Next]_vars

\* FreeRTOS runs every ready thread, and hands a mutex to the waiting ones in
\* turn; nothing obliges a host to do anything.
Fairness ==
  \A l \in Links :
    /\ WF_vars(Accept(l)) /\ WF_vars(Take(l)) /\ WF_vars(Run(l))
    /\ WF_vars(Write(l) \/ WriteCut(l) \/ WriteFails(l))
    /\ WF_vars(EndOfStream(l))
    /\ SF_vars(Lock(l))

FairSpec == Spec /\ Fairness

-----------------------------------------------------------------------------
TypeOK ==
  /\ host \in [Links -> [open : BOOLEAN, stage : Stages, sequence : 0..(SeqModulus - 1),
       inflight : Seq(Messages), pending : Seq(Pieces), sessions : Nat,
       calls : {0} \cup Calls]]
  /\ conns \in [Links -> Seq([open : BOOLEAN, up : Seq(Pieces), down : Seq(Pieces)])]
  /\ bridge \in [Links -> [serving : BOOLEAN, frame : Seq(Pieces),
       phase : {"reading", "asking", "running", "writing"},
       doing : Messages \cup {NoMessage}]]
  /\ holder \in SUBSET Links
  /\ noise \in [Links -> Nat]
  /\ executed \in [Links -> SUBSET Calls]
  /\ lost \in [Links -> SUBSET Calls]
  /\ spoiled \in [Links -> SUBSET Calls]
  /\ kind \in [Links -> [Calls -> Stages \cup {"none"}]]
  /\ got \in [Links -> [want : {0} \cup Calls, had : {0} \cup Calls]]

\* The reply returned for a request is the reply to that request, or a greeting
\* answered for an earlier session; although sequence numbers restart with every
\* session.  True of streams; a shared pipe keeps the replies nobody read, and
\* enough abandoned sessions break it there.
ReplyMatches ==
  \A l \in Links : LET g == got[l] IN
    g.want # 0 =>
      \/ g.want = g.had
      \/ kind[l][g.want] \in {"hello", "caps"} /\ kind[l][g.had] = kind[l][g.want]

\* Calls c and d, c the earlier, are of one session: each begins with Hello.
OneSession(l, c, d) == \A e \in (c + 1)..d : kind[l][e] # "hello"

\* What holds of every link: within a session a late reply to a request given up
\* is never taken for another's, and a shared pipe answers with nothing but what
\* is awaited or what an earlier session asked.
OwnReplies ==
  \A l \in Links : LET g == got[l] IN
    g.had # g.want =>
      /\ l \notin Streams
      /\ g.had < g.want /\ ~OneSession(l, g.had, g.want)

\* A request in flight is never silently lost: whole on its way to the probe,
\* being carried out, or its reply whole on its way back, unless console text or
\* a full transmit buffer damaged that reply or one awaited before it: whichever
\* sessions died before it, whatever shared a read with it.
InFlightIntact ==
  \A l \in Links : \A i \in 1..Len(host[l].inflight) :
    LET m == host[l].inflight[i] IN
    \/ \E j \in 1..i : host[l].inflight[j].id \in spoiled[l]
    \/ Len(conns[l]) = 1 /\ Serving(l) /\ Whole(bridge[l].frame \o Conn(l).up, m)
    \/ Whole(Conn(l).up, m)
    \/ bridge[l].doing = m
    \/ Whole(host[l].pending \o Conn(l).down, m)

\* bridge_command runs only a request that was written whole, that it did not run
\* before, and after which it ran none; and executed is what it ran.
CarriesOut(l) == bridge[l].phase = "running" /\ bridge'[l].phase # "running"
OnceInOrder ==
  \A l \in Links :
    /\ CarriesOut(l) =>
         /\ bridge[l].doing.id \in (1..host[l].calls) \ (executed[l] \cup lost[l])
         /\ \A d \in executed[l] : d < bridge[l].doing.id
         /\ executed'[l] = executed[l] \cup {bridge[l].doing.id}
    /\ ~CarriesOut(l) => executed'[l] = executed[l]

\* A request given up, cut off or asked for by a host long dead is carried out
\* once if at all, and in its turn.
CarriedOutOnce == [][OnceInOrder]_vars

\* A client that stays connected and does not read has its own thread wait with
\* a reply in hand.
NotRead(l) == /\ l \in Streams /\ bridge[l].phase = "writing"
              /\ ~Swallows(l) /\ Len(Framed(bridge[l].doing)) > Room(l)

\* Every request a host wrote whole is carried out, unless its connection ended
\* first, whichever sessions came and went before it and whatever the clients of
\* the other link do; a link waits for nobody's reading but its own client's.
RequestsCarriedOut ==
  \A l \in Links : \A c \in Calls :
    host[l].calls >= c ~> c \in executed[l] \cup lost[l] \/ NotRead(l)

\* The bridge implements a remote procedure call.
rpc == INSTANCE Rpc WITH
  Calls <- Calls,
  Shared <- Links \ Streams,
  call <- [l \in Links |-> [c \in Calls |->
            IF c > host[l].calls THEN "unmade"
            ELSE IF c \in executed[l] THEN "done"
            ELSE IF c \in lost[l] THEN "lost" ELSE "queued"]],
  waiting <- [l \in Links |-> [i \in 1..Len(host[l].inflight) |-> host[l].inflight[i].id]],
  got <- [l \in Links |-> got[l].had]

ImplementsRpc == rpc!Spec
=============================================================================
