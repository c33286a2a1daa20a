---------------------------- MODULE FlightProofs ----------------------------
(***************************************************************************)
(* What BridgeProofs leaves open about Bridge: that no request in flight is *)
(* silently lost, that a stream returns a request's own reply and no link a *)
(* later one's, and so that the command path implements Rpc.                *)
(*                                                                         *)
(* FInv looks at a link as one line: what leaves for the probe, the request *)
(* it has in hand, what comes back.  Messages stand on it in the order of   *)
(* their requests, so a reply passed over means that the one awaited is     *)
(* damaged; a session's numbers are as far apart as its requests, so two    *)
(* with one number are SeqModulus requests apart, further than a stream     *)
(* holds; and the end of a frame is never further than the console text     *)
(* printed, so the buffer the host clears when it is full never is.         *)
(* First what each change does to a line (Flow...), then the actions, each  *)
(* shown to be such a change of its own link's (...Flown).                  *)
(***************************************************************************)
EXTENDS BridgeProofs

-----------------------------------------------------------------------------
(* The invariant. *)

\* The messages whose last piece is in s.
Finished(s) == {s[i].of : i \in Finals(s)}

\* What is on its way to the host of a link and from it, on the connection of its
\* session, and the request of that connection the probe has in hand.
Coming(l)  == IF conns[l] = <<>> THEN <<>> ELSE host[l].pending \o Conn(l).down
Leaving(l) == IF conns[l] = <<>> THEN <<>> ELSE Conn(l).up
AtHub(l)   == IF Len(conns[l]) = 1 THEN bridge[l].doing ELSE NoMessage
InTransit(s, v, d) == Finished(s) \cup Finished(v) \cup ({d} \ {NoMessage})

\* Replies come in the order of their requests.
InOrder(s) == \A i, j \in Finals(s) : i < j => s[i].of.id < s[j].of.id
AllBefore(s, d) == d # NoMessage => \A m \in Finished(s) : m.id < d.id

\* Between two ends of frames there is one piece of a frame, and console text.
Gapless(s, a, b) == \A i \in a..b : s[i].part \notin {"gap", "final"}
Short(s, n) == \A a \in 1..Len(s), b \in 1..Len(s) : Gapless(s, a, b) => b - a <= n

\* Message m is the session's own: its number is as far behind as its request.
Numbered(m, h) ==
  \E k \in Nat : m.seq + (h.calls - m.id) = h.sequence + k * SeqModulus

\* What a session awaits are the requests it made last.
Paced(h) ==
  /\ Len(h.inflight) <= Depth
  /\ \A i \in 1..Len(h.inflight) : /\ h.inflight[i].id = h.calls - Len(h.inflight) + i
                                   /\ Numbered(h.inflight[i], h)
Same(f, T) == \A m \in T : \A i \in 1..Len(f) : m.id = f[i].id => m = f[i]

\* Each of them is on its way, or damaged, or passed over because the reply
\* awaited first is damaged.
OnWay(m, s, v, d) == m \in Finished(v) \/ m = d \/ Whole(s, m)
Overtaken(f, s, v, d, sp) ==
  f[1].id \in sp /\ \A n \in InTransit(s, v, d) : n.id > f[1].id
Flight(f, s, v, d, sp) ==
  \A i \in 1..Len(f) :
    f[i].id \in sp \/ OnWay(f[i], s, v, d) \/ Overtaken(f, s, v, d, sp)

\* A stream carries what its session sent since the oldest message in transit.
Streamed(h, T) ==
  \A m \in T : /\ Numbered(m, h) /\ h.calls - m.id < LinkRoom
               /\ \A c \in m.id..h.calls : \E n \in T : n.id = c

\* Console text never fills the host's buffer, and no two requests in flight have
\* one number.
Ample(l) == l \in Streams \/ (/\ Depth <= SeqModulus
                              /\ MaxNoise[l] + 1 + ReadChunk <= PendingLimit)

Flow(l, h, s, v, d, sp, nz) ==
  /\ ~h.open => h.inflight = <<>> /\ h.pending = <<>>
  /\ nz <= MaxNoise[l] /\ (l \in Streams => nz = 0 /\ sp = {})
  /\ Paced(h) /\ Same(h.inflight, InTransit(s, v, d))
  /\ InOrder(s) /\ AllBefore(s, d) /\ Short(s, nz)
  /\ Ample(l) => Flight(h.inflight, s, v, d, sp)
  /\ l \in Streams /\ h.open => Streamed(h, InTransit(s, v, d))

\* The reply returned is the awaited request's on a stream, and never a later one's
\* where the requests in flight have numbers of their own.
Told(l, g) == /\ l \in Streams => g.want = g.had
              /\ Depth <= SeqModulus => g.had <= g.want

Flown(l) ==
  /\ bridge[l].phase = "reading" => bridge[l].doing = NoMessage
  /\ Flow(l, host[l], Coming(l), Leaving(l), AtHub(l), spoiled[l], noise[l])
  /\ Told(l, got[l])
FInv == IInv /\ \A l \in Links : Flown(l)

-----------------------------------------------------------------------------
(* Strings of pieces. *)

\* The last pieces of the messages in a string.
LEMMA FinalsIs ==
  ASSUME NEW s \in Seq(Pieces)
  PROVE  /\ Finals(s) = {i \in 1..Len(s) : s[i].part = "final"}
         /\ \A m : m \in Finished(s) <=> \E i \in 1..Len(s) : s[i].part = "final" /\ s[i].of = m
         /\ \A i \in Finals(s) : s[i] = Final(s[i].of) /\ s[i].of \in Messages
         /\ Finished(s) \subseteq Messages
<1>1. DOMAIN s = 1..Len(s)
  OBVIOUS
<1>2. Finals(s) = {i \in 1..Len(s) : s[i].part = "final"}
  BY <1>1 DEF Finals
<1>3. ASSUME NEW i \in Finals(s) PROVE s[i] = Final(s[i].of) /\ s[i].of \in Messages
  <2>1. s[i] \in Pieces /\ s[i].part = "final"
    BY <1>2
  <2>2. s[i].of \in Messages
    BY <2>1, MessageParts
  <2>3. s[i] \in [part : {"first", "final"}, of : Messages]
    BY <2>1 DEF Pieces
  <2> QED BY <2>1, <2>2, <2>3 DEF Final
<1> QED BY <1>2, <1>3 DEF Finished

\* What concatenation does, in the form the proofs need.
LEMMA Joined ==
  ASSUME NEW s \in Seq(Pieces), NEW t \in Seq(Pieces)
  PROVE  /\ s \o t \in Seq(Pieces) /\ Len(s) \in Nat /\ Len(t) \in Nat
         /\ Len(s \o t) = Len(s) + Len(t)
         /\ \A i \in 1..Len(s) : (s \o t)[i] = s[i]
         /\ \A i \in 1..Len(t) : (s \o t)[Len(s) + i] = t[i]
OBVIOUS

\* A last piece finishes its message,
LEMMA FinishedAt ==
  ASSUME NEW s \in Seq(Pieces), NEW i \in 1..Len(s), s[i].part = "final"
  PROVE  i \in Finals(s) /\ s[i].of \in Finished(s)
BY FinalsIs

\* a finished message has one,
LEMMA FinishedFrom ==
  ASSUME NEW s \in Seq(Pieces), NEW m \in Finished(s)
  PROVE  \E i \in 1..Len(s) : s[i].part = "final" /\ s[i].of = m
BY FinalsIs

\* and where there is none, nothing is finished.
LEMMA FinishedNone ==
  ASSUME NEW s \in Seq(Pieces), \A i \in 1..Len(s) : s[i].part # "final"
  PROVE  Finished(s) = {}
BY FinishedFrom

\* Two strings, one after the other, finish what each does.
LEMMA FinishedJoin ==
  ASSUME NEW s \in Seq(Pieces), NEW t \in Seq(Pieces)
  PROVE  Finished(s \o t) = Finished(s) \cup Finished(t)
<1> DEFINE r == s \o t
<1>1. /\ r \in Seq(Pieces) /\ Len(s) \in Nat /\ Len(t) \in Nat /\ Len(r) = Len(s) + Len(t)
      /\ \A i \in 1..Len(s) : r[i] = s[i]
      /\ \A i \in 1..Len(t) : r[Len(s) + i] = t[i]
  OBVIOUS
<1>2. \A i \in 1..Len(r) : i \in 1..Len(s) \/ (i - Len(s) \in 1..Len(t) /\ r[i] = t[i - Len(s)])
  BY <1>1
<1> HIDE DEF r
<1>3. ASSUME NEW m \in Finished(r) PROVE m \in Finished(s) \cup Finished(t)
  <2>1. PICK i \in 1..Len(r) : r[i].part = "final" /\ r[i].of = m
    BY <1>1, FinalsIs
  <2>2. CASE i \in 1..Len(s)
    BY <1>1, <2>1, <2>2, FinalsIs
  <2>3. CASE i - Len(s) \in 1..Len(t) /\ r[i] = t[i - Len(s)]
    <3> DEFINE j == i - Len(s)
    <3>1. j \in 1..Len(t) /\ t[j].part = "final" /\ t[j].of = m
      BY <2>1, <2>3
    <3> HIDE DEF j
    <3> QED BY <3>1, FinalsIs
  <2> QED BY <1>2, <2>2, <2>3
<1>4. ASSUME NEW m, m \in Finished(s) PROVE m \in Finished(r)
  <2>1. PICK i \in 1..Len(s) : s[i].part = "final" /\ s[i].of = m
    BY <1>4, FinalsIs
  <2>2. i \in 1..Len(r) /\ r[i] = s[i]
    BY <1>1
  <2> QED BY <1>1, <2>1, <2>2, FinalsIs
<1>5. ASSUME NEW m, m \in Finished(t) PROVE m \in Finished(r)
  <2>1. PICK i \in 1..Len(t) : t[i].part = "final" /\ t[i].of = m
    BY <1>5, FinalsIs
  <2>2. Len(s) + i \in 1..Len(r) /\ r[Len(s) + i] = t[i]
    BY <1>1
  <2> DEFINE j == Len(s) + i
  <2>3. j \in 1..Len(r) /\ r[j].part = "final" /\ r[j].of = m
    BY <2>1, <2>2
  <2> HIDE DEF j
  <2> QED BY <1>1, <2>3, FinishedAt
<1> QED BY <1>3, <1>4, <1>5 DEF r

\* What is left of s from n on.
LEMMA FromIs ==
  ASSUME NEW s \in Seq(Pieces), NEW n \in 1..(Len(s) + 1)
  PROVE  /\ From(s, n) \in Seq(Pieces) /\ Len(s) \in Nat /\ Len(From(s, n)) = Len(s) + 1 - n
         /\ \A i \in 1..(Len(s) + 1 - n) : From(s, n)[i] = s[n + i - 1]
BY DEF From

\* A cut finishes nothing more.
LEMMA FinishedCut ==
  ASSUME NEW s \in Seq(Pieces), NEW n \in 1..(Len(s) + 1)
  PROVE  Finished(From(s, n)) \subseteq Finished(s)
<1>1. /\ From(s, n) \in Seq(Pieces) /\ Len(s) \in Nat /\ Len(From(s, n)) = Len(s) + 1 - n
      /\ \A i \in 1..(Len(s) + 1 - n) : From(s, n)[i] = s[n + i - 1]
  BY FromIs
<1> DEFINE r == From(s, n)
<1> HIDE DEF r
<1>2. ASSUME NEW m, m \in Finished(r) PROVE m \in Finished(s)
  <2>1. PICK i \in 1..Len(r) : r[i].part = "final" /\ r[i].of = m
    BY <1>1, <1>2, FinalsIs DEF r
  <2>2. n + i - 1 \in 1..Len(s) /\ s[n + i - 1] = r[i]
    BY <1>1, <2>1 DEF r
  <2> QED BY <2>1, <2>2, FinalsIs
<1> QED BY <1>2 DEF r

\* The pieces of a frame, or of a part of it.
LEMMA FinishedFrame ==
  ASSUME NEW m \in Messages
  PROVE  /\ Finished(Framed(m)) = {m}
         /\ Finished(<<Gap, First(m)>>) = {}
         /\ Finished(<<Text>>) = {} /\ Finished(<<>>) = {}
         /\ \A w \in 0..2 : Finished(Wrote(m, w)) = {}
<1>1. /\ Framed(m) \in Seq(Pieces) /\ Len(Framed(m)) = 3
      /\ Framed(m)[1] = Gap /\ Framed(m)[2] = First(m) /\ Framed(m)[3] = Final(m)
  BY MessageParts DEF Framed
<1>2. /\ Gap.part = "gap" /\ Text.part = "text" /\ First(m).part = "first"
      /\ Final(m).part = "final" /\ Final(m).of = m
  BY DEF Gap, Text, First, Final
<1>3. Finished(Framed(m)) = {m}
  <2>1. ASSUME NEW n, n \in Finished(Framed(m)) PROVE n = m
    BY <1>1, <1>2, <2>1, FinalsIs
  <2>2. m \in Finished(Framed(m))
    <3>1. /\ 3 \in 1..Len(Framed(m)) /\ Framed(m)[3].part = "final"
          /\ Framed(m)[3].of = m
      BY <1>1, <1>2
    <3> QED BY <1>1, <3>1, FinishedAt
  <2> QED BY <2>1, <2>2
<1>4. Finished(<<Gap, First(m)>>) = {}
  <2>1. /\ <<Gap, First(m)>> \in Seq(Pieces) /\ Len(<<Gap, First(m)>>) = 2
        /\ <<Gap, First(m)>>[1] = Gap /\ <<Gap, First(m)>>[2] = First(m)
    BY MessageParts
  <2>2. \A i \in 1..2 : <<Gap, First(m)>>[i].part # "final"
    BY <1>2, <2>1
  <2> QED BY <2>1, <2>2, FinishedNone
<1>5. Finished(<<Text>>) = {}
  <2>1. <<Text>> \in Seq(Pieces) /\ Len(<<Text>>) = 1 /\ <<Text>>[1] = Text
    BY MessageParts
  <2>2. \A i \in 1..1 : <<Text>>[i].part # "final"
    BY <1>2, <2>1
  <2> QED BY <2>1, <2>2, FinishedNone
<1>6. Finished(<<>>) = {}
  <2>1. <<>> \in Seq(Pieces) /\ Len(<<>>) = 0
    OBVIOUS
  <2>2. \A i \in 1..0 : <<>>[i].part # "final"
    OBVIOUS
  <2> QED BY <2>1, <2>2, FinishedNone
<1>7. ASSUME NEW w \in 0..2 PROVE Finished(Wrote(m, w)) = {}
  <2>1. /\ Wrote(m, w) \in Seq(Pieces) /\ Len(Wrote(m, w)) = w
        /\ \A i \in 1..w : Wrote(m, w)[i] = Framed(m)[i]
    BY <1>1 DEF Wrote
  <2> QED BY <1>1, <1>2, <2>1, FinalsIs
<1> QED BY <1>3, <1>4, <1>5, <1>6, <1>7

\* Order survives a cut, and an end that is later.
LEMMA OrderCut ==
  ASSUME NEW s \in Seq(Pieces), NEW n \in 1..(Len(s) + 1), InOrder(s)
  PROVE  InOrder(From(s, n))
<1> DEFINE r == From(s, n)
<1>1. /\ r \in Seq(Pieces) /\ Len(s) \in Nat /\ Len(r) = Len(s) + 1 - n
      /\ \A i \in 1..(Len(s) + 1 - n) : r[i] = s[n + i - 1]
  BY FromIs
<1> HIDE DEF r
<1>2. \A i \in Finals(r) : n + i - 1 \in Finals(s) /\ r[i] = s[n + i - 1] /\ i \in Int
  <2> SUFFICES ASSUME NEW i \in Finals(r)
               PROVE  n + i - 1 \in Finals(s) /\ r[i] = s[n + i - 1] /\ i \in Int
    OBVIOUS
  <2> DEFINE j == n + i - 1
  <2>1. i \in 1..Len(r) /\ r[i].part = "final"
    BY <1>1, FinalsIs
  <2>2. j \in 1..Len(s) /\ r[i] = s[j]
    BY <1>1, <2>1
  <2> HIDE DEF j
  <2>3. j \in Finals(s)
    BY <2>1, <2>2, FinishedAt
  <2> QED BY <2>1, <2>2, <2>3 DEF j
<1>3. ASSUME NEW i \in Finals(r), NEW j \in Finals(r), i < j
      PROVE  r[i].of.id < r[j].of.id
  <2>1. n + i - 1 < n + j - 1
    BY <1>2, <1>3
  <2> QED BY <1>2, <2>1 DEF InOrder
<1> QED BY <1>3 DEF r, InOrder

\* Two strings in order, the first all before the second, are in order.
LEMMA OrderJoin ==
  ASSUME NEW s \in Seq(Pieces), NEW t \in Seq(Pieces), InOrder(s), InOrder(t),
         \A m \in Finished(s), n \in Finished(t) : m.id < n.id
  PROVE  InOrder(s \o t)
<1> DEFINE r == s \o t
<1>1. /\ r \in Seq(Pieces) /\ Len(s) \in Nat /\ Len(t) \in Nat /\ Len(r) = Len(s) + Len(t)
      /\ \A i \in 1..Len(s) : r[i] = s[i]
      /\ \A i \in 1..Len(t) : r[Len(s) + i] = t[i]
  OBVIOUS
<1> HIDE DEF r
<1>2. \A i \in Finals(r) : \/ i \in Finals(s) /\ r[i] = s[i] /\ i \in 1..Len(s)
                           \/ /\ i - Len(s) \in Finals(t) /\ r[i] = t[i - Len(s)]
                              /\ i \in (Len(s) + 1)..Len(r)
  <2> SUFFICES ASSUME NEW i \in Finals(r)
               PROVE  \/ i \in Finals(s) /\ r[i] = s[i] /\ i \in 1..Len(s)
                      \/ /\ i - Len(s) \in Finals(t) /\ r[i] = t[i - Len(s)]
                         /\ i \in (Len(s) + 1)..Len(r)
    OBVIOUS
  <2>1. i \in 1..Len(r) /\ r[i].part = "final"
    BY <1>1, FinalsIs
  <2>2. CASE i <= Len(s)
    BY <1>1, <2>1, <2>2, FinalsIs
  <2>3. CASE i > Len(s)
    <3> DEFINE g == i - Len(s)
    <3>1. g \in 1..Len(t) /\ Len(s) + g = i /\ i \in (Len(s) + 1)..Len(r)
      BY <1>1, <2>1, <2>3
    <3> HIDE DEF g
    <3>2. r[i] = t[g]
      BY <1>1, <3>1
    <3>3. g \in Finals(t)
      BY <2>1, <3>1, <3>2, FinishedAt
    <3> QED BY <3>1, <3>2, <3>3 DEF g
  <2> QED BY <1>1, <2>1, <2>2, <2>3
<1>3. ASSUME NEW i \in Finals(r), NEW j \in Finals(r), i < j
      PROVE  r[i].of.id < r[j].of.id
  <2>1. CASE i \in 1..Len(s) /\ j \in 1..Len(s)
    <3>1. i \in Finals(s) /\ j \in Finals(s) /\ r[i] = s[i] /\ r[j] = s[j]
      BY <1>1, <1>2, <2>1
    <3> QED BY <1>3, <3>1 DEF InOrder
  <2>2. CASE i \in 1..Len(s) /\ j \in (Len(s) + 1)..Len(r)
    <3>1. i \in Finals(s) /\ j - Len(s) \in Finals(t) /\ r[i] = s[i] /\ r[j] = t[j - Len(s)]
      BY <1>1, <1>2, <2>2
    <3>2. s[i].of \in Finished(s) /\ t[j - Len(s)].of \in Finished(t)
      BY <3>1 DEF Finished
    <3> QED BY <3>1, <3>2
  <2>3. CASE i \in (Len(s) + 1)..Len(r) /\ j \in (Len(s) + 1)..Len(r)
    <3>1. /\ i - Len(s) \in Finals(t) /\ j - Len(s) \in Finals(t) /\ r[i] = t[i - Len(s)]
          /\ r[j] = t[j - Len(s)]
      BY <1>1, <1>2, <2>3
    <3>2. i - Len(s) < j - Len(s)
      BY <1>1, <1>3, <2>3
    <3> QED BY <3>1, <3>2 DEF InOrder
  <2> QED BY <1>1, <1>2, <1>3, <2>1, <2>2, <2>3
<1> QED BY <1>3 DEF r, InOrder

\* A cut makes nothing longer.
LEMMA ShortCut ==
  ASSUME NEW s \in Seq(Pieces), NEW n \in 1..(Len(s) + 1), NEW k \in Nat, Short(s, k)
  PROVE  Short(From(s, n), k)
<1> DEFINE r == From(s, n)
<1>1. /\ r \in Seq(Pieces) /\ Len(s) \in Nat /\ Len(r) = Len(s) + 1 - n
      /\ \A i \in 1..(Len(s) + 1 - n) : r[i] = s[n + i - 1]
  BY FromIs
<1> HIDE DEF r
<1>2. ASSUME NEW a \in 1..Len(r), NEW b \in 1..Len(r), Gapless(r, a, b)
      PROVE  b - a <= k
  <2> DEFINE c == n + a - 1
             d == n + b - 1
  <2>1. c \in 1..Len(s) /\ d \in 1..Len(s) /\ d - c = b - a
    BY <1>1
  <2>2. ASSUME NEW j \in c..d PROVE s[j].part \notin {"gap", "final"}
    <3>1. j - n + 1 \in a..b /\ j - n + 1 \in 1..(Len(s) + 1 - n)
      BY <1>1, <2>2
    <3>2. r[j - n + 1] = s[j]
      BY <1>1, <2>2, <3>1
    <3> QED BY <1>2, <3>1, <3>2 DEF Gapless
  <2>3. Gapless(s, c, d)
    BY <2>2 DEF Gapless
  <2> HIDE DEF c, d
  <2> QED BY <2>1, <2>3 DEF Short
<1> QED BY <1>2 DEF r, Short

\* What is written begins with an end of a frame.
LEMMA ShortJoin ==
  ASSUME NEW s \in Seq(Pieces), NEW t \in Seq(Pieces), NEW k \in Nat,
         Short(s, k), Short(t, k), t # <<>> => t[1].part = "gap"
  PROVE  Short(s \o t, k)
<1> DEFINE r == s \o t
<1>1. /\ r \in Seq(Pieces) /\ Len(s) \in Nat /\ Len(t) \in Nat /\ Len(r) = Len(s) + Len(t)
      /\ \A i \in 1..Len(s) : r[i] = s[i]
      /\ \A i \in 1..Len(t) : r[Len(s) + i] = t[i]
  OBVIOUS
<1> HIDE DEF r
<1>2. ASSUME NEW a \in 1..Len(r), NEW b \in 1..Len(r), Gapless(r, a, b)
      PROVE  b - a <= k
  <2>1. CASE b <= Len(s) /\ a <= Len(s)
    <3>1. a \in 1..Len(s) /\ b \in 1..Len(s) /\ \A i \in a..b : i \in 1..Len(s)
      BY <1>1, <2>1
    <3>2. \A i \in a..b : s[i] = r[i]
      BY <1>1, <3>1
    <3>3. Gapless(s, a, b)
      BY <1>2, <3>2 DEF Gapless
    <3> QED BY <3>1, <3>3 DEF Short
  <2>2. CASE a <= Len(s) /\ b > Len(s)
    <3>1. Len(s) + 1 \in a..b /\ Len(t) >= 1
      BY <1>1, <2>2
    <3>2. r[Len(s) + 1] = t[1] /\ t # <<>>
      BY <1>1, <3>1
    <3> QED BY <1>2, <3>1, <3>2 DEF Gapless
  <2>3. CASE a > Len(s) /\ b > Len(s)
    <3> DEFINE c == a - Len(s)
               d == b - Len(s)
    <3>1. c \in 1..Len(t) /\ d \in 1..Len(t) /\ d - c = b - a
      BY <1>1, <2>3
    <3>2. ASSUME NEW j \in c..d PROVE t[j].part \notin {"gap", "final"}
      <4>1. Len(s) + j \in a..b /\ j \in 1..Len(t)
        BY <1>1, <2>3, <3>1, <3>2
      <4>2. r[Len(s) + j] = t[j]
        BY <1>1, <4>1
      <4> QED BY <1>2, <4>1, <4>2 DEF Gapless
    <3>3. Gapless(t, c, d)
      BY <3>2 DEF Gapless
    <3> HIDE DEF c, d
    <3> QED BY <3>1, <3>3 DEF Short
  <2>4. CASE b < a
    BY <1>1, <2>4
  <2> QED BY <1>1, <2>1, <2>2, <2>3, <2>4
<1> QED BY <1>2 DEF r, Short

\* A frame written whole or in part has no text and begins with its zero.
LEMMA WroteShort ==
  ASSUME NEW m \in Messages, NEW w \in 0..3, NEW k \in Nat
  PROVE  /\ Wrote(m, w) \in Seq(Pieces) /\ Short(Wrote(m, w), k)
         /\ Wrote(m, w) # <<>> => Wrote(m, w)[1].part = "gap"
<1>1. /\ Framed(m) \in Seq(Pieces) /\ Len(Framed(m)) = 3
      /\ Framed(m)[1] = Gap /\ Framed(m)[2] = First(m) /\ Framed(m)[3] = Final(m)
  BY MessageParts DEF Framed
<1>2. /\ Gap.part = "gap" /\ Final(m).part = "final"
  BY DEF Gap, Final
<1> DEFINE t == Wrote(m, w)
           f == Framed(m)
<1>3. /\ t \in Seq(Pieces) /\ Len(t) = w
      /\ \A i \in 1..w : t[i] = Framed(m)[i]
  <2>1. f \in Seq(Pieces) /\ Len(f) = 3 /\ t = SubSeq(f, 1, w)
    BY <1>1 DEF Wrote
  <2> HIDE DEF f, t
  <2> QED BY <2>1 DEF f
<1> HIDE DEF t
<1>4. ASSUME NEW a \in 1..Len(t), NEW b \in 1..Len(t), Gapless(t, a, b)
      PROVE  b - a <= k
  <2>1. a \in 1..3 /\ b \in 1..3 /\ (\A i \in a..b : i \in 1..w)
    BY <1>3
  <2>2. \A i \in a..b : i # 1 /\ i # 3
    BY <1>1, <1>2, <1>3, <1>4, <2>1 DEF Gapless
  <2>3. CASE a <= b
    <3>1. a \in a..b /\ b \in a..b
      BY <2>1, <2>3
    <3> QED BY <2>1, <2>2, <3>1
  <2> QED BY <2>1, <2>3
<1>5. t # <<>> => t[1].part = "gap"
  <2> SUFFICES ASSUME t # <<>> PROVE t[1].part = "gap"
    OBVIOUS
  <2>1. 1 \in 1..w
    BY <1>3
  <2> QED BY <1>1, <1>2, <1>3, <2>1
<1> QED BY <1>3, <1>4, <1>5 DEF t, Short

\* Message m stands whole in a longer string,
LEMMA WholeJoin ==
  ASSUME NEW s \in Seq(Pieces), NEW t \in Seq(Pieces), NEW m, Whole(s, m)
  PROVE  Whole(s \o t, m)
<1> DEFINE r == s \o t
<1>1. /\ r \in Seq(Pieces) /\ Len(s) \in Nat /\ Len(t) \in Nat /\ Len(r) = Len(s) + Len(t)
      /\ \A i \in 1..Len(s) : r[i] = s[i]
  OBVIOUS
<1> HIDE DEF r
<1>2. PICK i \in 2..Len(s) : /\ s[i - 1] = First(m) /\ s[i] = Final(m)
                             /\ i = 2 \/ s[i - 2].part \in {"gap", "final"}
  BY DEF Whole
<1>3. /\ i \in 2..Len(r) /\ i \in 1..Len(s) /\ i - 1 \in 1..Len(s)
      /\ i # 2 => i - 2 \in 1..Len(s)
  BY <1>1
<1>4. r[i - 1] = First(m) /\ r[i] = Final(m)
  BY <1>1, <1>2, <1>3
<1>5. i = 2 \/ r[i - 2].part \in {"gap", "final"}
  BY <1>1, <1>2, <1>3
<1> QED BY <1>3, <1>4, <1>5 DEF r, Whole

\* and where it has been written last.
LEMMA WholeFramed ==
  ASSUME NEW s \in Seq(Pieces), NEW m \in Messages
  PROVE  Whole(s \o Framed(m), m)
<1>1. /\ Framed(m) \in Seq(Pieces) /\ Len(Framed(m)) = 3
      /\ Framed(m)[1] = Gap /\ Framed(m)[2] = First(m) /\ Framed(m)[3] = Final(m)
  BY MessageParts DEF Framed
<1>2. Gap.part = "gap"
  BY DEF Gap
<1> DEFINE t == Framed(m)
           r == s \o t
<1>0. t \in Seq(Pieces) /\ Len(t) = 3
  BY <1>1
<1> HIDE DEF t
<1>3. /\ Len(s) \in Nat /\ Len(r) = Len(s) + 3
      /\ \A i \in 1..3 : r[Len(s) + i] = t[i]
  <2>1. /\ Len(s) \in Nat /\ Len(r) = Len(s) + Len(t)
        /\ \A i \in 1..Len(t) : r[Len(s) + i] = t[i]
    BY <1>0, Joined
  <2> HIDE DEF r
  <2> QED BY <1>0, <2>1
<1> HIDE DEF r
<1>4. r[Len(s) + 1] = Gap /\ r[Len(s) + 2] = First(m) /\ r[Len(s) + 3] = Final(m)
  BY <1>1, <1>3 DEF t
<1> DEFINE i == Len(s) + 3
<1>5. /\ i \in 2..Len(r) /\ r[i - 1] = First(m) /\ r[i] = Final(m)
      /\ r[i - 2].part \in {"gap", "final"}
  BY <1>2, <1>3, <1>4
<1> HIDE DEF i
<1> QED BY <1>5 DEF r, t, Whole

\* A whole message is finished.
LEMMA WholeFinished ==
  ASSUME NEW s \in Seq(Pieces), NEW m \in Messages, Whole(s, m)
  PROVE  m \in Finished(s)
<1>1. PICK i \in 2..Len(s) : s[i] = Final(m)
  BY DEF Whole
<1>2. i \in 1..Len(s) /\ s[i].part = "final" /\ s[i].of = m
  BY <1>1 DEF Final
<1> QED BY <1>2, FinishedAt

\* A console line between two pieces.
Inserted(s, p) == SubSeq(s, 1, p) \o <<Text>> \o From(s, p + 1)
\* Where the pieces are after a console line fell among them.
LEMMA InsertedIs ==
  ASSUME NEW s \in Seq(Pieces), NEW p \in 0..Len(s)
  PROVE  /\ Inserted(s, p) \in Seq(Pieces) /\ Len(s) \in Nat
         /\ Len(Inserted(s, p)) = Len(s) + 1
         /\ \A i \in 1..p : Inserted(s, p)[i] = s[i]
         /\ Inserted(s, p)[p + 1] = Text
         /\ \A i \in (p + 1)..Len(s) : Inserted(s, p)[i + 1] = s[i]
<1> DEFINE a == SubSeq(s, 1, p)
           t == <<Text>>
           b == From(s, p + 1)
           r == a \o t
           z == r \o b
<1>1. /\ Len(s) \in Nat /\ a \in Seq(Pieces) /\ Len(a) = p /\ \A i \in 1..p : a[i] = s[i]
  OBVIOUS
<1>2. t \in Seq(Pieces) /\ Len(t) = 1 /\ t[1] = Text
  BY MessageParts
<1>3. /\ b \in Seq(Pieces) /\ Len(b) = Len(s) - p
      /\ \A i \in 1..(Len(s) - p) : b[i] = s[p + i]
  BY <1>1 DEF From
<1> HIDE DEF a, b, t
<1>4. /\ r \in Seq(Pieces) /\ Len(r) = p + 1 /\ \A i \in 1..p : r[i] = a[i]
      /\ r[p + 1] = Text
  BY <1>1, <1>2, Joined
<1> HIDE DEF r
<1>5. /\ z \in Seq(Pieces) /\ Len(z) = Len(r) + Len(b)
      /\ \A i \in 1..Len(r) : z[i] = r[i]
      /\ \A i \in 1..Len(b) : z[Len(r) + i] = b[i]
  BY <1>3, <1>4, Joined
<1> HIDE DEF z
<1>6. ASSUME NEW i \in (p + 1)..Len(s) PROVE z[i + 1] = s[i]
  <2> DEFINE j == i - p
  <2>1. j \in 1..Len(b) /\ Len(r) + j = i + 1 /\ p + j = i /\ j \in 1..(Len(s) - p)
    BY <1>1, <1>3, <1>4
  <2>2. z[Len(r) + j] = b[j] /\ b[j] = s[p + j]
    BY <1>3, <1>5, <2>1
  <2> QED BY <2>1, <2>2
<1>7. /\ Len(z) = Len(s) + 1 /\ z[p + 1] = Text /\ \A i \in 1..p : z[i] = s[i]
  BY <1>1, <1>3, <1>4, <1>5
<1>8. Inserted(s, p) = z
  BY DEF Inserted, a, b, t, r, z
<1> QED BY <1>1, <1>5, <1>6, <1>7, <1>8

\* A last piece after it was one before.
LEMMA FinalsInserted ==
  ASSUME NEW s \in Seq(Pieces), NEW p \in 0..Len(s), NEW j \in Finals(Inserted(s, p))
  PROVE  \E i \in Finals(s) : /\ Inserted(s, p)[j] = s[i]
                              /\ (i = j /\ j <= p) \/ (i = j - 1 /\ i > p)
<1> DEFINE r == Inserted(s, p)
<1>1. /\ r \in Seq(Pieces) /\ Len(s) \in Nat /\ Len(r) = Len(s) + 1
      /\ \A i \in 1..p : r[i] = s[i]
      /\ r[p + 1] = Text
      /\ \A i \in (p + 1)..Len(s) : r[i + 1] = s[i]
  BY InsertedIs
<1> HIDE DEF r
<1>2. j \in 1..Len(r) /\ r[j].part = "final"
  BY <1>1, FinalsIs DEF r
<1>3. j # p + 1
  BY <1>1, <1>2 DEF Text
<1>4. CASE j <= p
  <2>1. j \in 1..Len(s) /\ r[j] = s[j]
    BY <1>1, <1>2, <1>4
  <2> QED BY <1>2, <1>4, <2>1, FinishedAt DEF r
<1>5. CASE j > p + 1
  <2> DEFINE i == j - 1
  <2>1. i \in (p + 1)..Len(s) /\ i \in 1..Len(s) /\ i + 1 = j /\ i > p
    BY <1>1, <1>2, <1>5
  <2>2. r[j] = s[i]
    BY <1>1, <2>1
  <2>3. i \in Finals(s)
    BY <1>2, <2>1, <2>2, FinishedAt
  <2> QED BY <2>1, <2>2, <2>3 DEF r
<1> QED BY <1>1, <1>2, <1>3, <1>4, <1>5

\* A console line finishes no message,
LEMMA FinishedInserted ==
  ASSUME NEW s \in Seq(Pieces), NEW p \in 0..Len(s)
  PROVE  Finished(Inserted(s, p)) \subseteq Finished(s)
BY FinalsInserted DEF Finished

\* changes no order,
LEMMA OrderInserted ==
  ASSUME NEW s \in Seq(Pieces), NEW p \in 0..Len(s), InOrder(s)
  PROVE  InOrder(Inserted(s, p))
<1> SUFFICES ASSUME NEW j \in Finals(Inserted(s, p)), NEW k \in Finals(Inserted(s, p)), j < k
             PROVE  Inserted(s, p)[j].of.id < Inserted(s, p)[k].of.id
  BY DEF InOrder
<1>1. PICK i \in Finals(s) : /\ Inserted(s, p)[j] = s[i]
                             /\ (i = j /\ j <= p) \/ (i = j - 1 /\ i > p)
  BY FinalsInserted
<1>2. PICK h \in Finals(s) : /\ Inserted(s, p)[k] = s[h]
                             /\ (h = k /\ k <= p) \/ (h = k - 1 /\ h > p)
  BY FinalsInserted
<1>3. i \in Nat /\ h \in Nat /\ j \in Nat /\ k \in Nat /\ p \in Nat
  <2> DEFINE r == Inserted(s, p)
  <2>1. r \in Seq(Pieces)
    BY InsertedIs
  <2>2. i \in 1..Len(s) /\ h \in 1..Len(s)
    BY FinalsIs
  <2> HIDE DEF r
  <2>3. Finals(r) \subseteq 1..Len(r)
    BY <2>1, FinalsIs
  <2>4. j \in 1..Len(r) /\ k \in 1..Len(r)
    BY <2>3 DEF r
  <2> QED BY <2>2, <2>4
<1>4. i < h
  BY <1>1, <1>2, <1>3
<1> QED BY <1>1, <1>2, <1>4 DEF InOrder

\* and moves two ends of frames apart by one.
LEMMA ShortInserted ==
  ASSUME NEW s \in Seq(Pieces), NEW p \in 0..Len(s), NEW n \in Nat, Short(s, n)
  PROVE  Short(Inserted(s, p), n + 1)
<1> DEFINE r == Inserted(s, p)
<1>1. /\ r \in Seq(Pieces) /\ Len(s) \in Nat /\ Len(r) = Len(s) + 1
      /\ \A i \in 1..p : r[i] = s[i]
      /\ r[p + 1] = Text
      /\ \A i \in (p + 1)..Len(s) : r[i + 1] = s[i]
  BY InsertedIs
<1> HIDE DEF r
<1>2. ASSUME NEW a \in 1..Len(r), NEW b \in 1..Len(r), Gapless(r, a, b)
      PROVE  b - a <= n + 1
  <2> DEFINE c == IF a <= p + 1 THEN a ELSE a - 1
             d == IF b <= p THEN b ELSE b - 1
  <2>1. CASE b <= a + 1
    BY <1>1, <2>1
  <2>2. CASE b > a + 1
    <3>1. c \in 1..Len(s) /\ d \in 1..Len(s) /\ d - c >= b - a - 1
      BY <1>1, <2>2
    <3>2. ASSUME NEW j \in c..d PROVE s[j].part \notin {"gap", "final"}
      <4>1. CASE j <= p
        <5>1. j \in a..b /\ r[j] = s[j]
          BY <1>1, <2>2, <3>1, <3>2, <4>1
        <5> QED BY <1>2, <5>1 DEF Gapless
      <4>2. CASE j > p
        <5>1. j + 1 \in a..b /\ r[j + 1] = s[j]
          BY <1>1, <2>2, <3>1, <3>2, <4>2
        <5> QED BY <1>2, <5>1 DEF Gapless
      <4> QED BY <3>1, <3>2, <4>1, <4>2
    <3>3. Gapless(s, c, d)
      BY <3>2 DEF Gapless
    <3> HIDE DEF c, d
    <3>4. d - c <= n
      BY <3>1, <3>3 DEF Short
    <3> QED BY <1>1, <3>1, <3>4
  <2> QED BY <1>1, <2>1, <2>2
<1> QED BY <1>2 DEF r, Short

\* A message that stands whole still does, or console text fell into it.
LEMMA WholeInserted ==
  ASSUME NEW s \in Seq(Pieces), NEW p \in 0..Len(s), NEW m \in Messages, Whole(s, m)
  PROVE  \/ Whole(Inserted(s, p), m)
         \/ p < Len(s) /\ s[p + 1].part \in {"first", "final"} /\ s[p + 1].of = m
<1> DEFINE r == Inserted(s, p)
<1>1. /\ r \in Seq(Pieces) /\ Len(s) \in Nat /\ Len(r) = Len(s) + 1
      /\ \A i \in 1..p : r[i] = s[i]
      /\ r[p + 1] = Text
      /\ \A i \in (p + 1)..Len(s) : r[i + 1] = s[i]
  BY InsertedIs
<1> HIDE DEF r
<1>2. PICK i \in 2..Len(s) : /\ s[i - 1] = First(m) /\ s[i] = Final(m)
                             /\ i = 2 \/ s[i - 2].part \in {"gap", "final"}
  BY DEF Whole
<1>3. CASE p + 1 \in {i - 1, i}
  BY <1>1, <1>2, <1>3 DEF First, Final
<1>4. CASE p >= i
  <2>1. /\ i \in 2..Len(r) /\ r[i - 1] = First(m) /\ r[i] = Final(m)
        /\ i = 2 \/ r[i - 2].part \in {"gap", "final"}
    BY <1>1, <1>2, <1>4
  <2> QED BY <2>1 DEF r, Whole
<1>5. CASE p + 1 < i - 1
  <2> DEFINE j == i + 1
  <2>1. j \in 3..Len(r) /\ j - 1 = i /\ j - 2 = i - 1 /\ i # 2
    <3> DEFINE n == Len(s)
               k == Len(r)
    <3>1. n \in Nat /\ k = n + 1 /\ i \in 2..n /\ p \in 0..n
      BY <1>1
    <3> HIDE DEF n, k
    <3>2. j \in 3..k /\ j - 1 = i /\ j - 2 = i - 1 /\ i # 2
      BY <1>5, <3>1
    <3> QED BY <3>2 DEF k
  <2>2. r[j] = s[i] /\ r[j - 1] = s[i - 1]
    <3>1. i \in (p + 1)..Len(s) /\ i - 1 \in (p + 1)..Len(s) /\ (i - 1) + 1 = i
      BY <1>1, <1>2, <1>5
    <3> QED BY <1>1, <2>1, <3>1
  <2>3. r[j - 2].part \in {"gap", "final"}
    <3>1. i - 2 \in (p + 1)..Len(s) /\ (i - 2) + 1 = i - 1
      BY <1>1, <1>2, <1>5
    <3>2. r[i - 1] = s[i - 2]
      BY <1>1, <3>1
    <3> HIDE DEF j
    <3> QED BY <1>2, <2>1, <3>2
  <2> HIDE DEF j
  <2> QED BY <1>2, <2>1, <2>2, <2>3 DEF r, Whole
<1> QED BY <1>1, <1>2, <1>3, <1>4, <1>5

-----------------------------------------------------------------------------
(* The first frame. *)

\* Up to its end e there is no other.
EndsAt(s, e) == /\ e \in 1..Len(s) /\ s[e].part \in {"gap", "final"}
                /\ \A i \in 1..(e - 1) : s[i].part \notin {"gap", "final"}

\* The frame removed was another message, and no other is gone.
LEMMA FrameRemoved ==
  ASSUME NEW s \in Seq(Pieces), NEW e, EndsAt(s, e), NEW m \in Messages, Whole(s, m)
  PROVE  \/ Whole(From(s, e + 1), m)
         \/ e = 2 /\ s[1] = First(m) /\ s[2] = Final(m)
<1> DEFINE r == From(s, e + 1)
<1>1. /\ e \in 1..Len(s) /\ s[e].part \in {"gap", "final"} /\ Len(s) \in Nat
      /\ \A i \in 1..(e - 1) : s[i].part \notin {"gap", "final"}
  BY DEF EndsAt
<1>2. /\ r \in Seq(Pieces) /\ Len(r) = Len(s) - e
      /\ \A i \in 1..(Len(s) - e) : r[i] = s[e + i]
  BY <1>1 DEF From
<1> HIDE DEF r
<1>3. PICK i \in 2..Len(s) : /\ s[i - 1] = First(m) /\ s[i] = Final(m)
                             /\ i = 2 \/ s[i - 2].part \in {"gap", "final"}
  BY DEF Whole
<1>4. First(m).part = "first" /\ Final(m).part = "final"
  BY DEF First, Final
<1>5. i >= e
  <2> SUFFICES ASSUME i < e PROVE FALSE
    BY <1>1, <1>3
  <2>1. i \in 1..(e - 1)
    BY <1>1, <1>3
  <2> QED BY <1>1, <1>3, <1>4, <2>1
<1>6. i # e + 1
  <2> SUFFICES ASSUME i = e + 1 PROVE FALSE
    OBVIOUS
  <2>1. i - 1 = e
    BY <1>1
  <2> QED BY <1>1, <1>3, <1>4, <2>1
<1>7. CASE i = e
  <2>1. i = 2
    <3> SUFFICES ASSUME i # 2 PROVE FALSE
      OBVIOUS
    <3>1. i - 2 \in 1..(e - 1)
      BY <1>1, <1>3, <1>7
    <3> QED BY <1>1, <1>3, <3>1
  <2> QED BY <1>3, <1>7, <2>1
<1>8. CASE i > e + 1
  <2> DEFINE j == i - e
  <2>1. j \in 2..Len(r) /\ j \in 1..(Len(s) - e) /\ j - 1 \in 1..(Len(s) - e)
        /\ e + j = i /\ e + (j - 1) = i - 1
    BY <1>1, <1>2, <1>3, <1>8
  <2>2. r[j] = s[i] /\ r[j - 1] = s[i - 1]
    BY <1>2, <2>1
  <2>3. j = 2 \/ r[j - 2].part \in {"gap", "final"}
    <3> SUFFICES ASSUME j # 2 PROVE r[j - 2].part \in {"gap", "final"}
      OBVIOUS
    <3>1. j - 2 \in 1..(Len(s) - e) /\ e + (j - 2) = i - 2 /\ i # 2
      BY <1>1, <2>1
    <3> QED BY <1>2, <1>3, <3>1
  <2> HIDE DEF j
  <2> QED BY <1>3, <2>1, <2>2, <2>3 DEF r, Whole
<1> QED BY <1>1, <1>3, <1>5, <1>6, <1>7, <1>8

\* What a frame removed finished was its own message.
LEMMA FinishedRemoved ==
  ASSUME NEW s \in Seq(Pieces), NEW e, EndsAt(s, e), NEW n \in Finished(s)
  PROVE  n \in Finished(From(s, e + 1)) \/ (s[e].part = "final" /\ n = s[e].of)
<1> DEFINE r == From(s, e + 1)
<1>1. /\ e \in 1..Len(s) /\ Len(s) \in Nat
      /\ \A i \in 1..(e - 1) : s[i].part \notin {"gap", "final"}
  BY DEF EndsAt
<1>2. /\ r \in Seq(Pieces) /\ Len(r) = Len(s) - e
      /\ \A i \in 1..(Len(s) - e) : r[i] = s[e + i]
  BY <1>1 DEF From
<1> HIDE DEF r
<1>3. PICK i \in 1..Len(s) : s[i].part = "final" /\ s[i].of = n
  BY FinishedFrom
<1>4. i >= e
  <2> SUFFICES ASSUME i < e PROVE FALSE
    BY <1>1, <1>3
  <2>1. i \in 1..(e - 1)
    BY <1>1
  <2> QED BY <1>1, <1>3, <2>1
<1>5. CASE i = e
  BY <1>3, <1>5
<1>6. CASE i > e
  <2> DEFINE j == i - e
  <2>1. j \in 1..(Len(s) - e) /\ e + j = i
    BY <1>1, <1>6
  <2>2. j \in 1..Len(r) /\ r[j].part = "final" /\ r[j].of = n
    BY <1>2, <1>3, <2>1
  <2> HIDE DEF j
  <2>3. n \in Finished(r)
    BY <1>2, <2>2, FinishedAt
  <2> QED BY <2>3 DEF r
<1> QED BY <1>1, <1>4, <1>5, <1>6

\* In a string in order everything behind the frame removed is later.
LEMMA LaterRemoved ==
  ASSUME NEW s \in Seq(Pieces), NEW e, EndsAt(s, e), s[e].part = "final", InOrder(s),
         NEW n \in Finished(From(s, e + 1))
  PROVE  s[e].of \in Finished(s) /\ s[e].of.id < n.id
<1> DEFINE r == From(s, e + 1)
<1>1. e \in 1..Len(s) /\ Len(s) \in Nat
  BY DEF EndsAt
<1>2. /\ r \in Seq(Pieces) /\ Len(r) = Len(s) - e
      /\ \A i \in 1..(Len(s) - e) : r[i] = s[e + i]
  BY <1>1 DEF From
<1> HIDE DEF r
<1>3. PICK i \in 1..Len(r) : r[i].part = "final" /\ r[i].of = n
  BY <1>2, FinishedFrom DEF r
<1>4. e + i \in 1..Len(s) /\ s[e + i].part = "final" /\ s[e + i].of = n /\ e < e + i
  BY <1>1, <1>2, <1>3
<1> DEFINE j == e + i
<1>5. j \in 1..Len(s) /\ s[j].part = "final" /\ s[j].of = n /\ e < j
  BY <1>4
<1> HIDE DEF j
<1>6. j \in Finals(s) /\ e \in Finals(s) /\ s[e].of \in Finished(s)
  BY <1>1, <1>5, FinishedAt
<1> QED BY <1>5, <1>6 DEF InOrder

\* The first frame of what the host has buffered is the first of what comes.
LEMMA FromJoin ==
  ASSUME NEW p \in Seq(Pieces), NEW d \in Seq(Pieces), NEW n \in 1..(Len(p) + 1)
  PROVE  From(p, n) \o d = From(p \o d, n) /\ n \in 1..(Len(p \o d) + 1)
<1> DEFINE a == From(p, n)
           s == p \o d
           b == From(s, n)
           x == a \o d
<1>1. /\ s \in Seq(Pieces) /\ Len(p) \in Nat /\ Len(d) \in Nat
      /\ Len(s) = Len(p) + Len(d)
      /\ \A i \in 1..Len(p) : s[i] = p[i]
      /\ \A i \in 1..Len(d) : s[Len(p) + i] = d[i]
  BY Joined
<1>2. /\ a \in Seq(Pieces) /\ Len(a) = Len(p) + 1 - n
      /\ \A i \in 1..(Len(p) + 1 - n) : a[i] = p[n + i - 1]
  BY FromIs
<1> HIDE DEF s, a
<1>3. n \in 1..(Len(s) + 1)
  BY <1>1
<1>4. /\ b \in Seq(Pieces) /\ Len(b) = Len(s) + 1 - n
      /\ \A i \in 1..(Len(s) + 1 - n) : b[i] = s[n + i - 1]
  BY <1>1, <1>3, FromIs
<1>5. /\ x \in Seq(Pieces) /\ Len(x) = Len(a) + Len(d)
      /\ \A i \in 1..Len(a) : x[i] = a[i]
      /\ \A i \in 1..Len(d) : x[Len(a) + i] = d[i]
  BY <1>2, Joined
<1> HIDE DEF b, x
<1>6. Len(x) = Len(b)
  BY <1>1, <1>2, <1>4, <1>5
<1>7. ASSUME NEW i \in 1..Len(x) PROVE x[i] = b[i]
  <2>1. CASE i <= Len(a)
    <3>1. i \in 1..Len(a) /\ n + i - 1 \in 1..Len(p) /\ i \in 1..(Len(s) + 1 - n)
      BY <1>1, <1>2, <1>4, <1>6, <2>1
    <3> QED BY <1>1, <1>2, <1>4, <1>5, <3>1
  <2>2. CASE i > Len(a)
    <3> DEFINE j == i - Len(a)
    <3>1. j \in 1..Len(d) /\ Len(a) + j = i /\ n + i - 1 = Len(p) + j /\ i \in 1..(Len(s) + 1 - n)
      BY <1>1, <1>2, <1>4, <1>5, <1>6, <2>2
    <3>2. x[Len(a) + j] = d[j] /\ s[Len(p) + j] = d[j]
      BY <1>1, <1>5, <3>1
    <3> QED BY <1>4, <3>1, <3>2
  <2> QED BY <1>2, <2>1, <2>2
<1>8. x = b
  BY <1>4, <1>5, <1>6, <1>7, SeqEqual
<1> QED BY <1>3, <1>8 DEF x, b, s, a

\* A read moves a part of the pipe to the buffer.
LEMMA ReadJoin ==
  ASSUME NEW p \in Seq(Pieces), NEW d \in Seq(Pieces), NEW n \in 1..Len(d)
  PROVE  /\ (p \o SubSeq(d, 1, n)) \o From(d, n + 1) = p \o d
         /\ p \o SubSeq(d, 1, n) \in Seq(Pieces)
         /\ Len(p \o SubSeq(d, 1, n)) = Len(p) + n
         /\ From(p \o d, Len(p) + n + 1) = From(d, n + 1)
         /\ Len(p) + n + 1 \in 1..(Len(p \o d) + 1)
<1> DEFINE c == SubSeq(d, 1, n)
           a == p \o c
           b == From(d, n + 1)
           x == a \o b
           s == p \o d
           z == From(s, Len(p) + n + 1)
<1>1. /\ s \in Seq(Pieces) /\ Len(p) \in Nat /\ Len(d) \in Nat
      /\ Len(s) = Len(p) + Len(d)
      /\ \A i \in 1..Len(p) : s[i] = p[i]
      /\ \A i \in 1..Len(d) : s[Len(p) + i] = d[i]
  BY Joined
<1>2. c \in Seq(Pieces) /\ Len(c) = n /\ \A i \in 1..n : c[i] = d[i]
  OBVIOUS
<1>3. /\ b \in Seq(Pieces) /\ Len(b) = Len(d) - n
      /\ \A i \in 1..(Len(d) - n) : b[i] = d[n + i]
  BY DEF From
<1> HIDE DEF c, b, s
<1>4. /\ a \in Seq(Pieces) /\ Len(a) = Len(p) + Len(c)
      /\ \A i \in 1..Len(p) : a[i] = p[i]
      /\ \A i \in 1..Len(c) : a[Len(p) + i] = c[i]
  BY <1>2, Joined
<1> HIDE DEF a
<1>5. /\ x \in Seq(Pieces) /\ Len(x) = Len(a) + Len(b)
      /\ \A i \in 1..Len(a) : x[i] = a[i]
      /\ \A i \in 1..Len(b) : x[Len(a) + i] = b[i]
  BY <1>3, <1>4, Joined
<1> HIDE DEF x
<1>6. Len(x) = Len(s)
  BY <1>1, <1>2, <1>3, <1>4, <1>5
<1>7. ASSUME NEW i \in 1..Len(x) PROVE x[i] = s[i]
  <2>1. CASE i <= Len(p)
    <3>1. i \in 1..Len(p) /\ i \in 1..Len(a)
      BY <1>1, <1>2, <1>4, <2>1
    <3> QED BY <1>1, <1>4, <1>5, <3>1
  <2>2. CASE i > Len(p) /\ i <= Len(a)
    <3> DEFINE j == i - Len(p)
    <3>1. j \in 1..Len(c) /\ j \in 1..Len(d) /\ Len(p) + j = i /\ i \in 1..Len(a)
      BY <1>1, <1>2, <1>4, <2>2
    <3> HIDE DEF j
    <3>2. x[i] = a[i] /\ a[i] = c[j] /\ c[j] = d[j] /\ s[i] = d[j]
      BY <1>1, <1>2, <1>4, <1>5, <3>1
    <3> QED BY <3>2
  <2>3. CASE i > Len(a)
    <3> DEFINE j == i - Len(a)
    <3>1. j \in 1..Len(b) /\ j \in 1..(Len(d) - n) /\ Len(a) + j = i /\ n + j \in 1..Len(d)
          /\ Len(p) + (n + j) = i
      BY <1>1, <1>2, <1>3, <1>4, <1>5, <2>3
    <3> HIDE DEF j
    <3>2. x[i] = b[j] /\ b[j] = d[n + j] /\ s[i] = d[n + j]
      BY <1>1, <1>3, <1>5, <3>1
    <3> QED BY <3>2
  <2> QED BY <1>1, <1>4, <2>1, <2>2, <2>3
<1>8. x = s
  BY <1>1, <1>5, <1>6, <1>7, SeqEqual
<1>9. Len(p) + n + 1 \in 1..(Len(s) + 1)
  BY <1>1
<1>10. /\ z \in Seq(Pieces) /\ Len(z) = Len(s) + 1 - (Len(p) + n + 1)
       /\ \A i \in 1..(Len(s) + 1 - (Len(p) + n + 1)) : z[i] = s[(Len(p) + n + 1) + i - 1]
  BY <1>1, <1>9, FromIs
<1> HIDE DEF z
<1>11. Len(z) = Len(b)
  BY <1>1, <1>3, <1>10
<1>12. ASSUME NEW i \in 1..Len(z) PROVE z[i] = b[i]
  <2> DEFINE j == n + i
  <2>1. j \in 1..Len(d) /\ (Len(p) + n + 1) + i - 1 = Len(p) + j /\ i \in 1..(Len(d) - n)
        /\ i \in 1..(Len(s) + 1 - (Len(p) + n + 1))
    BY <1>1, <1>3, <1>10, <1>11
  <2>2. z[i] = s[Len(p) + j] /\ b[i] = d[j]
    BY <1>3, <1>10, <2>1
  <2> HIDE DEF j
  <2> QED BY <1>1, <2>1, <2>2
<1>13. z = b
  BY <1>3, <1>10, <1>11, <1>12, SeqEqual
<1>14. Len(a) = Len(p) + n /\ a \in Seq(Pieces)
  BY <1>2, <1>4
<1> QED BY <1>8, <1>9, <1>13, <1>14 DEF x, a, b, c, s, z

-----------------------------------------------------------------------------
(* A line, and what its flow is after a change. *)

\* Requests are later than what the probe has in hand, and that is later than the
\* replies.
Line(s, v, d, calls) ==
  /\ s \in Seq(Pieces) /\ v \in Seq(Pieces) /\ calls \in Nat
  /\ d \in Messages \cup {NoMessage}
  /\ \A n \in InTransit(s, v, d) : n.id \in 1..calls
  /\ \A n \in Finished(s), k \in Finished(v) : n.id < k.id
  /\ d # NoMessage => \A k \in Finished(v) : d.id < k.id

\* The facts of a line, with the types they imply.
LEMMA LineIs ==
  ASSUME NEW s, NEW v, NEW d, NEW calls, Line(s, v, d, calls)
  PROVE  /\ s \in Seq(Pieces) /\ v \in Seq(Pieces) /\ calls \in Nat
         /\ d \in Messages \cup {NoMessage}
         /\ \A n \in InTransit(s, v, d) : n \in Messages /\ n.id \in 1..calls /\ n.id \in Nat
         /\ \A n \in Finished(s), k \in Finished(v) : n.id < k.id
         /\ d # NoMessage => \A k \in Finished(v) : d.id < k.id
<1>1. s \in Seq(Pieces) /\ v \in Seq(Pieces) /\ d \in Messages \cup {NoMessage}
  BY DEF Line
<1>2. InTransit(s, v, d) \subseteq Messages
  BY <1>1, FinalsIs DEF InTransit
<1>3. \A n \in InTransit(s, v, d) : n.id \in 1..calls
  BY DEF Line
<1> QED BY <1>2, <1>3 DEF Line

\* Numbers are numbers: those of a message, of the constants, of a host.
LEMMA MessageNats ==
  \A m \in Messages : m.id \in Nat /\ m.seq \in Nat /\ m.id \in Calls
<1> SUFFICES ASSUME NEW m \in Messages PROVE m.id \in Nat /\ m.seq \in Nat /\ m.id \in Calls
  OBVIOUS
<1>1. m.id \in Calls /\ m.seq \in 0..(SeqModulus - 1)
  BY DEF Messages
<1>2. SeqModulus \in Nat \ {0} /\ Calls \subseteq Nat
  BY Numbers
<1>3. m.seq \in Nat
  BY <1>1, <1>2
<1> QED BY <1>1, <1>2, <1>3

LEMMA ConstantNats ==
  /\ SeqModulus \in Nat \ {0} /\ Depth \in Nat /\ LinkRoom \in Nat /\ LinkRoom < SeqModulus
  /\ PendingLimit \in Nat /\ ReadChunk \in Nat \ {0} /\ 2 * ReadChunk <= PendingLimit
  /\ Depth > 0 /\ \A l \in Links : MaxNoise[l] \in Nat
BY BridgeAssumption

LEMMA HostNats ==
  ASSUME NEW h \in HostType
  PROVE  /\ h.calls \in Nat /\ h.sequence \in Nat /\ h.sequence < SeqModulus
         /\ h.inflight \in Seq(Messages) /\ Len(h.inflight) \in Nat
         /\ h.pending \in Seq(Pieces) /\ h.open \in BOOLEAN
<1>1. /\ h.calls \in {0} \cup Calls /\ h.sequence \in 0..(SeqModulus - 1)
      /\ h.inflight \in Seq(Messages) /\ h.pending \in Seq(Pieces) /\ h.open \in BOOLEAN
  BY DEF HostType
<1>2. h.calls \in Nat
  BY <1>1, Counted
<1>3. h.sequence \in Nat /\ h.sequence < SeqModulus
  BY <1>1, ConstantNats
<1> QED BY <1>1, <1>2, <1>3

\* Two of a session's messages with one number are a multiple of SeqModulus apart.
LEMMA NumberedApart ==
  ASSUME NEW h, h.calls \in Nat, h.sequence \in Nat, NEW m \in Messages, NEW n \in Messages,
         Numbered(m, h), Numbered(n, h), m.seq = n.seq, m.id < n.id
  PROVE  n.id - m.id >= SeqModulus
<1>1. /\ m.id \in Nat /\ n.id \in Nat /\ m.seq \in Nat /\ SeqModulus \in Nat \ {0}
  BY MessageNats, ConstantNats
<1>2. PICK i \in Nat : m.seq + (h.calls - m.id) = h.sequence + i * SeqModulus
  BY DEF Numbered
<1>3. PICK j \in Nat : n.seq + (h.calls - n.id) = h.sequence + j * SeqModulus
  BY DEF Numbered
<1>4. n.id - m.id = i * SeqModulus - j * SeqModulus
      /\ i * SeqModulus \in Nat /\ j * SeqModulus \in Nat
  BY <1>1, <1>2, <1>3
<1>5. i > j
  <2> SUFFICES ASSUME i <= j PROVE FALSE
    OBVIOUS
  <2>1. i * SeqModulus <= j * SeqModulus
    BY <1>1
  <2> QED BY <1>1, <1>4, <2>1
<1>6. i * SeqModulus >= (j + 1) * SeqModulus
  BY <1>1, <1>5
<1>7. (j + 1) * SeqModulus = j * SeqModulus + SeqModulus
  BY <1>1
<1> QED BY <1>1, <1>4, <1>6, <1>7

\* A request more is one further from every earlier one.
LEMMA OneMore ==
  \A a, b, c, q, x, k \in Int : a + (b - c) = q + x /\ q + 1 = k => a + (b + 1 - c) = k + x
OBVIOUS

\* A request more is one number more.
Follows(g, h) ==
  /\ g.calls = h.calls + 1
  /\ g.sequence = IF h.sequence + 1 = SeqModulus THEN 0 ELSE h.sequence + 1
\* After one more request a message of the session is still numbered as its own.
LEMMA NumberedNext ==
  ASSUME NEW h, h.calls \in Nat, h.sequence \in Nat, h.sequence < SeqModulus, NEW m \in Messages,
         Numbered(m, h),
         NEW g, Follows(g, h)
  PROVE  Numbered(m, g)
<1>1. m.id \in Nat /\ m.seq \in Nat /\ SeqModulus \in Nat \ {0}
  BY MessageNats, ConstantNats
<1>2. PICK i \in Nat : m.seq + (h.calls - m.id) = h.sequence + i * SeqModulus
  BY DEF Numbered
<1>3. i * SeqModulus \in Nat /\ (i + 1) * SeqModulus = i * SeqModulus + SeqModulus
  BY <1>1
<1>4. CASE h.sequence + 1 = SeqModulus
  <2>1. g.sequence = 0
    BY <1>4 DEF Follows
  <2>2. m.seq + (g.calls - m.id) = g.sequence + (i + 1) * SeqModulus
    <3>1. m.seq + (h.calls + 1 - m.id) = SeqModulus + i * SeqModulus
      <4> DEFINE x == i * SeqModulus
                 b == h.calls
                 q == h.sequence
                 c == m.id
                 a == m.seq
                 k == SeqModulus
      <4>1. m.seq + (h.calls - m.id) = h.sequence + x /\ x \in Nat
        BY <1>2, <1>3
      <4>2. a \in Int /\ c \in Int /\ k \in Int /\ b \in Int /\ q \in Int /\ q + 1 = k
        BY <1>1, <1>4
      <4>4. a + (b - c) = q + x /\ x \in Int
        BY <4>1
      <4> HIDE DEF x, a, b, c, q, k
      <4>5. a + (b + 1 - c) = k + x
        BY <4>2, <4>4, OneMore
      <4>3. m.seq + (h.calls + 1 - m.id) = SeqModulus + x
        BY <4>5 DEF a, b, c, k
      <4> QED BY <4>3 DEF x
    <3>2. g.calls = h.calls + 1
      BY DEF Follows
    <3> QED BY <1>1, <1>3, <2>1, <3>1, <3>2
  <2> QED BY <2>2 DEF Numbered
<1>5. CASE h.sequence + 1 < SeqModulus
  <2>1. g.sequence = h.sequence + 1 /\ g.calls = h.calls + 1
    BY <1>1, <1>5 DEF Follows
  <2>2. m.seq + (g.calls - m.id) = g.sequence + i * SeqModulus
    BY <1>1, <1>2, <1>3, <2>1
  <2> QED BY <2>2 DEF Numbered
<1> QED BY <1>1, <1>4, <1>5

\* A session that awaits nothing.
LEMMA FlowBare ==
  ASSUME NEW l \in Links, NEW h, NEW s, NEW v, NEW d, NEW sp, NEW nz,
         h.inflight = <<>>, ~h.open => h.pending = <<>>,
         nz <= MaxNoise[l], l \in Streams => nz = 0 /\ sp = {},
         InOrder(s), AllBefore(s, d), Short(s, nz),
         l \in Streams /\ h.open => Streamed(h, InTransit(s, v, d))
  PROVE  Flow(l, h, s, v, d, sp, nz)
<1> DEFINE f == h.inflight
<1>1. Len(f) = 0 /\ f = <<>>
  OBVIOUS
<1>2. 0 <= Depth
  BY BridgeAssumption
<1> HIDE DEF f
<1>3. Paced(h)
  BY <1>1, <1>2 DEF Paced, f
<1>4. Same(f, InTransit(s, v, d)) /\ Flight(f, s, v, d, sp)
  BY <1>1 DEF Same, Flight
<1> QED BY <1>1, <1>3, <1>4 DEF Flow, f

\* The same messages, further on, or damaged.
LEMMA FlowMove ==
  ASSUME NEW l \in Links, NEW h, NEW s, NEW v, NEW d, NEW sp, NEW nz,
         Flow(l, h, s, v, d, sp, nz), h.inflight \in Seq(Messages),
         NEW g, g.inflight = h.inflight, g.calls = h.calls, g.sequence = h.sequence,
         g.open = h.open, ~g.open => g.pending = <<>>,
         NEW t, NEW w, NEW e, NEW sq, NEW nn,
         InTransit(t, w, e) \subseteq InTransit(s, v, d), sp \subseteq sq,
         l \in Streams => InTransit(s, v, d) \subseteq InTransit(t, w, e) /\ sq = {} /\ nn = 0,
         nn <= MaxNoise[l], InOrder(t), AllBefore(t, e), Short(t, nn),
         Ample(l) => \A m \in Messages :
                       OnWay(m, s, v, d) => OnWay(m, t, w, e) \/ m.id \in sq
  PROVE  Flow(l, g, t, w, e, sq, nn)
<1> DEFINE f == h.inflight
<1>1. Paced(g)
  BY DEF Flow, Paced, Numbered
<1>2. Same(f, InTransit(t, w, e))
  BY DEF Flow, Same
<1>3. ASSUME Ample(l) PROVE Flight(f, t, w, e, sq)
  <2> SUFFICES ASSUME NEW i \in 1..Len(f)
               PROVE  f[i].id \in sq \/ OnWay(f[i], t, w, e) \/ Overtaken(f, t, w, e, sq)
    BY DEF Flight
  <2>1. f[i].id \in sp \/ OnWay(f[i], s, v, d) \/ Overtaken(f, s, v, d, sp)
    BY <1>3 DEF Flow, Flight
  <2>2. f[i] \in Messages
    OBVIOUS
  <2>3. OnWay(f[i], s, v, d) => OnWay(f[i], t, w, e) \/ f[i].id \in sq
    BY <1>3, <2>2
  <2>4. Overtaken(f, s, v, d, sp) => Overtaken(f, t, w, e, sq)
    BY DEF Overtaken
  <2> QED BY <2>1, <2>3, <2>4
<1>4. l \in Streams /\ g.open => Streamed(g, InTransit(t, w, e))
  <2> SUFFICES ASSUME l \in Streams, g.open PROVE Streamed(g, InTransit(t, w, e))
    OBVIOUS
  <2>1. InTransit(t, w, e) = InTransit(s, v, d)
    OBVIOUS
  <2> QED BY <2>1 DEF Flow, Streamed, Numbered
<1>5. ~g.open => g.inflight = <<>> /\ g.pending = <<>>
  BY DEF Flow
<1> QED BY <1>1, <1>2, <1>3, <1>4, <1>5 DEF Flow

\* A request is sent.
Makes(g, h, m) ==
  /\ m.id = g.calls /\ m.seq = g.sequence /\ Follows(g, h) /\ g.open = h.open
  /\ g.inflight = Append(h.inflight, m) /\ Len(h.inflight) + 1 <= Depth
RoomFor(m, T) == LinkRoom > 0 /\ \A n \in T : m.id - n.id < LinkRoom
\* A request sent goes to the end of the line, with the number after the last.
LEMMA FlowSend ==
  ASSUME NEW l \in Links, NEW h \in HostType, NEW s, NEW v, NEW d, NEW sp, NEW nz,
         Flow(l, h, s, v, d, sp, nz), Line(s, v, d, h.calls), h.open,
         NEW m \in Messages, NEW g, Makes(g, h, m),
         l \in Streams => RoomFor(m, InTransit(s, v, d))
  PROVE  Flow(l, g, s, v \o Framed(m), d, sp, nz)
<1> DEFINE f == h.inflight
           k == Len(f)
           T == InTransit(s, v, d)
           w == v \o Framed(m)
           U == InTransit(s, w, d)
<1>1. /\ f \in Seq(Messages) /\ k \in Nat /\ h.calls \in Nat /\ h.sequence \in Nat
      /\ h.sequence < SeqModulus
  BY HostNats
<1>0. m.id = h.calls + 1 /\ g.calls = m.id /\ m.id \in Nat
  BY MessageNats DEF Makes, Follows
<1>2. /\ s \in Seq(Pieces) /\ v \in Seq(Pieces) /\ d \in Messages \cup {NoMessage}
      /\ \A n \in T : n \in Messages /\ n.id \in 1..h.calls /\ n.id \in Nat
  BY LineIs
<1>3. Finished(w) = Finished(v) \cup {m} /\ U = T \cup {m}
  <2>1. Framed(m) \in Seq(Pieces)
    BY MessageParts
  <2>2. Finished(w) = Finished(v) \cup {m}
    <3>1. Finished(w) = Finished(v) \cup Finished(Framed(m))
      BY <1>2, <2>1, FinishedJoin
    <3> QED BY <3>1, FinishedFrame
  <2> QED BY <2>2 DEF InTransit
<1>4. /\ Len(g.inflight) = k + 1 /\ g.inflight[k + 1] = m
      /\ \A i \in 1..k : g.inflight[i] = f[i] /\ f[i] \in Messages
  BY <1>1 DEF Makes
<1>5. Numbered(m, g)
  <2>1. m.seq \in Nat /\ SeqModulus \in Nat /\ m.seq = g.sequence
    BY MessageNats, ConstantNats DEF Makes
  <2>2. m.seq + (g.calls - m.id) = g.sequence + 0 * SeqModulus
    BY <1>0, <2>1
  <2> QED BY <2>2 DEF Numbered
<1>6. \A n \in Messages : Numbered(n, h) => Numbered(n, g)
  BY <1>1, NumberedNext DEF Makes
<1>7. \A i \in 1..k : f[i].id = h.calls - k + i /\ Numbered(f[i], h)
  BY DEF Flow, Paced
<1> HIDE DEF f, k, T, U, w
<1>8. Paced(g)
  <2>1. ASSUME NEW i \in 1..(k + 1)
        PROVE  /\ g.inflight[i].id = g.calls - Len(g.inflight) + i
               /\ Numbered(g.inflight[i], g)
    <3>1. CASE i \in 1..k
      <4>1. g.calls - Len(g.inflight) + i = h.calls - k + i
        BY <1>0, <1>1, <1>4, <3>1
      <4>2. Numbered(f[i], g) /\ g.inflight[i] = f[i] /\ f[i].id = h.calls - k + i
        BY <1>4, <1>6, <1>7, <3>1
      <4> QED BY <4>1, <4>2
    <3>2. CASE i = k + 1
      BY <1>0, <1>1, <1>4, <1>5, <3>2
    <3> QED BY <1>1, <2>1, <3>1, <3>2
  <2> QED BY <1>4, <2>1 DEF Paced, Makes, k, f
<1>9. Same(g.inflight, U)
  <2>1. SUFFICES ASSUME NEW n \in U, NEW i \in 1..(k + 1), n.id = g.inflight[i].id
                 PROVE  n = g.inflight[i]
    BY <1>4 DEF Same
  <2>2. CASE n = m
    <3>1. CASE i \in 1..k
      <4>1. f[i].id <= h.calls /\ n.id = f[i].id
        BY <1>1, <1>4, <1>7, <2>1, <3>1
      <4> QED BY <1>0, <1>1, <2>2, <4>1
    <3>2. CASE i = k + 1
      BY <1>4, <2>2, <3>2
    <3> QED BY <1>1, <2>1, <3>1, <3>2
  <2>3. CASE n \in T
    <3>1. CASE i \in 1..k
      BY <1>4, <2>1, <2>3, <3>1 DEF Flow, Same, T, f, k
    <3>2. CASE i = k + 1
      BY <1>0, <1>1, <1>2, <1>4, <2>1, <2>3, <3>2
    <3> QED BY <1>1, <2>1, <3>1, <3>2
  <2> QED BY <1>3, <2>1, <2>2, <2>3
<1>10. ASSUME Ample(l) PROVE Flight(g.inflight, s, w, d, sp)
  <2>1. SUFFICES ASSUME NEW i \in 1..(k + 1)
                 PROVE  \/ g.inflight[i].id \in sp \/ OnWay(g.inflight[i], s, w, d)
                        \/ Overtaken(g.inflight, s, w, d, sp)
    BY <1>4 DEF Flight
  <2>2. CASE i = k + 1
    BY <1>3, <1>4, <2>2 DEF OnWay
  <2>3. CASE i \in 1..k
    <3>1. f[i].id \in sp \/ OnWay(f[i], s, v, d) \/ Overtaken(f, s, v, d, sp)
      BY <1>10, <2>3 DEF Flow, Flight, f, k
    <3>2. OnWay(f[i], s, v, d) => OnWay(f[i], s, w, d)
      BY <1>3 DEF OnWay
    <3>3. Overtaken(f, s, v, d, sp) => Overtaken(g.inflight, s, w, d, sp)
      <4>1. 1 \in 1..k /\ g.inflight[1] = f[1] /\ f[1].id <= h.calls
        BY <1>1, <1>4, <1>7, <2>3
      <4>2. f[1].id \in Nat
        BY <1>4, <4>1, MessageNats
      <4> QED BY <1>0, <1>1, <1>3, <4>1, <4>2 DEF Overtaken, T, U
    <3> QED BY <1>4, <2>3, <3>1, <3>2, <3>3
  <2> QED BY <1>1, <2>1, <2>2, <2>3
<1>11. ASSUME l \in Streams PROVE Streamed(g, U)
  <2>1. Streamed(h, T)
    BY <1>11 DEF Flow, T
  <2>2. SUFFICES ASSUME NEW n \in U
                 PROVE  /\ Numbered(n, g) /\ g.calls - n.id < LinkRoom
                        /\ \A c \in n.id..g.calls : \E x \in U : x.id = c
    BY DEF Streamed
  <2>3. CASE n = m
    BY <1>0, <1>1, <1>3, <1>5, <1>11, <2>3 DEF RoomFor
  <2>4. CASE n \in T
    <3>1. Numbered(n, g)
      BY <1>2, <1>6, <2>1, <2>4 DEF Streamed
    <3>2. g.calls - n.id < LinkRoom
      BY <1>0, <1>11, <2>4 DEF T, RoomFor
    <3>3. ASSUME NEW c \in n.id..g.calls PROVE \E x \in U : x.id = c
      <4>1. c = m.id \/ c \in n.id..h.calls
        BY <1>0, <1>1, <1>2, <2>4
      <4> QED BY <1>3, <2>1, <2>4, <4>1 DEF Streamed
    <3> QED BY <3>1, <3>2, <3>3
  <2> QED BY <1>3, <2>2, <2>3, <2>4
<1>12. /\ nz <= MaxNoise[l] /\ (l \in Streams => nz = 0 /\ sp = {})
       /\ InOrder(s) /\ AllBefore(s, d) /\ Short(s, nz)
  BY DEF Flow
<1>13. g.open
  BY DEF Makes
<1> QED BY <1>8, <1>9, <1>10, <1>11, <1>12, <1>13 DEF Flow, U, w

-----------------------------------------------------------------------------
(* A frame is taken from the buffer. *)

\* The reply awaited first is not behind an undamaged one to a later request.
LEMMA FirstAwaited ==
  ASSUME NEW l \in Links, NEW h \in HostType, NEW s, NEW v, NEW d, NEW sp, NEW nz,
         Flow(l, h, s, v, d, sp, nz), Line(s, v, d, h.calls), Ample(l),
         Len(h.inflight) >= 1, h.inflight[1].id \notin sp,
         NEW e, EndsAt(s, e), s[e].part = "final"
  PROVE  s[e].of.id <= h.inflight[1].id
<1> DEFINE f == h.inflight
           m == f[1]
           n == s[e].of
<1>1. f \in Seq(Messages) /\ Len(f) \in Nat /\ 1 \in 1..Len(f)
  BY HostNats
<1>2. m \in Messages /\ m.id \in Nat
  BY <1>1, MessageNats
<1>3. OnWay(m, s, v, d)
  BY <1>1 DEF Flow, Flight, Overtaken
<1>4. /\ s \in Seq(Pieces) /\ d \in Messages \cup {NoMessage}
      /\ \A x \in Finished(s), y \in Finished(v) : x.id < y.id
  BY LineIs
<1>5. n \in Finished(s) /\ n \in Messages /\ n.id \in Nat
  <2>1. n \in Finished(s)
    BY <1>4, FinishedAt DEF EndsAt
  <2> QED BY <1>4, <2>1, FinalsIs, MessageNats
<1> HIDE DEF f, m, n
<1>6. ASSUME m \in Finished(v) PROVE n.id <= m.id
  BY <1>2, <1>4, <1>5, <1>6
<1>7. ASSUME m = d PROVE n.id <= m.id
  <2>1. d # NoMessage
    BY <1>2, <1>7, MessageParts
  <2>2. AllBefore(s, d)
    BY DEF Flow
  <2> QED BY <1>2, <1>5, <1>7, <2>1, <2>2 DEF AllBefore
<1>8. ASSUME Whole(s, m) PROVE n.id <= m.id
  <2>1. m \in Finished(s)
    BY <1>2, <1>4, <1>8, WholeFinished
  <2>2. m \in Finished(From(s, e + 1)) \/ m = n
    BY <1>4, <2>1, FinishedRemoved DEF n
  <2>3. InOrder(s)
    BY DEF Flow
  <2>4. m \in Finished(From(s, e + 1)) => n.id < m.id
    BY <1>4, <2>3, LaterRemoved DEF n
  <2> QED BY <1>2, <1>5, <2>2, <2>4
<1>9. n.id <= m.id
  BY <1>3, <1>6, <1>7, <1>8 DEF OnWay
<1> QED BY <1>9 DEF m, n, f

\* What is in transit behind it is later than it, and is all but it.
LEMMA Behind ==
  ASSUME NEW s, NEW v, NEW d, NEW calls, Line(s, v, d, calls), NEW e, EndsAt(s, e),
         InOrder(s), AllBefore(s, d)
  PROVE  LET T == InTransit(s, v, d)
             U == InTransit(From(s, e + 1), v, d) IN
         /\ U \subseteq T
         /\ s[e].part = "final" => /\ s[e].of \in Finished(s) /\ s[e].of \in T
                                   /\ \A n \in U : s[e].of.id < n.id
                                   /\ T \subseteq U \cup {s[e].of}
         /\ s[e].part # "final" => T \subseteq U
<1> DEFINE r == From(s, e + 1)
           T == InTransit(s, v, d)
           U == InTransit(r, v, d)
<1>1. /\ s \in Seq(Pieces) /\ e \in 1..Len(s) /\ Len(s) \in Nat /\ e + 1 \in 1..(Len(s) + 1)
      /\ \A x \in Finished(s), y \in Finished(v) : x.id < y.id
  BY LineIs DEF EndsAt
<1>2. Finished(r) \subseteq Finished(s)
  BY <1>1, FinishedCut
<1>3. U \subseteq T
  BY <1>2 DEF InTransit
<1>4. ASSUME s[e].part = "final"
      PROVE  /\ s[e].of \in Finished(s) /\ s[e].of \in T
             /\ \A n \in U : s[e].of.id < n.id
             /\ T \subseteq U \cup {s[e].of}
  <2>1. s[e].of \in Finished(s)
    BY <1>1, <1>4, FinishedAt
  <2>2. \A n \in Finished(r) : s[e].of.id < n.id
    BY <1>1, <1>4, LaterRemoved
  <2>3. \A n \in U : s[e].of.id < n.id
    BY <1>1, <2>1, <2>2 DEF InTransit, AllBefore
  <2>4. T \subseteq U \cup {s[e].of}
    <3>1. \A n \in Finished(s) : n \in Finished(r) \/ n = s[e].of
      BY <1>1, FinishedRemoved
    <3> QED BY <3>1 DEF InTransit
  <2> QED BY <2>1, <2>3, <2>4 DEF InTransit
<1>5. ASSUME s[e].part # "final" PROVE T \subseteq U
  <2>1. \A n \in Finished(s) : n \in Finished(r)
    BY <1>1, <1>5, FinishedRemoved
  <2> QED BY <2>1 DEF InTransit
<1> QED BY <1>3, <1>4, <1>5

\* What a stream carries behind it goes on from its oldest message.
LEMMA StreamedBehind ==
  ASSUME NEW s, NEW v, NEW d, NEW h \in HostType, Line(s, v, d, h.calls), NEW e, EndsAt(s, e),
         InOrder(s), AllBefore(s, d), Streamed(h, InTransit(s, v, d)),
         NEW g, g.calls = h.calls, g.sequence = h.sequence
  PROVE  Streamed(g, InTransit(From(s, e + 1), v, d))
<1> DEFINE T == InTransit(s, v, d)
           U == InTransit(From(s, e + 1), v, d)
<1>1. /\ U \subseteq T
      /\ s[e].part = "final" => /\ s[e].of \in T /\ \A n \in U : s[e].of.id < n.id
                                /\ T \subseteq U \cup {s[e].of}
      /\ s[e].part # "final" => T \subseteq U
  BY Behind
<1>2. \A n \in T : n.id \in Nat
  BY LineIs
<1>3. h.calls \in Nat
  BY HostNats
<1>4. Streamed(h, T)
  OBVIOUS
<1> HIDE DEF T, U
<1>5. ASSUME NEW m \in U
      PROVE  /\ Numbered(m, g) /\ g.calls - m.id < LinkRoom
             /\ \A c \in m.id..g.calls : \E n \in U : n.id = c
  <2>1. /\ Numbered(m, g) /\ g.calls - m.id < LinkRoom
    BY <1>1, <1>4 DEF Streamed, Numbered
  <2>2. ASSUME NEW c \in m.id..g.calls PROVE \E n \in U : n.id = c
    <3>1. PICK n \in T : n.id = c
      BY <1>1, <1>4 DEF Streamed
    <3>2. CASE n \in U
      BY <3>1, <3>2
    <3>3. CASE n \notin U
      <4>1. s[e].part = "final" /\ n = s[e].of
        BY <1>1, <3>3
      <4>2. n.id < m.id /\ n.id \in Nat /\ m.id \in Nat
        BY <1>1, <1>2, <4>1
      <4>3. c >= m.id
        BY <1>3, <4>2
      <4> QED BY <3>1, <4>2, <4>3
    <3> QED BY <3>2, <3>3
  <2> QED BY <2>1, <2>2
<1>6. Streamed(g, U)
  BY <1>5 DEF Streamed
<1> QED BY <1>6 DEF U

\* Order, place and shortness survive a cut.
LEMMA CutParts ==
  ASSUME NEW s \in Seq(Pieces), NEW d, NEW nz \in Nat, NEW n \in 1..(Len(s) + 1),
         InOrder(s), AllBefore(s, d), Short(s, nz)
  PROVE  InOrder(From(s, n)) /\ AllBefore(From(s, n), d) /\ Short(From(s, n), nz)
<1>1. InOrder(From(s, n)) /\ Short(From(s, n), nz)
  BY OrderCut, ShortCut
<1>2. Finished(From(s, n)) \subseteq Finished(s)
  BY FinishedCut
<1> QED BY <1>1, <1>2 DEF AllBefore

\* What is awaited besides the frame removed is on its way as before.
LEMMA OthersOnWay ==
  ASSUME NEW s, NEW v, NEW d, s \in Seq(Pieces), NEW e, EndsAt(s, e), NEW m \in Messages,
         OnWay(m, s, v, d), ~(e = 2 /\ s[1] = First(m) /\ s[2] = Final(m))
  PROVE  OnWay(m, From(s, e + 1), v, d)
BY FrameRemoved DEF OnWay

\* A frame that is not the reply awaited is dropped.
LEMMA FlowDrop ==
  ASSUME NEW l \in Links, NEW h \in HostType, NEW s, NEW v, NEW d, NEW sp, NEW nz \in Nat,
         Flow(l, h, s, v, d, sp, nz), Line(s, v, d, h.calls), h.open,
         NEW e, EndsAt(s, e), Len(h.inflight) >= 1,
         ~(e = 2 /\ s[1] = First(h.inflight[1]) /\ s[2] = Final(h.inflight[1])),
         NEW g, g.open = h.open, g.calls = h.calls, g.sequence = h.sequence,
         g.inflight = h.inflight
  PROVE  Flow(l, g, From(s, e + 1), v, d, sp, nz)
<1> DEFINE r == From(s, e + 1)
           f == h.inflight
           T == InTransit(s, v, d)
           U == InTransit(r, v, d)
<1>1. /\ InOrder(s) /\ AllBefore(s, d) /\ Short(s, nz) /\ Same(f, T) /\ Paced(h)
      /\ nz <= MaxNoise[l] /\ (l \in Streams => nz = 0 /\ sp = {})
  BY DEF Flow
<1>2. s \in Seq(Pieces) /\ e + 1 \in 1..(Len(s) + 1)
  BY LineIs DEF EndsAt
<1>3. InOrder(r) /\ AllBefore(r, d) /\ Short(r, nz)
  BY <1>1, <1>2, CutParts
<1>4. /\ U \subseteq T
      /\ s[e].part = "final" => \A n \in U : s[e].of.id < n.id
  BY <1>1, Behind
<1>5. Same(f, U)
  BY <1>1, <1>4 DEF Same
<1>6. Paced(g)
  BY <1>1 DEF Paced, Numbered
<1>7. l \in Streams => Streamed(g, U)
  BY <1>1, StreamedBehind DEF Flow
<1>8. f \in Seq(Messages) /\ Len(f) \in Nat /\ 1 \in 1..Len(f) /\ h.calls \in Nat
  BY HostNats
<1>9. ASSUME Ample(l) PROVE Flight(f, r, v, d, sp)
  <2> SUFFICES ASSUME NEW i \in 1..Len(f), f[i].id \notin sp, ~OnWay(f[i], r, v, d)
               PROVE  Overtaken(f, r, v, d, sp)
    BY DEF Flight
  <2>1. f[i] \in Messages /\ f[1] \in Messages
    BY <1>8
  <2>2. OnWay(f[i], s, v, d) \/ Overtaken(f, s, v, d, sp)
    BY <1>9 DEF Flow, Flight
  <2>3. CASE Overtaken(f, s, v, d, sp)
    BY <1>4, <2>3 DEF Overtaken
  <2>4. CASE OnWay(f[i], s, v, d)
    <3>1. e = 2 /\ s[1] = First(f[i]) /\ s[2] = Final(f[i])
      BY <1>2, <2>1, <2>4, OthersOnWay
    <3>2. s[e].part = "final" /\ s[e].of = f[i]
      BY <3>1 DEF Final
    <3>3. i # 1
      BY <3>1
    <3>4. f[1].id < f[i].id /\ f[1].id \in Nat /\ f[i].id \in Nat
      <4>1. f[1].id = h.calls - Len(f) + 1 /\ f[i].id = h.calls - Len(f) + i
        BY <1>1, <1>8 DEF Paced
      <4>2. f[1].id \in Nat /\ f[i].id \in Nat
        BY <2>1, MessageNats
      <4> QED BY <1>8, <3>3, <4>1, <4>2
    <3>5. f[1].id \in sp
      <4> SUFFICES ASSUME f[1].id \notin sp PROVE FALSE
        OBVIOUS
      <4>1. Len(h.inflight) >= 1 /\ h.inflight[1].id \notin sp
        OBVIOUS
      <4>2. s[e].of.id <= f[1].id
        BY <1>9, <3>2, <4>1, FirstAwaited
      <4> QED BY <3>2, <3>4, <4>2
    <3>6. ASSUME NEW n \in U PROVE n.id > f[1].id
      <4>1. n \in T /\ f[i].id < n.id
        BY <1>4, <3>2
      <4>2. n.id \in Nat
        BY <4>1, LineIs
      <4> QED BY <3>4, <4>1, <4>2
    <3> QED BY <3>5, <3>6 DEF Overtaken
  <2> QED BY <2>2, <2>3, <2>4
<1> QED BY <1>1, <1>3, <1>5, <1>6, <1>7, <1>9 DEF Flow

\* The reply taken for the awaited one is no later request's, and on a stream it
\* is the awaited one's.
LEMMA TakenFor ==
  ASSUME NEW l \in Links, NEW h \in HostType, NEW s, NEW v, NEW d, NEW sp, NEW nz \in Nat,
         Flow(l, h, s, v, d, sp, nz), Line(s, v, d, h.calls), h.open, Ample(l),
         NEW e, EndsAt(s, e), s[e].part = "final", Len(h.inflight) >= 1,
         s[e].of.seq = h.inflight[1].seq
  PROVE  /\ ~Overtaken(h.inflight, s, v, d, sp)
         /\ \A i \in 2..Len(h.inflight) : s[e].of # h.inflight[i]
         /\ l \in Streams => s[e].of.id = h.inflight[1].id
<1> DEFINE f == h.inflight
           m == f[1]
           n == s[e].of
           T == InTransit(s, v, d)
<1>1. /\ InOrder(s) /\ AllBefore(s, d) /\ Same(f, T) /\ Paced(h)
      /\ (l \in Streams => sp = {})
  BY DEF Flow
<1>2. f \in Seq(Messages) /\ Len(f) \in Nat /\ 1 \in 1..Len(f) /\ h.calls \in Nat
  BY HostNats
<1>3. \A i \in 1..Len(f) : f[i] \in Messages /\ f[i].id \in Nat
  BY <1>2, MessageNats
<1>4. n \in T /\ n \in Messages /\ n.id \in Nat /\ n.id \in 1..h.calls
  <2>1. n \in T
    BY <1>1, Behind
  <2> QED BY <2>1, LineIs
<1>5. \A i \in 1..Len(f) : f[i].id = h.calls - Len(f) + i /\ Numbered(f[i], h)
  BY <1>1 DEF Paced
<1>6. h.calls \in Nat /\ h.sequence \in Nat /\ SeqModulus \in Nat /\ LinkRoom < SeqModulus
      /\ LinkRoom \in Nat /\ Depth \in Nat /\ Len(f) <= Depth
  BY <1>1, HostNats, ConstantNats DEF Paced
<1>7. n.seq = m.seq
  OBVIOUS
<1> HIDE DEF f, m, n, T
<1>8. ASSUME l \in Streams PROVE n.id = m.id
  <2>1. n.id <= m.id
    <3>1. h.inflight[1].id \notin sp
      BY <1>1, <1>8
    <3> QED BY <3>1, FirstAwaited DEF n, m, f
  <2>2. Numbered(n, h) /\ h.calls - n.id < LinkRoom
    BY <1>4, <1>8 DEF Flow, Streamed, T
  <2>3. Numbered(m, h) /\ m.id <= h.calls /\ m.id \in Nat /\ m \in Messages
    BY <1>2, <1>3, <1>5 DEF m
  <2>4. n.id < m.id => m.id - n.id >= SeqModulus
    BY <1>4, <1>6, <1>7, <2>2, <2>3, NumberedApart
  <2> QED BY <1>4, <1>6, <2>1, <2>2, <2>3, <2>4
<1>9. ASSUME NEW i \in 2..Len(f), n = f[i] PROVE FALSE
  <2>1. i \in 1..Len(f) /\ m = f[1]
    BY <1>2 DEF m
  <2>2. m.id = h.calls - Len(f) + 1 /\ n.id = h.calls - Len(f) + i
    BY <1>2, <1>5, <1>9, <2>1
  <2>3. m.id < n.id /\ n.id - m.id < Len(f) /\ m.id \in Nat
    <3>1. m.id \in Nat
      BY <1>2, <1>3, <2>1
    <3> DEFINE k == Len(f)
               x == m.id
               y == n.id
               c == h.calls
    <3>2. /\ k \in Nat /\ c \in Nat /\ x \in Nat /\ y \in Nat /\ i \in 2..k
          /\ x = c - k + 1 /\ y = c - k + i
      BY <1>2, <1>4, <2>2, <3>1
    <3> HIDE DEF k, x, y, c
    <3>3. x < y /\ y - x < k
      BY <3>2
    <3> QED BY <3>1, <3>3 DEF k, x, y
  <2>4. CASE l \in Streams
    BY <1>4, <1>8, <2>3, <2>4
  <2>5. CASE l \notin Streams
    <3>1. Depth <= SeqModulus
      BY <2>5 DEF Ample
    <3>2. Numbered(n, h) /\ Numbered(m, h) /\ m \in Messages
      BY <1>2, <1>3, <1>5, <1>9, <2>1
    <3>3. n.id - m.id >= SeqModulus
      BY <1>4, <1>6, <1>7, <2>3, <3>2, NumberedApart
    <3> QED BY <1>2, <1>4, <1>6, <2>3, <3>1, <3>3
  <2> QED BY <2>4, <2>5
<1>10. ASSUME Overtaken(f, s, v, d, sp) PROVE FALSE
  <2>1. m.id < n.id /\ m.id \in Nat
    BY <1>2, <1>3, <1>4, <1>10 DEF Overtaken, T, m
  <2> DEFINE i == n.id - h.calls + Len(f)
  <2>2. m.id = h.calls - Len(f) + 1
    BY <1>2, <1>5 DEF m
  <2>3. i \in 2..Len(f) /\ n.id = h.calls - Len(f) + i
    BY <1>2, <1>4, <2>1, <2>2
  <2> HIDE DEF i
  <2>4. i \in 1..Len(f) /\ n.id = f[i].id
    BY <1>2, <1>5, <2>3
  <2>5. n = f[i]
    BY <1>1, <1>4, <2>4 DEF Same
  <2> QED BY <1>9, <2>3, <2>5
<1> QED BY <1>8, <1>9, <1>10 DEF f, m, n

\* Where the requests in flight have numbers of their own, the reply taken for the
\* awaited one is no later request's.
LEMMA NeverLater ==
  ASSUME NEW l \in Links, NEW h \in HostType, NEW s, NEW v, NEW d, NEW sp, NEW nz,
         Flow(l, h, s, v, d, sp, nz), Line(s, v, d, h.calls), Depth <= SeqModulus,
         NEW e, EndsAt(s, e), s[e].part = "final", Len(h.inflight) >= 1,
         s[e].of.seq = h.inflight[1].seq
  PROVE  s[e].of.id <= h.inflight[1].id
<1> DEFINE f == h.inflight
           m == f[1]
           n == s[e].of
           T == InTransit(s, v, d)
<1>1. InOrder(s) /\ AllBefore(s, d) /\ Same(f, T) /\ Paced(h)
  BY DEF Flow
<1>2. f \in Seq(Messages) /\ Len(f) \in Nat /\ 1 \in 1..Len(f)
      /\ h.calls \in Nat /\ h.sequence \in Nat
  BY HostNats
<1>3. m \in Messages /\ m.id \in Nat
  BY <1>2, MessageNats
<1>4. n \in T /\ n \in Messages /\ n.id \in Nat /\ n.id \in 1..h.calls
  <2>1. n \in T
    BY <1>1, Behind
  <2> QED BY <2>1, LineIs
<1>5. \A i \in 1..Len(f) : f[i].id = h.calls - Len(f) + i /\ Numbered(f[i], h)
  BY <1>1 DEF Paced
<1>6. SeqModulus \in Nat /\ Depth \in Nat /\ Len(f) <= Depth
  BY <1>1, ConstantNats DEF Paced
<1>7. n.seq = m.seq
  OBVIOUS
<1> HIDE DEF f, m, n, T
<1>8. ASSUME m.id < n.id PROVE FALSE
  <2>1. m.id = h.calls - Len(f) + 1 /\ Numbered(m, h)
    BY <1>2, <1>5 DEF m
  <2> DEFINE i == n.id - h.calls + Len(f)
  <2>2. i \in 1..Len(f) /\ n.id = h.calls - Len(f) + i
    BY <1>2, <1>3, <1>4, <1>8, <2>1
  <2> HIDE DEF i
  <2>3. n = f[i]
    BY <1>1, <1>4, <1>5, <2>2 DEF Same
  <2>4. Numbered(n, h)
    BY <1>5, <2>2, <2>3
  <2>5. n.id - m.id >= SeqModulus
    BY <1>2, <1>3, <1>4, <1>7, <1>8, <2>1, <2>4, NumberedApart
  <2>6. n.id - m.id < Len(f)
    BY <1>2, <1>3, <1>4, <2>1
  <2> QED BY <1>2, <1>3, <1>4, <1>6, <2>5, <2>6
<1>9. n.id <= m.id
  BY <1>3, <1>4, <1>8
<1> QED BY <1>9 DEF f, m, n

\* The awaited reply is returned.
LEMMA FlowReceive ==
  ASSUME NEW l \in Links, NEW h \in HostType, NEW s, NEW v, NEW d, NEW sp, NEW nz \in Nat,
         Flow(l, h, s, v, d, sp, nz), Line(s, v, d, h.calls), h.open,
         NEW e, EndsAt(s, e), s[e].part = "final", Len(h.inflight) >= 1,
         s[e].of.seq = h.inflight[1].seq,
         NEW g, g.open = h.open, g.calls = h.calls, g.sequence = h.sequence,
         g.inflight = Tail(h.inflight)
  PROVE  Flow(l, g, From(s, e + 1), v, d, sp, nz)
<1> DEFINE r == From(s, e + 1)
           f == h.inflight
           T == InTransit(s, v, d)
           U == InTransit(r, v, d)
<1>1. /\ InOrder(s) /\ AllBefore(s, d) /\ Short(s, nz) /\ Same(f, T) /\ Paced(h)
      /\ nz <= MaxNoise[l] /\ (l \in Streams => nz = 0 /\ sp = {})
  BY DEF Flow
<1>2. s \in Seq(Pieces) /\ e + 1 \in 1..(Len(s) + 1)
  BY LineIs DEF EndsAt
<1>3. InOrder(r) /\ AllBefore(r, d) /\ Short(r, nz)
  BY <1>1, <1>2, CutParts
<1>4. U \subseteq T
  BY <1>1, Behind
<1>5. l \in Streams => Streamed(g, U)
  BY <1>1, StreamedBehind DEF Flow
<1>6. f \in Seq(Messages) /\ Len(f) \in Nat /\ 1 \in 1..Len(f) /\ h.calls \in Nat
  BY HostNats
<1> DEFINE t == Tail(f)
<1>7. /\ g.inflight = t /\ Len(t) = Len(f) - 1 /\ \A i \in 1..(Len(f) - 1) : t[i] = f[i + 1]
  BY <1>6
<1>8. Len(f) <= Depth /\ Depth \in Nat
      /\ \A i \in 1..Len(f) : f[i].id = h.calls - Len(f) + i /\ Numbered(f[i], h)
  BY <1>1, ConstantNats DEF Paced
<1> HIDE DEF r, f, t, T, U
<1>9. Same(t, U)
  <2> SUFFICES ASSUME NEW n \in U, NEW i \in 1..Len(t), n.id = t[i].id PROVE n = t[i]
    BY DEF Same
  <2>1. i + 1 \in 1..Len(f) /\ t[i] = f[i + 1]
    BY <1>6, <1>7
  <2> QED BY <1>1, <1>4, <2>1 DEF Same
<1>10. Paced(g)
  <2>1. ASSUME NEW i \in 1..Len(t)
        PROVE  t[i].id = g.calls - Len(t) + i /\ Numbered(t[i], g)
    <3>1. i + 1 \in 1..Len(f) /\ t[i] = f[i + 1]
      BY <1>6, <1>7
    <3>2. f[i + 1].id = h.calls - Len(f) + (i + 1) /\ Numbered(f[i + 1], h)
      BY <1>8, <3>1
    <3>3. Numbered(t[i], g)
      BY <3>1, <3>2 DEF Numbered
    <3> DEFINE k == Len(f)
               c == h.calls
    <3>4. k \in Nat /\ c \in Nat /\ i \in Nat /\ t[i].id = c - k + (i + 1)
          /\ Len(t) = k - 1 /\ g.calls = c
      BY <1>6, <1>7, <3>1, <3>2
    <3> HIDE DEF k, c
    <3>5. c - k + (i + 1) = c - (k - 1) + i
      BY <3>4
    <3> QED BY <3>3, <3>4, <3>5
  <2>2. Len(t) <= Depth
    BY <1>6, <1>7, <1>8
  <2> QED BY <1>7, <2>1, <2>2 DEF Paced
<1>11. ASSUME Ample(l) PROVE Flight(t, r, v, d, sp)
  <2> SUFFICES ASSUME NEW i \in 1..Len(t) PROVE t[i].id \in sp \/ OnWay(t[i], r, v, d)
    BY DEF Flight
  <2>1. i + 1 \in 2..Len(f) /\ i + 1 \in 1..Len(f) /\ t[i] = f[i + 1] /\ f[i + 1] \in Messages
    BY <1>6, <1>7
  <2>2. f[i + 1].id \in sp \/ OnWay(f[i + 1], s, v, d) \/ Overtaken(f, s, v, d, sp)
    BY <1>11, <2>1 DEF Flow, Flight, f
  <2>3. ~Overtaken(f, s, v, d, sp) /\ s[e].of # f[i + 1]
    BY <1>11, <2>1, TakenFor DEF f
  <2>4. ~(e = 2 /\ s[1] = First(f[i + 1]) /\ s[2] = Final(f[i + 1]))
    BY <2>3 DEF Final
  <2>5. OnWay(f[i + 1], s, v, d) => OnWay(f[i + 1], r, v, d)
    BY <1>2, <2>1, <2>4, OthersOnWay DEF r
  <2> QED BY <2>1, <2>2, <2>3, <2>5
<1> QED BY <1>1, <1>3, <1>5, <1>7, <1>9, <1>10, <1>11 DEF Flow, r, U

-----------------------------------------------------------------------------
(* A link's line, and how an action changes it. *)

\* What FInv says of one link.
LEMMA Flying ==
  ASSUME FInv, NEW l \in Links
  PROVE  /\ IInv /\ TypeOK /\ Shapes /\ Shaped(l) /\ Requests(l) /\ Answered(l) /\ Flown(l)
         /\ host[l] \in HostType /\ conns[l] \in Seq(ConnType) /\ bridge[l] \in BridgeType
         /\ Len(conns[l]) \in Nat /\ noise[l] \in Nat /\ spoiled[l] \in SUBSET Calls
<1>1. IInv /\ Flown(l)
  BY DEF FInv
<1>2. TypeOK /\ Shapes /\ Shaped(l) /\ Requests(l) /\ Answered(l)
  BY <1>1, Known
<1>3. noise[l] \in Nat /\ spoiled[l] \in SUBSET Calls
  BY <1>2 DEF TypeOK
<1> QED BY <1>1, <1>2, <1>3, Parts

\* An empty string finishes nothing.
LEMMA NothingFinished == <<>> \in Seq(Pieces) /\ Finished(<<>>) = {}
<1>1. <<>> \in Seq(Pieces) /\ Len(<<>>) = 0
  OBVIOUS
<1>2. \A i \in 1..0 : <<>>[i].part # "final"
  OBVIOUS
<1> QED BY <1>1, <1>2, FinishedNone

\* The line of a link is one.
LEMMA Ways ==
  ASSUME FInv, NEW l \in Links
  PROVE  Line(Coming(l), Leaving(l), AtHub(l), host[l].calls)
<1> DEFINE s == Coming(l)
           v == Leaving(l)
           d == AtHub(l)
           n == Len(conns[l])
<1>1. /\ TypeOK /\ Shaped(l) /\ Requests(l) /\ Answered(l) /\ Flown(l)
      /\ host[l] \in HostType /\ bridge[l] \in BridgeType /\ n \in Nat
      /\ conns[l] \in Seq(ConnType)
  BY Flying
<1>2. host[l].calls \in Nat /\ host[l].pending \in Seq(Pieces)
  BY <1>1, HostNats
<1>3. /\ Later(Ups(l), bridge[l], host[l].calls, executed[l], lost[l])
      /\ AtHand(bridge[l], host[l].calls, executed[l], lost[l])
      /\ Past(host[l].calls, executed[l], lost[l])
  BY <1>1 DEF Requests, Requested
<1>4. s \in Seq(Pieces) /\ \A m \in Finished(s) : m.id \in executed[l]
  <2>1. CASE conns[l] = <<>>
    BY <2>1, NothingFinished DEF Coming
  <2>2. CASE conns[l] # <<>>
    <3>1. n \in 1..n /\ Conn(l) = conns[l][n] /\ Conn(l) \in ConnType
      BY <1>1, <2>2, Parts DEF Conn
    <3>2. Conn(l).down \in Seq(Pieces)
      BY <3>1 DEF ConnType
    <3>3. Answers(host[l].pending, executed[l]) /\ Answers(Conn(l).down, executed[l])
      BY <1>1, <3>1 DEF Answered
    <3>4. s \in Seq(Pieces) /\ Answers(s, executed[l])
      BY <1>2, <2>2, <3>2, <3>3, AnswersJoined DEF Coming
    <3> HIDE DEF s
    <3> QED BY <3>4, FinalsIs DEF Answers
  <2> QED BY <2>1, <2>2
<1>5. /\ v \in Seq(Pieces)
      /\ \A m \in Finished(v) : LaterThan(m.id, bridge[l], host[l].calls, executed[l], lost[l])
  <2>1. CASE conns[l] = <<>>
    BY <2>1, NothingFinished DEF Leaving
  <2>2. CASE conns[l] # <<>>
    <3>1. n \in 1..n /\ Conn(l) = conns[l][n] /\ Conn(l) \in ConnType
      BY <1>1, <2>2, Parts DEF Conn
    <3>2. v \in Seq(Pieces) /\ v = Ups(l)[n] /\ n \in 1..Len(Ups(l))
      BY <1>1, <2>2, <3>1, UpsIs DEF Leaving, ConnType
    <3> HIDE DEF v
    <3> QED BY <1>3, <3>2, FinalsIs DEF Later
  <2> QED BY <2>1, <2>2
<1>6. d # NoMessage => d = bridge[l].doing /\ bridge[l].phase # "reading" /\ d \in Messages
  BY <1>1 DEF AtHub, Flown, Shaped
<1>7. d \in Messages \cup {NoMessage} /\ (d # NoMessage => d.id \in 1..host[l].calls)
  <2>1. bridge[l].phase \in {"reading", "asking", "running", "writing"}
    BY <1>1 DEF BridgeType
  <2> HIDE DEF d
  <2> QED BY <1>3, <1>6, <2>1 DEF AtHand, Asked, Past
<1> HIDE DEF s, v, d
<1>8. \A m \in InTransit(s, v, d) : m.id \in 1..host[l].calls
  BY <1>3, <1>4, <1>5, <1>7 DEF InTransit, LaterThan, Past
<1>9. \A m \in Finished(s), k \in Finished(v) : m.id < k.id
  BY <1>4, <1>5 DEF LaterThan
<1>10. d # NoMessage => \A k \in Finished(v) : d.id < k.id
  BY <1>5, <1>6 DEF LaterThan
<1> QED BY <1>2, <1>4, <1>5, <1>7, <1>8, <1>9, <1>10 DEF Line, s, v, d

\* Nothing of another link changes.
Besides(l) ==
  \A m \in Links \ {l} :
    /\ host'[m] = host[m] /\ conns'[m] = conns[m] /\ bridge'[m] = bridge[m]
    /\ spoiled'[m] = spoiled[m] /\ noise'[m] = noise[m] /\ got'[m] = got[m]

\* An action of one link disturbs no other.
LEMMA OthersFlown ==
  ASSUME FInv, NEW l \in Links, Besides(l), Flown(l)'
  PROVE  \A m \in Links : Flown(m)'
<1> SUFFICES ASSUME NEW m \in Links \ {l} PROVE Flown(m)'
  OBVIOUS
<1>1. /\ host'[m] = host[m] /\ conns'[m] = conns[m] /\ bridge'[m] = bridge[m]
      /\ spoiled'[m] = spoiled[m] /\ noise'[m] = noise[m] /\ got'[m] = got[m]
  BY DEF Besides
<1>2. Flown(m)
  BY DEF FInv
<1>3. Coming(m)' = Coming(m) /\ Leaving(m)' = Leaving(m) /\ AtHub(m)' = AtHub(m)
  BY <1>1 DEF Coming, Leaving, AtHub, Conn
<1> QED BY <1>1, <1>2, <1>3 DEF Flown

\* The session acts: on its last connection.
LEMMA HostFlown ==
  ASSUME FInv, NEW l \in Links, conns[l] # <<>>,
         NEW h, host' = [host EXCEPT ![l] = h],
         NEW c \in ConnType, conns' = WithConn(l, c),
         Flow(l, h, h.pending \o c.down, c.up, AtHub(l), spoiled[l], noise[l]),
         \A m \in Links \ {l} : got'[m] = got[m], Told(l, got'[l]),
         UNCHANGED <<bridge, spoiled, noise>>
  PROVE  \A m \in Links : Flown(m)'
<1>1. TypeOK /\ Shapes /\ host \in [Links -> HostType] /\ Flown(l)
  BY Flying, Parts
<1>2. host'[l] = h /\ \A m \in Links \ {l} : host'[m] = host[m]
  BY <1>1
<1>3. /\ Len(conns[l]) \in Nat \ {0} /\ Len(conns'[l]) = Len(conns[l])
      /\ conns'[l][Len(conns[l])] = c /\ \A m \in Links \ {l} : conns'[m] = conns[m]
  BY <1>1, LastConn
<1>4. conns'[l] # <<>> /\ Conn(l)' = c
  BY <1>3 DEF Conn
<1>5. Coming(l)' = h.pending \o c.down /\ Leaving(l)' = c.up /\ AtHub(l)' = AtHub(l)
  BY <1>2, <1>3, <1>4 DEF Coming, Leaving, AtHub
<1>6. Flown(l)'
  BY <1>1, <1>2, <1>5 DEF Flown
<1>7. Besides(l)
  BY <1>2, <1>3 DEF Besides
<1> QED BY <1>6, <1>7, OthersFlown

\* The bridge acts: on its first connection.
LEMMA ServeFlown ==
  ASSUME FInv, NEW l \in Links, conns[l] # <<>>,
         NEW e, bridge' = [bridge EXCEPT ![l] = e], e.phase = "reading" => e.doing = NoMessage,
         NEW c \in ConnType, conns' = [conns EXCEPT ![l][1] = c],
         NEW x, spoiled' = [spoiled EXCEPT ![l] = x], NEW z, noise' = [noise EXCEPT ![l] = z],
         Len(conns[l]) = 1 => Flow(l, host[l], host[l].pending \o c.down, c.up, e.doing, x, z),
         Len(conns[l]) # 1 => x = spoiled[l] /\ z = noise[l],
         UNCHANGED <<host, got>>
  PROVE  \A m \in Links : Flown(m)'
<1>1. /\ TypeOK /\ Shapes /\ Flown(l) /\ conns[l] \in Seq(ConnType)
      /\ bridge \in [Links -> BridgeType]
  BY Flying, Parts
<1>2. bridge'[l] = e /\ \A m \in Links \ {l} : bridge'[m] = bridge[m]
  BY <1>1
<1>3. /\ Len(conns[l]) \in Nat \ {0} /\ Len(conns'[l]) = Len(conns[l]) /\ conns'[l][1] = c
      /\ \A k \in 2..Len(conns[l]) : conns'[l][k] = conns[l][k]
      /\ \A m \in Links \ {l} : conns'[m] = conns[m]
  BY <1>1, FirstConn
<1>4. /\ spoiled'[l] = x /\ noise'[l] = z
      /\ \A m \in Links \ {l} : spoiled'[m] = spoiled[m] /\ noise'[m] = noise[m]
  <2>1. spoiled \in [Links -> SUBSET Calls] /\ noise \in [Links -> Nat]
    BY <1>1 DEF TypeOK
  <2> QED BY <2>1
<1>5. conns'[l] # <<>>
  BY <1>3
<1>6. CASE Len(conns[l]) = 1
  <2>1. Conn(l)' = c
    BY <1>3, <1>6 DEF Conn
  <2>2. /\ Coming(l)' = host[l].pending \o c.down /\ Leaving(l)' = c.up
        /\ AtHub(l)' = e.doing
    BY <1>2, <1>3, <1>5, <1>6, <2>1 DEF Coming, Leaving, AtHub
  <2>3. Flown(l)'
    BY <1>1, <1>2, <1>4, <1>6, <2>2 DEF Flown
  <2> QED BY <1>2, <1>3, <1>4, <2>3, OthersFlown DEF Besides
<1>7. CASE Len(conns[l]) # 1
  <2>1. Conn(l)' = Conn(l)
    BY <1>3, <1>7 DEF Conn
  <2>2. Coming(l)' = Coming(l) /\ Leaving(l)' = Leaving(l) /\ AtHub(l)' = AtHub(l)
    BY <1>3, <1>5, <1>7, <2>1 DEF Coming, Leaving, AtHub
  <2>3. Flown(l)'
    BY <1>1, <1>2, <1>4, <1>7, <2>2 DEF Flown
  <2> QED BY <1>2, <1>3, <1>4, <2>3, OthersFlown DEF Besides
<1> QED BY <1>6, <1>7

-----------------------------------------------------------------------------
(* Sending. *)

\* There are as many messages on a line as requests in a row have theirs on it.
LEMMA EachCarried ==
  ASSUME NEW s \in Seq(Pieces), NEW v \in Seq(Pieces), NEW d, NEW a \in Nat, NEW b \in Nat,
         \A c \in a..b : \E n \in InTransit(s, v, d) : n.id = c
  PROVE  b + 1 - a <= Cardinality(Finals(s \o v)) + (IF d = NoMessage THEN 0 ELSE 1)
<1> DEFINE w == s \o v
           F == Finals(w)
           X == IF d = NoMessage THEN F ELSE F \cup {0}
           Of(i, c) == \/ i \in F /\ w[i].of.id = c
                       \/ i = 0 /\ d # NoMessage /\ d.id = c
<1>1. w \in Seq(Pieces) /\ Finished(w) = Finished(s) \cup Finished(v)
  BY Joined, FinishedJoin
<1>2. F \subseteq 1..Len(w) /\ Len(w) \in Nat
  <2> HIDE DEF w
  <2> QED BY <1>1, FinalsIs
<1>3. IsFiniteSet(F) /\ Cardinality(F) \in Nat
  <2>1. IsFiniteSet(1..Len(w))
    BY <1>2, FS_Interval
  <2> HIDE DEF F, w
  <2> QED BY <1>2, <2>1, FS_Subset, FS_CardinalityType
<1>4. 0 \notin F
  BY <1>2
<1> HIDE DEF F
<1>5. /\ IsFiniteSet(X) /\ Cardinality(X) \in Nat
      /\ Cardinality(X) = Cardinality(F) + (IF d = NoMessage THEN 0 ELSE 1)
  <2>1. CASE d = NoMessage
    BY <1>3, <2>1
  <2>2. CASE d # NoMessage
    <3>1. IsFiniteSet(F \cup {0}) /\ Cardinality(F \cup {0}) = Cardinality(F) + 1
      BY <1>3, <1>4, FS_AddElement
    <3> QED BY <1>3, <2>2, <3>1
  <2> QED BY <2>1, <2>2
<1>6. ASSUME NEW c \in a..b PROVE \E i \in X : Of(i, c)
  <2>1. PICK n \in InTransit(s, v, d) : n.id = c
    OBVIOUS
  <2>2. CASE n \in Finished(w)
    <3>1. PICK i \in 1..Len(w) : w[i].part = "final" /\ w[i].of = n
      BY <1>1, <2>2, FinishedFrom
    <3>2. i \in F
      BY <1>1, <3>1, FinishedAt DEF F
    <3>3. i \in X /\ Of(i, c)
      BY <2>1, <3>1, <3>2
    <3> QED BY <3>3
  <2>3. CASE n = d /\ d # NoMessage
    <3>1. 0 \in X /\ Of(0, c)
      BY <2>1, <2>3
    <3> QED BY <3>1
  <2> QED BY <1>1, <2>2, <2>3 DEF InTransit
<1> DEFINE g == [c \in a..b |-> CHOOSE i \in X : Of(i, c)]
<1>7. \A c \in a..b : g[c] \in X /\ Of(g[c], c)
  <2> HIDE DEF X, Of
  <2> QED BY <1>6
<1>8. g \in [a..b -> X]
  <2> HIDE DEF X, Of
  <2>1. \A c \in a..b : (CHOOSE i \in X : Of(i, c)) \in X
    BY <1>6
  <2> QED BY <2>1
<1>9. IsFiniteSet(a..b) /\ Cardinality(a..b) = IF a > b THEN 0 ELSE b - a + 1
  <2>1. a \in Int /\ b \in Int
    OBVIOUS
  <2> QED BY <2>1, FS_Interval
<1> HIDE DEF g, X
<1>10. ASSUME Cardinality(X) < Cardinality(a..b) PROVE FALSE
  <2>1. PICK x \in a..b, y \in a..b : x # y /\ g[x] = g[y]
    <3> DEFINE A == a..b
    <3>1. IsFiniteSet(A) /\ Cardinality(X) < Cardinality(A) /\ g \in [A -> X]
      BY <1>8, <1>9, <1>10
    <3> HIDE DEF A
    <3>2. \E x, y \in A : x # y /\ g[x] = g[y]
      BY <1>5, <3>1, FS_PigeonHole
    <3> QED BY <3>2 DEF A
  <2> DEFINE i == g[x]
  <2>2. Of(i, x) /\ Of(i, y)
    BY <1>7, <2>1
  <2> HIDE DEF i, w
  <2> QED BY <1>4, <2>1, <2>2
<1> DEFINE k == Cardinality(X)
           j == Cardinality(a..b)
<1>11. k \in Nat /\ j \in Nat /\ ~(k < j) /\ (a <= b => j = b - a + 1)
  BY <1>5, <1>9, <1>10
<1>12. b + 1 - a <= k
  <2> HIDE DEF k, j
  <2> QED BY <1>11
<1> QED BY <1>5, <1>12 DEF k, F, w

\* A stream has room for one request more than it carries.
LEMMA SendRoom ==
  ASSUME FInv, NEW l \in Links, MaySend(l), l \in Streams, conns[l] # <<>>,
         NEW m, m.id = host[l].calls + 1
  PROVE  RoomFor(m, InTransit(Coming(l), Leaving(l), AtHub(l)))
<1> DEFINE s == Coming(l)
           v == Leaving(l)
           d == AtHub(l)
           T == InTransit(s, v, d)
           n == Cardinality(Finals(s \o v))
           b == IF bridge[l].phase = "reading" THEN 0 ELSE 1
<1>1. Flown(l) /\ host[l].calls \in Nat
  BY Flying, HostNats
<1>2. s \in Seq(Pieces) /\ v \in Seq(Pieces) /\ \A x \in T : x.id \in 1..host[l].calls
  BY Ways DEF Line
<1>3. s = host[l].pending \o Conn(l).down /\ v = Conn(l).up
  BY DEF Coming, Leaving
<1>4. n + b < LinkRoom
  BY <1>3 DEF MaySend, Carried
<1>5. d # NoMessage => b = 1
  BY <1>1 DEF AtHub, Flown
<1>6. host[l].open /\ Streamed(host[l], T)
  BY <1>1 DEF Flown, Flow, MaySend
<1>7. n \in Nat
  <2> DEFINE w == s \o v
  <2>1. w \in Seq(Pieces)
    BY <1>2, Joined
  <2> HIDE DEF w
  <2>2. Finals(w) \subseteq 1..Len(w) /\ Len(w) \in Nat
    BY <2>1, FinalsIs
  <2>3. IsFiniteSet(1..Len(w))
    BY <2>2, FS_Interval
  <2>4. Cardinality(Finals(w)) \in Nat
    BY <2>2, <2>3, FS_Subset, FS_CardinalityType
  <2> QED BY <2>4 DEF w
<1>8. LinkRoom \in Nat
  BY ConstantNats
<1> HIDE DEF s, v, d
<1>9. ASSUME NEW x \in T PROVE m.id - x.id < LinkRoom
  <2>1. x.id \in Nat /\ \A c \in x.id..host[l].calls : \E y \in T : y.id = c
    BY <1>2, <1>6 DEF Streamed
  <2>2. host[l].calls + 1 - x.id <= n + (IF d = NoMessage THEN 0 ELSE 1)
    <3> DEFINE a == x.id
               k == host[l].calls
    <3>1. /\ a \in Nat /\ k \in Nat
          /\ \A c \in a..k : \E y \in InTransit(s, v, d) : y.id = c
      BY <1>1, <2>1
    <3> HIDE DEF a, k, n
    <3>2. k + 1 - a <= Cardinality(Finals(s \o v)) + (IF d = NoMessage THEN 0 ELSE 1)
      BY <1>2, <3>1, EachCarried
    <3> QED BY <3>2 DEF a, k, n
  <2>3. (IF d = NoMessage THEN 0 ELSE 1) <= b /\ b \in Nat
    BY <1>5
  <2> HIDE DEF n, b, T
  <2> QED BY <1>1, <1>4, <1>7, <1>8, <2>1, <2>2, <2>3
<1>10. LinkRoom > 0
  <2>1. b \in Nat
    OBVIOUS
  <2> HIDE DEF n, b, T
  <2> QED BY <1>4, <1>7, <1>8, <2>1
<1> QED BY <1>9, <1>10 DEF RoomFor, s, v, d

-----------------------------------------------------------------------------
(* What a session does. *)

\* The end of what is coming.
LEMMA TailJoin ==
  ASSUME NEW p \in Seq(Pieces), NEW d \in Seq(Pieces), NEW n \in 1..(Len(d) + 1)
  PROVE  From(d, n) = From(p \o d, Len(p) + n) /\ Len(p) + n \in 1..(Len(p \o d) + 1)
<1> DEFINE s == p \o d
           z == From(s, Len(p) + n)
           b == From(d, n)
<1>1. /\ s \in Seq(Pieces) /\ Len(p) \in Nat /\ Len(d) \in Nat
      /\ Len(s) = Len(p) + Len(d)
      /\ \A i \in 1..Len(d) : s[Len(p) + i] = d[i]
  BY Joined
<1>2. /\ b \in Seq(Pieces) /\ Len(b) = Len(d) + 1 - n
      /\ \A i \in 1..(Len(d) + 1 - n) : b[i] = d[n + i - 1]
  BY FromIs
<1> HIDE DEF s, b
<1>3. Len(p) + n \in 1..(Len(s) + 1)
  BY <1>1
<1>4. /\ z \in Seq(Pieces) /\ Len(z) = Len(s) + 1 - (Len(p) + n)
      /\ \A i \in 1..(Len(s) + 1 - (Len(p) + n)) : z[i] = s[Len(p) + n + i - 1]
  BY <1>1, <1>3, FromIs
<1> HIDE DEF z
<1>5. Len(z) = Len(b)
  BY <1>1, <1>2, <1>4
<1>6. ASSUME NEW i \in 1..Len(b) PROVE z[i] = b[i]
  <2> DEFINE j == n + i - 1
  <2>1. j \in 1..Len(d) /\ Len(p) + n + i - 1 = Len(p) + j /\ i \in 1..(Len(d) + 1 - n)
        /\ i \in 1..(Len(s) + 1 - (Len(p) + n))
    BY <1>1, <1>2
  <2>2. z[i] = s[Len(p) + j] /\ b[i] = d[j]
    BY <1>2, <1>4, <2>1
  <2> HIDE DEF j
  <2> QED BY <1>1, <2>1, <2>2
<1>7. z = b
  BY <1>2, <1>4, <1>5, <1>6, SeqEqual
<1> QED BY <1>3, <1>7 DEF z, b, s

\* An empty string is in order, and short.
LEMMA NoneLeft ==
  ASSUME NEW d, NEW k \in Nat
  PROVE  InOrder(<<>>) /\ AllBefore(<<>>, d) /\ Short(<<>>, k)
<1> DEFINE e == <<>>
<1>1. e \in Seq(Pieces) /\ Len(e) = 0 /\ Finished(e) = {}
  BY NothingFinished
<1> HIDE DEF e
<1>2. Finals(e) = {}
  BY <1>1, FinalsIs
<1>3. InOrder(e) /\ AllBefore(e, d) /\ Short(e, k)
  BY <1>1, <1>2 DEF InOrder, AllBefore, Short
<1> QED BY <1>3 DEF e

\* The last connection of a session, and what its line consists of.
LEMMA LineParts ==
  ASSUME FInv, NEW l \in Links, conns[l] # <<>>
  PROVE  /\ host[l].pending \in Seq(Pieces) /\ Conn(l) \in ConnType
         /\ Conn(l).down \in Seq(Pieces) /\ Conn(l).up \in Seq(Pieces)
         /\ Coming(l) = host[l].pending \o Conn(l).down /\ Leaving(l) = Conn(l).up
         /\ Coming(l) \in Seq(Pieces) /\ Leaving(l) \in Seq(Pieces)
         /\ Flow(l, host[l], Coming(l), Leaving(l), AtHub(l), spoiled[l], noise[l])
         /\ InOrder(Coming(l)) /\ AllBefore(Coming(l), AtHub(l)) /\ Short(Coming(l), noise[l])
         /\ noise[l] <= MaxNoise[l] /\ (l \in Streams => noise[l] = 0 /\ spoiled[l] = {})
         /\ Told(l, got[l])
<1>1. IInv /\ Flown(l) /\ host[l] \in HostType
  BY Flying
<1>2. Conn(l) \in ConnType
  BY <1>1, SameConn
<1>3. Coming(l) \in Seq(Pieces) /\ Leaving(l) \in Seq(Pieces)
  BY Ways DEF Line
<1>4. Coming(l) = host[l].pending \o Conn(l).down /\ Leaving(l) = Conn(l).up
  BY DEF Coming, Leaving
<1>5. host[l].pending \in Seq(Pieces)
  BY <1>1, HostNats
<1>6. Flow(l, host[l], Coming(l), Leaving(l), AtHub(l), spoiled[l], noise[l])
  BY <1>1 DEF Flown
<1> QED BY <1>1, <1>2, <1>3, <1>4, <1>5, <1>6 DEF ConnType, Flow, Flown

\* A session that is over.
LEMMA OverFlown ==
  ASSUME FInv, NEW l \in Links, conns[l] # <<>>,
         NEW h, host' = [host EXCEPT ![l] = h],
         h.inflight = <<>>, h.pending = <<>>, ~h.open,
         NEW c \in ConnType, conns' = WithConn(l, c),
         c.down = <<>> \/ \E n \in 1..(Len(Conn(l).down) + 1) : c.down = From(Conn(l).down, n),
         UNCHANGED <<bridge, spoiled, noise, got>>
  PROVE  \A m \in Links : Flown(m)'
<1> DEFINE s == Coming(l)
           t == c.down
<1>1. /\ host[l].pending \in Seq(Pieces) /\ Conn(l).down \in Seq(Pieces)
      /\ s = host[l].pending \o Conn(l).down /\ s \in Seq(Pieces) /\ noise[l] \in Nat
      /\ InOrder(s) /\ AllBefore(s, AtHub(l)) /\ Short(s, noise[l])
      /\ noise[l] <= MaxNoise[l] /\ (l \in Streams => noise[l] = 0 /\ spoiled[l] = {})
      /\ Told(l, got[l])
  BY LineParts, Flying
<1> HIDE DEF s
<1>2. InOrder(t) /\ AllBefore(t, AtHub(l)) /\ Short(t, noise[l])
  <2>1. CASE t = <<>>
    BY <1>1, <2>1, NoneLeft
  <2>2. CASE \E n \in 1..(Len(Conn(l).down) + 1) : t = From(Conn(l).down, n)
    <3>1. PICK n \in 1..(Len(Conn(l).down) + 1) : t = From(Conn(l).down, n)
      BY <2>2
    <3>2. /\ t = From(s, Len(host[l].pending) + n)
          /\ Len(host[l].pending) + n \in 1..(Len(s) + 1)
      BY <1>1, <3>1, TailJoin
    <3> DEFINE k == Len(host[l].pending) + n
    <3> HIDE DEF t, k
    <3> QED BY <1>1, <3>2, CutParts DEF k
  <2> QED BY <2>1, <2>2
<1>3. h.pending \o t = t
  <2>1. t \in Seq(Pieces)
    BY DEF ConnType
  <2> HIDE DEF t
  <2> QED BY <2>1
<1>4. Flow(l, h, h.pending \o c.down, c.up, AtHub(l), spoiled[l], noise[l])
  <2>1. Flow(l, h, t, c.up, AtHub(l), spoiled[l], noise[l])
    BY <1>1, <1>2, FlowBare
  <2> QED BY <1>3, <2>1
<1> QED BY <1>1, <1>4, HostFlown

\* A session ends: Close and Unidentified.
LEMMA EndingFlown ==
  ASSUME FInv, NEW l \in Links, host[l].open,
         host' = [host EXCEPT ![l] = Closed(@)], conns' \in HungUp(l),
         UNCHANGED <<bridge, holder, noise, history>>
  PROVE  \A m \in Links : Flown(m)'
<1>1. TypeOK /\ Shapes /\ Shaped(l) /\ conns[l] # <<>> /\ host[l] \in HostType
  BY Flying DEF Shaped
<1>2. PICK d \in Seq(Pieces) :
        /\ d = <<>> \/ \E n \in 1..(Len(Conn(l).down) + 1) : d = From(Conn(l).down, n)
        /\ [Conn(l) EXCEPT !.open = FALSE, !.down = d] \in ConnType
        /\ conns' = WithConn(l, [Conn(l) EXCEPT !.open = FALSE, !.down = d])
  BY <1>1, HangUp
<1> DEFINE c == [Conn(l) EXCEPT !.open = FALSE, !.down = d]
           h == Closed(host[l])
<1>3. c \in ConnType /\ c.down = d /\ conns' = WithConn(l, c)
  BY <1>1, <1>2, LineParts DEF ConnType
<1>4. host' = [host EXCEPT ![l] = h] /\ h.inflight = <<>> /\ h.pending = <<>> /\ ~h.open
  BY <1>1, ClosedIs
<1>5. UNCHANGED <<bridge, spoiled, noise, got>>
  BY DEF history
<1> HIDE DEF c, h
<1> QED BY <1>1, <1>2, <1>3, <1>4, <1>5, OverFlown

\* Open: a session has sent nothing yet; a stream is new, a pipe keeps what it holds.
LEMMA OpenFlown ==
  ASSUME FInv, NEW l \in Links, Open(l)
  PROVE  \A m \in Links : Flown(m)'
<1> DEFINE h == [Closed(host[l]) EXCEPT !.open = TRUE, !.sessions = host[l].sessions + 1]
           fresh == [open |-> TRUE, up |-> <<>>, down |-> <<>>]
<1>1. /\ IInv /\ TypeOK /\ Shapes /\ Shaped(l) /\ Flown(l) /\ host[l] \in HostType
      /\ conns[l] \in Seq(ConnType) /\ Len(conns[l]) \in Nat /\ noise[l] \in Nat
  BY Flying
<1>2. h.open /\ h.pending = <<>> /\ h.inflight = <<>>
  <2>1. /\ Closed(host[l]) \in HostType /\ Closed(host[l]).pending = <<>>
        /\ Closed(host[l]).inflight = <<>>
    BY <1>1, ClosedIs
  <2> DEFINE c == Closed(host[l])
  <2> HIDE DEF c
  <2> QED BY <2>1 DEF HostType, c
<1>3. host' = [host EXCEPT ![l] = h] /\ UNCHANGED <<bridge, noise, spoiled, got>>
  BY DEF Open, history
<1>4. /\ ~host[l].open /\ host[l].pending = <<>>
      /\ noise[l] <= MaxNoise[l] /\ (l \in Streams => noise[l] = 0 /\ spoiled[l] = {})
      /\ Told(l, got[l])
  BY <1>1 DEF Flown, Flow, Open
<1> HIDE DEF h
<1>5. CASE l \in Streams
  <2> DEFINE s == Append(conns[l], fresh)
  <2>1. conns' = [conns EXCEPT ![l] = s]
    BY <1>5 DEF Open
  <2>2. fresh \in ConnType /\ fresh.up = <<>> /\ fresh.down = <<>>
    BY DEF ConnType
  <2> HIDE DEF fresh
  <2>3. Len(s) = Len(conns[l]) + 1 /\ s[Len(conns[l]) + 1] = fresh /\ s \in Seq(ConnType)
    BY <1>1, <2>2
  <2> HIDE DEF s
  <2>4. /\ conns'[l] = s /\ \A m \in Links \ {l} : conns'[m] = conns[m]
        /\ host'[l] = h /\ \A m \in Links \ {l} : host'[m] = host[m]
    BY <1>1, <1>3, <2>1, Parts
  <2>5. s # <<>> /\ Conn(l)' = fresh
    BY <1>1, <2>3, <2>4 DEF Conn
  <2>6. Coming(l)' = <<>> /\ Leaving(l)' = <<>>
    BY <1>2, <2>2, <2>4, <2>5 DEF Coming, Leaving
  <2>7. AtHub(l)' = NoMessage
    <3>1. CASE Len(conns[l]) = 0
      <4>1. conns[l] = <<>>
        BY <1>1, <3>1
      <4>2. bridge[l].phase = "reading"
        BY <1>1, <4>1 DEF Shaped
      <4> QED BY <1>1, <1>3, <4>2 DEF Flown, AtHub
    <3>2. CASE Len(conns[l]) # 0
      BY <1>1, <2>3, <2>4, <3>2 DEF AtHub
    <3> QED BY <3>1, <3>2
  <2>8. InTransit(<<>>, <<>>, NoMessage) = {}
    BY NothingFinished DEF InTransit
  <2>9. Flow(l, h, <<>>, <<>>, NoMessage, spoiled[l], noise[l])
    <3>1. Streamed(h, {})
      BY DEF Streamed
    <3> QED BY <1>1, <1>2, <1>4, <2>8, <3>1, NoneLeft, FlowBare
  <2>10. Flown(l)'
    BY <1>1, <1>3, <1>4, <2>4, <2>6, <2>7, <2>9 DEF Flown
  <2> QED BY <1>3, <2>4, <2>10, OthersFlown DEF Besides
<1>6. CASE l \notin Streams
  <2> DEFINE c == [Conn(l) EXCEPT !.open = TRUE]
  <2>1. conns[l] # <<>> /\ conns' = WithConn(l, c)
    BY <1>1, <1>6 DEF Shaped, Open
  <2>2. c \in ConnType /\ c.down = Conn(l).down
    BY <1>1, <2>1, SameConn DEF ConnType
  <2> HIDE DEF c
  <2>3. h.pending \o c.down = Coming(l)
    BY <1>2, <1>4, <2>1, <2>2 DEF Coming
  <2>4. Flow(l, h, Coming(l), c.up, AtHub(l), spoiled[l], noise[l])
    BY <1>2, <1>4, <1>6, <2>1, LineParts, FlowBare
  <2>5. got' = got /\ Told(l, got'[l])
    BY <1>3, <1>4
  <2> QED BY <1>3, <1>6, <2>1, <2>2, <2>3, <2>4, <2>5, HostFlown
<1> QED BY <1>5, <1>6

\* Timeout: the one request awaited is given up.
LEMMA TimeoutFlown ==
  ASSUME FInv, NEW l \in Links, Timeout(l)
  PROVE  \A m \in Links : Flown(m)'
<1> DEFINE h == [host[l] EXCEPT !.inflight = <<>>]
           s == Coming(l)
           v == Leaving(l)
           d == AtHub(l)
<1>1. /\ IInv /\ conns[l] # <<>> /\ host[l] \in HostType /\ host[l].open
  BY Flying DEF Shaped, Timeout
<1>2. /\ h.pending = host[l].pending /\ h.open /\ h.inflight = <<>> /\ h.calls = host[l].calls
      /\ h.sequence = host[l].sequence
  BY <1>1 DEF HostType
<1>3. host' = [host EXCEPT ![l] = h] /\ conns' = WithConn(l, Conn(l))
  BY <1>1, SameConn DEF Timeout
<1>4. UNCHANGED <<bridge, spoiled, noise, got>>
  BY DEF Timeout, history
<1> HIDE DEF h
<1>5. h.pending \o Conn(l).down = s /\ Conn(l).up = v /\ Conn(l) \in ConnType
  BY <1>1, <1>2, LineParts
<1> HIDE DEF s, v, d
<1>6. l \in Streams => Streamed(h, InTransit(s, v, d))
  <2>1. l \in Streams => Streamed(host[l], InTransit(s, v, d))
    BY <1>1, LineParts DEF Flow, s, v, d
  <2> QED BY <1>2, <2>1 DEF Streamed, Numbered
<1>7. Flow(l, h, s, v, d, spoiled[l], noise[l])
  BY <1>1, <1>2, <1>6, LineParts, FlowBare DEF s, v, d
<1> QED BY <1>1, <1>3, <1>4, <1>5, <1>7, LineParts, HostFlown DEF d

\* The number after the last.
LEMMA Wraps ==
  ASSUME NEW a \in Nat, NEW b \in Nat \ {0}, a < b
  PROVE  (a + 1) % b = IF a + 1 = b THEN 0 ELSE a + 1
OBVIOUS

\* Send: a request more, with room for it and the number after the last.
LEMMA SendFlown ==
  ASSUME FInv, NEW l \in Links, Send(l)
  PROVE  \A m \in Links : Flown(m)'
<1> DEFINE q == NextRequest(l)
           a == [host[l] EXCEPT !.sequence = q.seq]
           b == [a EXCEPT !.calls = q.id]
           h == [b EXCEPT !.inflight = Append(host[l].inflight, q)]
           c == [Conn(l) EXCEPT !.up = Conn(l).up \o Framed(q)]
           s == Coming(l)
           v == Leaving(l)
           d == AtHub(l)
<1>1. /\ IInv /\ TypeOK /\ conns[l] # <<>> /\ host[l] \in HostType /\ host[l].open /\ MaySend(l)
  BY Flying DEF Shaped, Send, MaySend
<1>2. /\ q \in Messages /\ q.id = host[l].calls + 1
      /\ q.seq = (host[l].sequence + 1) % SeqModulus
  BY <1>1, NextRequestIs DEF NextRequest
<1>3. /\ host[l].calls \in Nat /\ host[l].sequence \in Nat /\ host[l].sequence < SeqModulus
      /\ host[l].inflight \in Seq(Messages) /\ Len(host[l].inflight) \in Nat
  BY <1>1, HostNats
<1>4. q.seq = IF host[l].sequence + 1 = SeqModulus THEN 0 ELSE host[l].sequence + 1
  BY <1>2, <1>3, Wraps, ConstantNats
<1>5. host' = [host EXCEPT ![l] = h] /\ conns' = WithConn(l, c)
  BY <1>1 DEF Send
<1>6. UNCHANGED <<bridge, spoiled, noise, got>>
  BY DEF Send, history
<1>7. Len(host[l].inflight) + 1 <= Depth
  <2>1. CASE host[l].stage = "work"
    BY <1>1, <1>3, <2>1, ConstantNats DEF MaySend
  <2>2. CASE host[l].stage # "work"
    <3>1. host[l].inflight = <<>>
      BY <1>1, <2>2 DEF MaySend
    <3>2. Len(host[l].inflight) = 0
      BY <3>1
    <3> QED BY <3>2, ConstantNats
  <2> QED BY <2>1, <2>2
<1> HIDE DEF q
<1>8. /\ h.sequence = q.seq /\ h.calls = q.id /\ h.open = host[l].open
      /\ h.inflight = Append(host[l].inflight, q) /\ h.pending = host[l].pending
  BY <1>1 DEF HostType
<1> HIDE DEF h
<1>9. Makes(h, host[l], q)
  BY <1>2, <1>4, <1>7, <1>8 DEF Makes, Follows
<1>10. /\ Conn(l) \in ConnType /\ Conn(l).up = v /\ host[l].pending \o Conn(l).down = s
       /\ v \in Seq(Pieces)
  BY <1>1, LineParts
<1>11. c \in ConnType /\ c.down = Conn(l).down /\ c.up = v \o Framed(q)
  <2>1. Framed(q) \in Seq(Pieces)
    BY <1>2, MessageParts
  <2>2. v \o Framed(q) \in Seq(Pieces)
    BY <1>10, <2>1, Joined
  <2> HIDE DEF v
  <2> QED BY <1>10, <2>2 DEF ConnType
<1> HIDE DEF c
<1>12. l \in Streams => RoomFor(q, InTransit(s, v, d))
  BY <1>1, <1>2, SendRoom
<1>13. Flow(l, host[l], s, v, d, spoiled[l], noise[l]) /\ Line(s, v, d, host[l].calls)
  BY <1>1, LineParts, Ways
<1> HIDE DEF s, v, d
<1>14. Flow(l, h, s, v \o Framed(q), d, spoiled[l], noise[l])
  BY <1>1, <1>2, <1>9, <1>12, <1>13, FlowSend
<1>15. Flow(l, h, h.pending \o c.down, c.up, d, spoiled[l], noise[l])
  BY <1>8, <1>10, <1>11, <1>14
<1> QED BY <1>1, <1>5, <1>6, <1>11, <1>15, LineParts, HostFlown DEF d

\* The first frame received is the first of what is coming.
LEMMA FrontFrame ==
  ASSUME FInv, NEW l \in Links, conns[l] # <<>>, HasFrame(host[l].pending)
  PROVE  LET e == FrameEnd(host[l].pending)
             s == Coming(l) IN
         /\ EndsAt(s, e) /\ Rest(l) \in Seq(Pieces)
         /\ Rest(l) \o Conn(l).down = From(s, e + 1)
         /\ Decodes(NextFrame(l)) <=>
              e = 2 /\ s[1].part = "first" /\ s[2].part = "final" /\ s[1].of = s[2].of
         /\ e = 2 => Reply(l) = s[1].of
<1> DEFINE p == host[l].pending
           e == FrameEnd(p)
           s == Coming(l)
           x == Conn(l).down
<1>1. p \in Seq(Pieces) /\ x \in Seq(Pieces) /\ s = p \o x
  BY LineParts
<1>2. HasFrame(p)
  OBVIOUS
<1> HIDE DEF p, s, x
<1>3. e \in Ends(p) /\ \A i \in Ends(p) : e <= i
  <2>1. Ends(p) \in SUBSET Nat /\ Ends(p) # {}
    BY <1>2 DEF Ends, HasFrame
  <2>2. \E i \in Ends(p) : \A j \in Ends(p) : i <= j
    BY <2>1, Least
  <2> QED BY <2>2 DEF FrameEnd
<1>4. e \in 1..Len(p) /\ Len(p) \in Nat /\ e + 1 \in 1..(Len(p) + 1)
  BY <1>1, <1>3 DEF Ends
<1> HIDE DEF e
<1>5. /\ s \in Seq(Pieces) /\ Len(s) = Len(p) + Len(x) /\ Len(x) \in Nat
      /\ \A i \in 1..Len(p) : s[i] = p[i]
  BY <1>1, Joined
<1>6. EndsAt(s, e)
  <2>1. e \in 1..Len(s) /\ s[e].part \in {"gap", "final"}
    BY <1>3, <1>4, <1>5 DEF Ends
  <2>2. ASSUME NEW i \in 1..(e - 1) PROVE s[i].part \notin {"gap", "final"}
    <3>1. i \in 1..Len(p) /\ ~(e <= i)
      BY <1>4
    <3>2. i \notin Ends(p)
      BY <1>3, <3>1
    <3> QED BY <1>5, <3>1, <3>2 DEF Ends
  <2> QED BY <2>1, <2>2 DEF EndsAt
<1>7. Rest(l) \in Seq(Pieces) /\ Rest(l) \o x = From(s, e + 1)
  <2>1. Rest(l) = From(p, e + 1)
    BY DEF Rest, p, e
  <2>2. From(p, e + 1) \in Seq(Pieces)
    BY <1>1, <1>4, FromIs
  <2> DEFINE k == e + 1
  <2>3. k \in 1..(Len(p) + 1)
    BY <1>4
  <2> HIDE DEF k
  <2>4. From(p, k) \o x = From(p \o x, k)
    BY <1>1, <2>3, FromJoin
  <2> QED BY <1>1, <2>1, <2>2, <2>4 DEF k
<1> DEFINE f == NextFrame(l)
<1>8. Len(f) = e /\ \A i \in 1..e : f[i] = s[i]
  <2>1. f = SubSeq(p, 1, e)
    BY DEF NextFrame, p, e
  <2>2. Len(SubSeq(p, 1, e)) = e /\ \A i \in 1..e : SubSeq(p, 1, e)[i] = p[i]
    BY <1>1, <1>4
  <2> HIDE DEF f
  <2> QED BY <1>4, <1>5, <2>1, <2>2
<1> HIDE DEF f
<1>9. Decodes(f) <=> e = 2 /\ s[1].part = "first" /\ s[2].part = "final" /\ s[1].of = s[2].of
  BY <1>8 DEF Decodes
<1>10. e = 2 => Reply(l) = s[1].of
  BY <1>8 DEF Reply, f
<1> QED BY <1>6, <1>7, <1>9, <1>10 DEF s, e, p, x, f

\* DieSending: the session is over, and its last request never ends.
LEMMA DieSendingFlown ==
  ASSUME FInv, NEW l \in Links, DieSending(l)
  PROVE  \A m \in Links : Flown(m)'
<1> DEFINE q == NextRequest(l)
           a == Closed(host[l])
           h == [a EXCEPT !.calls = q.id]
<1>1. IInv /\ conns[l] # <<>> /\ host[l] \in HostType
  BY Flying DEF Shaped, DieSending, MaySend
<1>2. PICK c \in ConnType :
        /\ conns' = WithConn(l, c)
        /\ c.down = <<>> \/ \E n \in 1..(Len(Conn(l).down) + 1) : c.down = From(Conn(l).down, n)
  BY <1>1, HalfWritten
<1>3. host' = [host EXCEPT ![l] = h] /\ UNCHANGED <<bridge, spoiled, noise, got>>
  BY DEF DieSending
<1>4. a \in HostType /\ a.inflight = <<>> /\ a.pending = <<>> /\ ~a.open
  BY <1>1, ClosedIs
<1> HIDE DEF a, q
<1>5. h.inflight = <<>> /\ h.pending = <<>> /\ ~h.open
  BY <1>4 DEF HostType
<1> HIDE DEF h
<1> QED BY <1>1, <1>2, <1>3, <1>5, OverFlown

\* Discard: the frame dropped was not the reply awaited, whichever that is.
LEMMA DiscardFlown ==
  ASSUME FInv, NEW l \in Links, Discard(l)
  PROVE  \A m \in Links : Flown(m)'
<1> DEFINE h == [host[l] EXCEPT !.pending = Rest(l)]
           s == Coming(l)
           v == Leaving(l)
           d == AtHub(l)
           e == FrameEnd(host[l].pending)
           f == host[l].inflight
<1>1. /\ IInv /\ conns[l] # <<>> /\ host[l] \in HostType /\ host[l].open /\ f # <<>>
      /\ HasFrame(host[l].pending) /\ ~Mine(l) /\ noise[l] \in Nat
  BY Flying DEF Shaped, Discard, Awaiting
<1>2. /\ h.pending = Rest(l) /\ h.open = host[l].open /\ h.inflight = f
      /\ h.calls = host[l].calls /\ h.sequence = host[l].sequence
  BY <1>1 DEF HostType
<1>3. host' = [host EXCEPT ![l] = h] /\ conns' = WithConn(l, Conn(l))
  BY <1>1, SameConn DEF Discard
<1>4. UNCHANGED <<bridge, spoiled, noise, got>>
  BY DEF Discard, history
<1>5. f \in Seq(Messages) /\ Len(f) \in Nat /\ Len(f) >= 1 /\ Head(f) = f[1]
  <2>1. f \in Seq(Messages) /\ f # <<>>
    BY <1>1, HostNats
  <2> HIDE DEF f
  <2> QED BY <2>1
<1> HIDE DEF h
<1>6. /\ EndsAt(s, e) /\ Rest(l) \o Conn(l).down = From(s, e + 1)
      /\ Decodes(NextFrame(l)) <=>
           e = 2 /\ s[1].part = "first" /\ s[2].part = "final" /\ s[1].of = s[2].of
      /\ e = 2 => Reply(l) = s[1].of
  BY <1>1, FrontFrame
<1>7. /\ Flow(l, host[l], s, v, d, spoiled[l], noise[l]) /\ Line(s, v, d, host[l].calls)
      /\ Conn(l).up = v /\ Conn(l) \in ConnType
  BY <1>1, LineParts, Ways
<1>8. ~(e = 2 /\ s[1] = First(f[1]) /\ s[2] = Final(f[1]))
  <2> HIDE DEF s, f
  <2> SUFFICES ASSUME e = 2, s[1] = First(f[1]), s[2] = Final(f[1]) PROVE Mine(l)
    BY <1>1
  <2>1. s[1].part = "first" /\ s[2].part = "final" /\ s[1].of = f[1] /\ s[2].of = f[1]
    BY DEF First, Final
  <2>2. Decodes(NextFrame(l)) /\ Reply(l) = f[1]
    BY <1>6, <2>1
  <2> QED BY <1>5, <2>2 DEF Mine, f
<1> HIDE DEF s, v, d, e
<1>9. Flow(l, h, From(s, e + 1), v, d, spoiled[l], noise[l])
  BY <1>1, <1>2, <1>5, <1>6, <1>7, <1>8, FlowDrop
<1>10. Flow(l, h, h.pending \o Conn(l).down, Conn(l).up, d, spoiled[l], noise[l])
  BY <1>2, <1>6, <1>7, <1>9
<1> QED BY <1>1, <1>3, <1>4, <1>7, <1>10, LineParts, HostFlown DEF d

\* Receive: the reply taken is the first on the line; what it passed over is damaged.
LEMMA ReceiveFlown ==
  ASSUME FInv, NEW l \in Links, Receive(l)
  PROVE  \A m \in Links : Flown(m)'
<1> DEFINE s == Coming(l)
           v == Leaving(l)
           d == AtHub(l)
           e == FrameEnd(host[l].pending)
           f == host[l].inflight
           a == [host[l] EXCEPT !.pending = Rest(l)]
           b == [a EXCEPT !.inflight = Tail(f)]
           h == [b EXCEPT !.stage = NextStage(host[l].stage)]
<1>1. /\ IInv /\ TypeOK /\ conns[l] # <<>> /\ host[l] \in HostType /\ host[l].open /\ f # <<>>
      /\ HasFrame(host[l].pending) /\ Mine(l) /\ noise[l] \in Nat
  BY Flying DEF Shaped, Receive, Awaiting
<1>2. /\ h.pending = Rest(l) /\ h.open = host[l].open /\ h.inflight = Tail(f)
      /\ h.calls = host[l].calls /\ h.sequence = host[l].sequence
  BY <1>1 DEF HostType
<1>3. host' = [host EXCEPT ![l] = h] /\ conns' = WithConn(l, Conn(l))
  BY <1>1, SameConn DEF Receive
<1>4. UNCHANGED <<bridge, spoiled, noise>> /\ got' = Returned(l)
  BY DEF Receive
<1>5. f \in Seq(Messages) /\ Len(f) \in Nat /\ Len(f) >= 1 /\ Head(f) = f[1]
  <2>1. f \in Seq(Messages) /\ f # <<>>
    BY <1>1, HostNats
  <2> HIDE DEF f
  <2> QED BY <2>1
<1> HIDE DEF h
<1>6. /\ EndsAt(s, e) /\ Rest(l) \o Conn(l).down = From(s, e + 1)
      /\ Decodes(NextFrame(l)) <=>
           e = 2 /\ s[1].part = "first" /\ s[2].part = "final" /\ s[1].of = s[2].of
      /\ e = 2 => Reply(l) = s[1].of
  BY <1>1, FrontFrame
<1>7. /\ Flow(l, host[l], s, v, d, spoiled[l], noise[l]) /\ Line(s, v, d, host[l].calls)
      /\ Conn(l).up = v /\ Conn(l) \in ConnType
  BY <1>1, LineParts, Ways
<1> HIDE DEF s, v, d, e
<1>8. s[e].part = "final" /\ s[e].of = Reply(l) /\ s[e].of.seq = f[1].seq
  BY <1>1, <1>5, <1>6 DEF Mine
<1>9. Flow(l, h, From(s, e + 1), v, d, spoiled[l], noise[l])
  BY <1>1, <1>2, <1>5, <1>6, <1>7, <1>8, FlowReceive
<1>10. Flow(l, h, h.pending \o Conn(l).down, Conn(l).up, d, spoiled[l], noise[l])
  BY <1>2, <1>6, <1>7, <1>9
<1>11. /\ got'[l] = [want |-> f[1].id, had |-> Reply(l).id]
       /\ \A m \in Links \ {l} : got'[m] = got[m]
  BY <1>1, <1>4, <1>5 DEF Returned, TypeOK
<1>12. Told(l, got'[l])
  <2>1. ASSUME l \in Streams PROVE f[1].id = Reply(l).id
    <3>1. Ample(l)
      BY <2>1 DEF Ample
    <3> QED BY <1>1, <1>5, <1>6, <1>7, <1>8, <2>1, <3>1, TakenFor
  <2>2. ASSUME Depth <= SeqModulus PROVE Reply(l).id <= f[1].id
    BY <1>1, <1>5, <1>6, <1>7, <1>8, <2>2, NeverLater
  <2> QED BY <1>11, <2>1, <2>2 DEF Told
<1> QED BY <1>1, <1>3, <1>4, <1>7, <1>10, <1>11, <1>12, HostFlown DEF d

\* What is buffered without the end of a frame is short.
LEMMA BufferShort ==
  ASSUME NEW p \in Seq(Pieces), ~HasFrame(p), NEW d \in Seq(Pieces), NEW k \in Nat,
         Short(p \o d, k)
  PROVE  Len(p) <= k + 1
<1> DEFINE s == p \o d
<1>1. /\ s \in Seq(Pieces) /\ Len(p) \in Nat /\ Len(d) \in Nat /\ Len(s) = Len(p) + Len(d)
      /\ \A i \in 1..Len(p) : s[i] = p[i]
  BY Joined
<1>2. Short(s, k)
  OBVIOUS
<1> HIDE DEF s
<1>3. CASE Len(p) >= 1
  <2>1. ASSUME NEW i \in 1..Len(p) PROVE s[i].part \notin {"gap", "final"}
    BY <1>1, <2>1 DEF HasFrame, Ends
  <2>2. 1 \in 1..Len(s) /\ Len(p) \in 1..Len(s)
    BY <1>1, <1>3
  <2>3. Len(p) - 1 <= k
    BY <1>2, <2>1, <2>2 DEF Short, Gapless
  <2> QED BY <1>1, <2>3
<1> QED BY <1>1, <1>3

\* Read: from the pipe to the buffer, which never has to be cleared.
LEMMA ReadFlown ==
  ASSUME FInv, NEW l \in Links, Read(l)
  PROVE  \A m \in Links : Flown(m)'
<1> DEFINE p == host[l].pending
           x == Conn(l).down
           s == Coming(l)
           v == Leaving(l)
           d == AtHub(l)
<1>1. /\ IInv /\ TypeOK /\ conns[l] # <<>> /\ host[l] \in HostType /\ host[l].open
      /\ ~HasFrame(p) /\ noise[l] \in Nat
  BY Flying DEF Shaped, Read
<1>2. /\ p \in Seq(Pieces) /\ x \in Seq(Pieces) /\ s = p \o x /\ Conn(l) \in ConnType
      /\ s \in Seq(Pieces) /\ Len(p) \in Nat /\ Len(x) \in Nat
      /\ Flow(l, host[l], s, v, d, spoiled[l], noise[l])
      /\ InOrder(s) /\ AllBefore(s, d) /\ Short(s, noise[l]) /\ Conn(l).up = v
      /\ noise[l] <= MaxNoise[l] /\ (l \in Streams => noise[l] = 0 /\ spoiled[l] = {})
  BY <1>1, LineParts, Joined
<1>3. PICK n \in 1..Shortest(ReadChunk, Len(x)) :
        LET joined == p \o SubSeq(x, 1, n) IN
        /\ host' = [host EXCEPT ![l].pending =
                     IF Len(joined) > PendingLimit THEN <<>> ELSE joined]
        /\ conns' = WithConn(l, [Conn(l) EXCEPT !.down = From(@, n + 1)])
  BY DEF Read
<1> DEFINE joined == p \o SubSeq(x, 1, n)
           y == IF Len(joined) > PendingLimit THEN <<>> ELSE joined
           h == [host[l] EXCEPT !.pending = y]
           rest == From(x, n + 1)
           c == [Conn(l) EXCEPT !.down = rest]
           t == y \o rest
<1>4. n \in 1..Len(x) /\ n <= ReadChunk /\ n \in Nat
  <2>1. ReadChunk \in Nat
    BY ConstantNats
  <2> HIDE DEF x
  <2> QED BY <1>2, <2>1 DEF Shortest
<1>5. host' = [host EXCEPT ![l] = h] /\ conns' = WithConn(l, c)
  BY <1>1, <1>3
<1>6. UNCHANGED <<bridge, spoiled, noise, got>>
  BY DEF Read, history
<1>7. /\ h.pending = y /\ h.open = host[l].open /\ h.inflight = host[l].inflight
      /\ h.calls = host[l].calls /\ h.sequence = host[l].sequence
  BY <1>1 DEF HostType
<1> HIDE DEF h
<1>8. /\ joined \o rest = s /\ joined \in Seq(Pieces) /\ Len(joined) = Len(p) + n
      /\ rest = From(s, Len(p) + n + 1) /\ Len(p) + n + 1 \in 1..(Len(s) + 1)
  <2>1. p \in Seq(Pieces) /\ x \in Seq(Pieces) /\ s = p \o x /\ n \in 1..Len(x)
    BY <1>2, <1>4
  <2> HIDE DEF p, x, s
  <2>2. /\ (p \o SubSeq(x, 1, n)) \o From(x, n + 1) = p \o x
        /\ p \o SubSeq(x, 1, n) \in Seq(Pieces)
        /\ Len(p \o SubSeq(x, 1, n)) = Len(p) + n
        /\ From(p \o x, Len(p) + n + 1) = From(x, n + 1)
        /\ Len(p) + n + 1 \in 1..(Len(p \o x) + 1)
    BY <2>1, ReadJoin
  <2> QED BY <2>1, <2>2
<1>9. rest \in Seq(Pieces)
  <2>1. n + 1 \in 1..(Len(x) + 1)
    <3> HIDE DEF x
    <3> QED BY <1>2, <1>4
  <2> HIDE DEF x
  <2> QED BY <1>2, <2>1, FromIs
<1>10. c \in ConnType /\ c.down = rest /\ c.up = v
  <2> HIDE DEF rest, v
  <2> QED BY <1>2, <1>9 DEF ConnType
<1> HIDE DEF c
<1>11. Len(p) <= noise[l] + 1
  <2> HIDE DEF p, x, s
  <2> QED BY <1>1, <1>2, BufferShort
<1> HIDE DEF p, x, s, v, d, joined, rest
<1>12. Ample(l) => Len(joined) <= PendingLimit
  <2> SUFFICES ASSUME Ample(l) PROVE Len(joined) <= PendingLimit
    OBVIOUS
  <2>1. /\ ReadChunk \in Nat \ {0} /\ PendingLimit \in Nat /\ 2 * ReadChunk <= PendingLimit
        /\ MaxNoise[l] \in Nat
    BY ConstantNats
  <2>2. CASE l \in Streams
    <3>1. Len(joined) <= 1 + ReadChunk
      BY <1>2, <1>4, <1>8, <1>11, <2>1, <2>2
    <3> QED BY <1>2, <1>4, <1>8, <2>1, <3>1
  <2>3. CASE l \notin Streams
    <3>1. MaxNoise[l] + 1 + ReadChunk <= PendingLimit
      BY <2>3 DEF Ample
    <3> QED BY <1>1, <1>2, <1>4, <1>8, <1>11, <2>1, <3>1
  <2> QED BY <2>2, <2>3
<1>13. t = s \/ (~Ample(l) /\ t = From(s, Len(p) + n + 1))
  <2>1. CASE Len(joined) <= PendingLimit
    <3>1. y = joined
      <4>1. Len(joined) \in Nat /\ PendingLimit \in Nat
        BY <1>2, <1>4, <1>8, ConstantNats
      <4> QED BY <2>1, <4>1
    <3> QED BY <1>8, <3>1
  <2>2. CASE ~(Len(joined) <= PendingLimit)
    <3>1. y = <<>>
      <4>1. Len(joined) \in Nat /\ PendingLimit \in Nat
        BY <1>2, <1>4, <1>8, ConstantNats
      <4> QED BY <2>2, <4>1
    <3>2. t = rest
      BY <1>9, <3>1
    <3> QED BY <1>8, <1>12, <2>2, <3>2
  <2> QED BY <2>1, <2>2
<1> HIDE DEF t
<1>14. /\ InOrder(t) /\ AllBefore(t, d) /\ Short(t, noise[l])
       /\ Finished(t) \subseteq Finished(s)
  <2>1. CASE t = s
    BY <1>2, <2>1
  <2>2. CASE t = From(s, Len(p) + n + 1)
    <3> DEFINE k == Len(p) + n + 1
    <3> HIDE DEF k
    <3> QED BY <1>1, <1>2, <1>8, <2>2, CutParts, FinishedCut DEF k
  <2> QED BY <1>13, <2>1, <2>2
<1>15. InTransit(t, v, d) \subseteq InTransit(s, v, d)
  BY <1>14 DEF InTransit
<1>16. l \in Streams => t = s
  BY <1>13 DEF Ample
<1>17. Ample(l) => t = s
  BY <1>13
<1>18. Flow(l, h, t, v, d, spoiled[l], noise[l])
  <2>1. host[l].inflight \in Seq(Messages)
    BY <1>1, HostNats
  <2>2. ~h.open => h.pending = <<>>
    BY <1>1, <1>7
  <2>3. l \in Streams => /\ InTransit(s, v, d) \subseteq InTransit(t, v, d)
                         /\ spoiled[l] = {} /\ noise[l] = 0
    BY <1>2, <1>16
  <2>4. Ample(l) => \A m \in Messages :
                      OnWay(m, s, v, d) => OnWay(m, t, v, d) \/ m.id \in spoiled[l]
    BY <1>17
  <2>5. Flow(l, host[l], s, v, d, spoiled[l], noise[l]) /\ noise[l] <= MaxNoise[l]
    BY <1>2
  <2> HIDE DEF y
  <2> QED BY <1>7, <1>14, <1>15, <2>1, <2>2, <2>3, <2>4, <2>5, FlowMove
<1>19. Flow(l, h, h.pending \o c.down, c.up, d, spoiled[l], noise[l])
  BY <1>7, <1>10, <1>18 DEF t
<1> QED BY <1>1, <1>5, <1>6, <1>10, <1>19, LineParts, HostFlown DEF d

-----------------------------------------------------------------------------
(* What the bridge does. *)

\* A link with one connection: its session's is the one served.
LEMMA OneConn ==
  ASSUME FInv, NEW l \in Links, Len(conns[l]) = 1
  PROVE  /\ conns[l] # <<>> /\ Conn(l) = conns[l][1] /\ AtHub(l) = bridge[l].doing
         /\ Coming(l) = host[l].pending \o conns[l][1].down /\ Leaving(l) = conns[l][1].up
<1>1. conns[l] # <<>>
  BY Flying
<1> QED BY <1>1 DEF Conn, AtHub, Coming, Leaving

\* The bridge goes on with what it has in hand.
LEMMA QuietFlown ==
  ASSUME FInv, NEW l \in Links, conns[l] # <<>>,
         NEW e, bridge' = [bridge EXCEPT ![l] = e],
         e.phase = "reading" => e.doing = NoMessage, e.doing = bridge[l].doing,
         UNCHANGED <<host, conns, spoiled, noise, got>>
  PROVE  \A m \in Links : Flown(m)'
<1> DEFINE c == conns[l][1]
           x == spoiled[l]
           z == noise[l]
<1>1. c \in ConnType /\ conns' = [conns EXCEPT ![l][1] = c]
  BY Flying, SameFirst
<1>2. spoiled' = [spoiled EXCEPT ![l] = x] /\ noise' = [noise EXCEPT ![l] = z]
  BY Flying DEF TypeOK
<1>3. ASSUME Len(conns[l]) = 1
      PROVE  Flow(l, host[l], host[l].pending \o c.down, c.up, e.doing, x, z)
  <2>1. /\ Coming(l) = host[l].pending \o c.down /\ Leaving(l) = c.up
        /\ AtHub(l) = e.doing
    BY <1>3, OneConn
  <2>2. Flow(l, host[l], Coming(l), Leaving(l), AtHub(l), x, z)
    BY LineParts
  <2> HIDE DEF c, x, z
  <2> QED BY <2>1, <2>2
<1> HIDE DEF c, x, z
<1>4. Len(conns[l]) # 1 => x = spoiled[l] /\ z = noise[l]
  BY DEF x, z
<1> QED BY <1>1, <1>2, <1>3, <1>4, ServeFlown

\* Accept, Lock and Run move nothing.
LEMMA AcceptFlown ==
  ASSUME FInv, NEW l \in Links, Accept(l)
  PROVE  \A m \in Links : Flown(m)'
<1> DEFINE e == [bridge[l] EXCEPT !.serving = TRUE, !.frame = <<>>]
<1>1. Flown(l) /\ bridge[l] \in BridgeType /\ conns[l] # <<>>
  BY Flying DEF Accept
<1>2. e.phase = bridge[l].phase /\ e.doing = bridge[l].doing
  BY <1>1 DEF BridgeType
<1>3. bridge' = [bridge EXCEPT ![l] = e] /\ UNCHANGED <<host, conns, spoiled, noise, got>>
  BY DEF Accept, history
<1> HIDE DEF e
<1> QED BY <1>1, <1>2, <1>3, QuietFlown DEF Flown

LEMMA LockFlown ==
  ASSUME FInv, NEW l \in Links, Lock(l)
  PROVE  \A m \in Links : Flown(m)'
<1> DEFINE e == [bridge[l] EXCEPT !.phase = "running"]
<1>1. bridge[l] \in BridgeType /\ conns[l] # <<>>
  BY Flying DEF Lock, Shaped
<1>2. e.phase = "running" /\ e.doing = bridge[l].doing
  BY <1>1 DEF BridgeType
<1>3. bridge' = [bridge EXCEPT ![l] = e] /\ UNCHANGED <<host, conns, spoiled, noise, got>>
  BY DEF Lock, history
<1> HIDE DEF e
<1> QED BY <1>1, <1>2, <1>3, QuietFlown

LEMMA RunFlown ==
  ASSUME FInv, NEW l \in Links, Run(l)
  PROVE  \A m \in Links : Flown(m)'
<1> DEFINE e == [bridge[l] EXCEPT !.phase = "writing"]
<1>1. bridge[l] \in BridgeType /\ conns[l] # <<>>
  BY Flying DEF Run, Shaped
<1>2. e.phase = "writing" /\ e.doing = bridge[l].doing
  BY <1>1 DEF BridgeType
<1>3. bridge' = [bridge EXCEPT ![l] = e] /\ UNCHANGED <<host, conns, spoiled, noise, got>>
  BY DEF Run
<1> HIDE DEF e
<1> QED BY <1>1, <1>2, <1>3, QuietFlown

\* The first piece of what leaves is taken.
LEMMA HeadTaken ==
  ASSUME NEW v \in Seq(Pieces), v # <<>>
  PROVE  /\ Tail(v) \in Seq(Pieces) /\ v[1] \in Pieces
         /\ Finished(Tail(v)) \subseteq Finished(v)
         /\ v[1].part = "final" => Finished(v) = Finished(Tail(v)) \cup {v[1].of}
         /\ v[1].part # "final" => Finished(v) = Finished(Tail(v))
<1> DEFINE t == Tail(v)
<1>1. /\ t \in Seq(Pieces) /\ Len(v) \in Nat \ {0} /\ Len(t) = Len(v) - 1
      /\ \A i \in 1..Len(t) : t[i] = v[i + 1]
      /\ v[1] \in Pieces
  OBVIOUS
<1> HIDE DEF t
<1>2. ASSUME NEW m \in Finished(t) PROVE m \in Finished(v)
  <2>1. PICK i \in 1..Len(t) : t[i].part = "final" /\ t[i].of = m
    BY <1>1, FinishedFrom
  <2> DEFINE j == i + 1
  <2>2. j \in 1..Len(v) /\ v[j] = t[i]
    BY <1>1
  <2> HIDE DEF j
  <2> QED BY <2>1, <2>2, FinishedAt
<1>3. ASSUME NEW m \in Finished(v), m \notin Finished(t)
      PROVE  v[1].part = "final" /\ v[1].of = m
  <2>1. PICK i \in 1..Len(v) : v[i].part = "final" /\ v[i].of = m
    BY FinishedFrom
  <2>2. CASE i = 1
    BY <2>1, <2>2
  <2>3. CASE i # 1
    <3> DEFINE j == i - 1
    <3>1. j \in 1..Len(t) /\ t[j] = v[i]
      <4>1. j \in 1..Len(t) /\ j + 1 = i
        BY <1>1, <2>3
      <4> QED BY <1>1, <4>1
    <3> HIDE DEF j
    <3> QED BY <1>1, <1>3, <2>1, <3>1, FinishedAt
  <2> QED BY <2>2, <2>3
<1>4. v[1].part = "final" => v[1].of \in Finished(v)
  <2>1. 1 \in 1..Len(v)
    BY <1>1
  <2> QED BY <2>1, FinishedAt
<1> QED BY <1>1, <1>2, <1>3, <1>4 DEF t

\* Take: a request is whole on its way or the one in hand.
LEMMA TakeFlown ==
  ASSUME FInv, NEW l \in Links, Take(l)
  PROVE  \A m \in Links : Flown(m)'
<1> DEFINE p == Head(Upstream(l))
           f == Append(bridge[l].frame, p)
           e == IF p.part = "first" THEN [bridge[l] EXCEPT !.frame = f]
                ELSE IF Decodes(f)
                     THEN [bridge[l] EXCEPT !.frame = <<>>, !.phase = "asking", !.doing = p.of]
                     ELSE [bridge[l] EXCEPT !.frame = <<>>]
           r == Tail(Upstream(l))
           c == [conns[l][1] EXCEPT !.up = r]
           x == spoiled[l]
           z == noise[l]
<1>1. /\ IInv /\ TypeOK /\ Shaped(l) /\ Requests(l) /\ Flown(l) /\ conns[l] # <<>>
      /\ bridge[l] \in BridgeType /\ host[l] \in HostType
      /\ bridge[l].phase = "reading" /\ bridge[l].serving /\ bridge[l].doing = NoMessage
      /\ Len(conns[l]) \in Nat
  BY Flying DEF Shaped, Take, Serving, Flown
<1>2. /\ conns[l][1] \in ConnType /\ Len(conns[l]) \in Nat \ {0}
      /\ Upstream(l) \in Seq(Pieces) /\ Upstream(l) # <<>>
  BY <1>1, FirstConn DEF ConnType, Upstream, Take
<1>3. /\ p = Upstream(l)[1] /\ p \in Pieces /\ r \in Seq(Pieces)
      /\ p.part = "final" => Finished(Upstream(l)) = Finished(r) \cup {p.of}
      /\ p.part # "final" => Finished(Upstream(l)) = Finished(r)
      /\ 1 \in 1..Len(Upstream(l))
  <2> DEFINE v == Upstream(l)
  <2>1. v \in Seq(Pieces) /\ v # <<>>
    BY <1>2
  <2> HIDE DEF v
  <2>2. Head(v) = v[1] /\ 1 \in 1..Len(v)
    BY <2>1
  <2> QED BY <2>1, <2>2, HeadTaken DEF v
<1>4. c \in ConnType /\ c.up = r /\ c.down = conns[l][1].down
  <2> HIDE DEF r
  <2> QED BY <1>2, <1>3 DEF ConnType
<1>5. conns' = [conns EXCEPT ![l][1] = c] /\ bridge' = [bridge EXCEPT ![l] = e]
  BY DEF Take, Upstream
<1>6. /\ spoiled' = [spoiled EXCEPT ![l] = x] /\ noise' = [noise EXCEPT ![l] = z]
      /\ UNCHANGED <<host, got>>
  BY <1>1 DEF Take, history, TypeOK
<1> HIDE DEF c, r, x, z
<1>7. p.part # "text" /\ (p.part = "final" => bridge[l].frame = <<First(p.of)>>)
  <2>1. Len(Ups(l)) = Len(conns[l]) /\ Ups(l)[1] = Upstream(l)
    BY <1>1, <1>2, UpsIs DEF Upstream
  <2>2. FrameAt(Ups(l), bridge[l], 1, 1)
    BY <1>1, <1>2, <1>3, <2>1 DEF Requests, Requested, Built
  <2> HIDE DEF p
  <2> QED BY <1>3, <2>1, <2>2 DEF FrameAt
<1> HIDE DEF p
<1>8. /\ p.part = "final" => e.phase = "asking" /\ e.doing = p.of /\ p.of \in Messages
      /\ p.part # "final" => e.phase = "reading" /\ e.doing = NoMessage
  <2> DEFINE b == bridge[l]
             g == Append(b.frame, p)
             i == IF p.part = "first" THEN [b EXCEPT !.frame = g]
                  ELSE IF Decodes(g)
                       THEN [b EXCEPT !.frame = <<>>, !.phase = "asking", !.doing = p.of]
                       ELSE [b EXCEPT !.frame = <<>>]
  <2>1. /\ b \in BridgeType /\ b.phase = "reading" /\ b.serving /\ p \in Pieces
        /\ p.part = "final" => b.frame = <<First(p.of)>>
        /\ p.part # "text" /\ b.doing = NoMessage
    BY <1>1, <1>3, <1>7
  <2>2. e = i
    OBVIOUS
  <2> HIDE DEF e, b
  <2>3. /\ p.part = "final" => i.phase = "asking" /\ i.doing = p.of /\ p.of \in Messages
        /\ p.part # "final" => i.phase = "reading" /\ i.doing = b.doing
    BY <2>1, TakenIs
  <2> HIDE DEF i
  <2> QED BY <2>1, <2>2, <2>3
<1> HIDE DEF e
<1>9. ASSUME Len(conns[l]) = 1
      PROVE  Flow(l, host[l], host[l].pending \o c.down, c.up, e.doing, x, z)
  <2> DEFINE s == Coming(l)
             v == Leaving(l)
  <2>1. /\ s = host[l].pending \o c.down /\ v = Upstream(l) /\ AtHub(l) = NoMessage
    BY <1>1, <1>4, <1>9, OneConn DEF Upstream
  <2>2. /\ Flow(l, host[l], s, v, NoMessage, x, z) /\ Line(s, v, NoMessage, host[l].calls)
        /\ InOrder(s) /\ Short(s, z) /\ z <= MaxNoise[l] /\ (l \in Streams => z = 0 /\ x = {})
    BY <1>1, <2>1, LineParts, Ways DEF x, z
  <2> HIDE DEF s, v
  <2>3. InTransit(s, r, e.doing) = InTransit(s, v, NoMessage)
    <3>1. p.of \in Messages => p.of # NoMessage
      BY MessageParts
    <3> QED BY <1>3, <1>8, <2>1, <3>1 DEF InTransit
  <2>4. AllBefore(s, e.doing)
    BY <1>3, <1>8, <2>1, <2>2 DEF AllBefore, Line
  <2>5. ASSUME NEW m \in Messages, OnWay(m, s, v, NoMessage) PROVE OnWay(m, s, r, e.doing)
    <3>1. m # NoMessage
      BY MessageParts
    <3> QED BY <1>3, <1>8, <2>1, <2>5, <3>1 DEF OnWay
  <2>6. host[l].inflight \in Seq(Messages) /\ (~host[l].open => host[l].pending = <<>>)
    BY <1>1, <2>2, HostNats DEF Flow
  <2>7. Flow(l, host[l], s, r, e.doing, x, z)
    BY <2>2, <2>3, <2>4, <2>5, <2>6, FlowMove
  <2> QED BY <1>4, <2>1, <2>7
<1>10. Len(conns[l]) # 1 => x = spoiled[l] /\ z = noise[l]
  BY DEF x, z
<1>11. e.phase = "reading" => e.doing = NoMessage
  BY <1>8
<1> QED BY <1>1, <1>4, <1>5, <1>6, <1>9, <1>10, <1>11, ServeFlown

\* A frame written whole or in part is in order.
LEMMA WroteOrder ==
  ASSUME NEW m \in Messages, NEW w \in 0..3
  PROVE  InOrder(Wrote(m, w))
<1> DEFINE t == Wrote(m, w)
           f == Framed(m)
<1>1. /\ f \in Seq(Pieces) /\ Len(f) = 3 /\ f[1] = Gap /\ f[2] = First(m)
  BY MessageParts DEF Framed
<1>2. Gap.part = "gap" /\ First(m).part = "first"
  BY DEF Gap, First
<1> HIDE DEF f
<1>3. t \in Seq(Pieces) /\ Len(t) = w /\ \A i \in 1..w : t[i] = f[i]
  <2>1. t = SubSeq(f, 1, w) /\ w \in 0..Len(f)
    BY <1>1 DEF Wrote, f
  <2> QED BY <1>1, <2>1
<1> HIDE DEF t
<1>4. \A i \in Finals(t) : i = 3
  <2> SUFFICES ASSUME NEW i \in Finals(t) PROVE i = 3
    OBVIOUS
  <2>1. i \in 1..w /\ t[i].part = "final"
    BY <1>3, FinalsIs
  <2>2. i # 1 /\ i # 2
    BY <1>1, <1>2, <1>3, <2>1
  <2> QED BY <2>1, <2>2
<1>5. InOrder(t)
  BY <1>4 DEF InOrder
<1> QED BY <1>5 DEF t

\* A reply is written, whole or in part; what had to be cut is damaged.
LEMMA FlowReplied ==
  ASSUME NEW l \in Links, NEW h \in HostType, NEW s, NEW v, NEW m \in Messages,
         NEW sp, NEW nz \in Nat,
         Flow(l, h, s, v, m, sp, nz), Line(s, v, m, h.calls),
         NEW w \in 0..3, NEW sq, sp \subseteq sq,
         w = 3 \/ m.id \in sq, l \in Streams => w = 3 /\ sq = {}
  PROVE  Flow(l, h, s \o Wrote(m, w), v, NoMessage, sq, nz)
<1> DEFINE r == Wrote(m, w)
           t == s \o r
<1>1. s \in Seq(Pieces) /\ h.inflight \in Seq(Messages)
  BY HostNats DEF Line
<1>2. /\ r \in Seq(Pieces) /\ Short(r, nz) /\ InOrder(r) /\ (r # <<>> => r[1].part = "gap")
  BY WroteShort, WroteOrder
<1>3. w = 3 => r = Framed(m)
  <2> DEFINE f == Framed(m)
  <2>1. f \in Seq(Pieces) /\ Len(f) = 3
    BY MessageParts DEF Framed
  <2> HIDE DEF f
  <2>2. SubSeq(f, 1, 3) = f
    BY <2>1
  <2> QED BY <2>2 DEF f, Wrote
<1>4. Finished(r) \subseteq {m} /\ (w = 3 => Finished(r) = {m})
  <2>1. CASE w = 3
    BY <1>3, <2>1, FinishedFrame
  <2>2. CASE w # 3
    <3>1. w \in 0..2
      BY <2>2
    <3> QED BY <2>2, <3>1, FinishedFrame
  <2> QED BY <2>1, <2>2
<1> HIDE DEF r
<1>5. /\ InOrder(s) /\ AllBefore(s, m) /\ Short(s, nz) /\ nz <= MaxNoise[l]
      /\ (l \in Streams => nz = 0) /\ (~h.open => h.pending = <<>>)
  BY DEF Flow
<1>6. m # NoMessage
  BY MessageParts
<1>7. Finished(t) = Finished(s) \cup Finished(r)
  BY <1>1, <1>2, FinishedJoin
<1>8. InOrder(t)
  <2>1. \A n \in Finished(s), k \in Finished(r) : n.id < k.id
    BY <1>4, <1>5, <1>6 DEF AllBefore
  <2> QED BY <1>1, <1>2, <1>5, <2>1, OrderJoin
<1>9. Short(t, nz)
  BY <1>1, <1>2, <1>5, ShortJoin
<1>10. AllBefore(t, NoMessage)
  BY DEF AllBefore
<1>11. ASSUME NEW n \in Messages, OnWay(n, s, v, m)
       PROVE  OnWay(n, t, v, NoMessage) \/ n.id \in sq
  <2>1. CASE n \in Finished(v)
    BY <2>1 DEF OnWay
  <2>2. CASE n = m
    <3>1. w = 3 => Whole(t, m)
      BY <1>1, <1>3, WholeFramed
    <3> QED BY <2>2, <3>1 DEF OnWay
  <2>3. CASE Whole(s, n)
    BY <1>1, <1>2, <2>3, WholeJoin DEF OnWay
  <2> QED BY <1>11, <2>1, <2>2, <2>3 DEF OnWay
<1>12. /\ InTransit(t, v, NoMessage) \subseteq InTransit(s, v, m)
       /\ w = 3 => InTransit(s, v, m) \subseteq InTransit(t, v, NoMessage)
  BY <1>4, <1>6, <1>7 DEF InTransit
<1> HIDE DEF t
<1>13. Flow(l, h, t, v, NoMessage, sq, nz)
  BY <1>1, <1>5, <1>8, <1>9, <1>10, <1>11, <1>12, FlowMove
<1> QED BY <1>13 DEF t, r

\* The bridge writes what it can of the reply it has in hand.
LEMMA RepliedFlown ==
  ASSUME FInv, NEW l \in Links, bridge[l].phase = "writing",
         bridge' = [bridge EXCEPT ![l] = Idle(@)], NEW w \in 0..3,
         conns' = [conns EXCEPT ![l][1].down = @ \o Wrote(bridge[l].doing, w)],
         NEW x, spoiled' = [spoiled EXCEPT ![l] = x], spoiled[l] \subseteq x,
         (w = 3 /\ x = spoiled[l]) \/ (l \notin Streams /\ bridge[l].doing.id \in x),
         UNCHANGED <<host, noise, got>>
  PROVE  \A n \in Links : Flown(n)'
<1> DEFINE m == bridge[l].doing
           r == Wrote(m, w)
           d == conns[l][1].down
           y == d \o r
           c == [conns[l][1] EXCEPT !.down = y]
           e == Idle(bridge[l])
           z == noise[l]
<1>1. /\ IInv /\ TypeOK /\ Shaped(l) /\ bridge[l] \in BridgeType /\ host[l] \in HostType
      /\ conns[l] # <<>> /\ m \in Messages /\ z \in Nat /\ Len(conns[l]) \in Nat
  BY Flying DEF Shaped
<1>2. /\ conns[l][1] \in ConnType /\ d \in Seq(Pieces)
  BY <1>1, FirstConn DEF ConnType
<1>3. r \in Seq(Pieces)
  BY <1>1, WroteShort
<1>4. conns' = [conns EXCEPT ![l][1] = c]
  BY <1>1, FirstConn
<1> HIDE DEF m, r, d
<1>5. y \in Seq(Pieces)
  BY <1>2, <1>3
<1> HIDE DEF y
<1>6. c \in ConnType /\ c.down = y /\ c.up = conns[l][1].up
  BY <1>2, <1>5 DEF ConnType
<1>7. e.phase = "reading" /\ e.doing = NoMessage
  BY <1>1, IdleIs
<1>8. bridge' = [bridge EXCEPT ![l] = e]
  OBVIOUS
<1> HIDE DEF c, e
<1>9. noise' = [noise EXCEPT ![l] = z]
  BY <1>1 DEF TypeOK
<1>10. ASSUME Len(conns[l]) = 1
       PROVE  Flow(l, host[l], host[l].pending \o c.down, c.up, e.doing, x, z)
  <2> DEFINE s == Coming(l)
             v == Leaving(l)
             p == host[l].pending
  <2>1. /\ s = p \o d /\ v = c.up /\ AtHub(l) = m /\ p \in Seq(Pieces)
    BY <1>1, <1>6, <1>10, OneConn, LineParts DEF d, m
  <2>2. /\ Flow(l, host[l], s, v, m, spoiled[l], z) /\ Line(s, v, m, host[l].calls)
        /\ (l \in Streams => spoiled[l] = {})
    BY <1>1, <2>1, LineParts, Ways
  <2> HIDE DEF s, v, p, z
  <2>3. s \o r = p \o c.down
    BY <1>2, <1>3, <1>6, <2>1, ConcatAssociative DEF y
  <2>4. w = 3 \/ m.id \in x
    BY DEF m
  <2>5. l \in Streams => w = 3 /\ x = {}
    BY <2>2
  <2>6. Flow(l, host[l], s \o Wrote(m, w), v, NoMessage, x, z)
    BY <1>1, <2>2, <2>4, <2>5, FlowReplied
  <2> QED BY <1>7, <2>1, <2>3, <2>6 DEF r, p
<1>11. Len(conns[l]) # 1 => x = spoiled[l] /\ z = noise[l]
  BY <1>1 DEF Shaped
<1> HIDE DEF z
<1> QED BY <1>1, <1>4, <1>6, <1>7, <1>8, <1>9, <1>10, <1>11, ServeFlown

\* Write: a whole reply, or none to a stream that its host has closed.
LEMMA WriteFlown ==
  ASSUME FInv, NEW l \in Links, Write(l)
  PROVE  \A n \in Links : Flown(n)'
<1>1. /\ IInv /\ TypeOK /\ Shaped(l) /\ bridge[l] \in BridgeType /\ host[l] \in HostType
      /\ conns[l] # <<>> /\ Len(conns[l]) \in Nat /\ noise[l] \in Nat
      /\ bridge[l].phase = "writing"
  BY Flying DEF Shaped, Write
<1>2. bridge' = [bridge EXCEPT ![l] = Idle(@)] /\ UNCHANGED <<host, noise, spoiled, got>>
  BY DEF Write, history
<1>3. CASE ~(l \in Streams /\ ~conns[l][1].open)
  <2> DEFINE w == 3
             x == spoiled[l]
  <2>1. Wrote(bridge[l].doing, w) = Framed(bridge[l].doing)
    <3>1. 3 \in Int /\ 3 <= 3
      OBVIOUS
    <3> QED BY <1>1, <3>1, ReplyWritten DEF Wrote
  <2>2. conns' = [conns EXCEPT ![l][1].down = @ \o Wrote(bridge[l].doing, w)]
    BY <1>3, <2>1 DEF Write, Swallows
  <2>3. spoiled' = [spoiled EXCEPT ![l] = x] /\ spoiled[l] \subseteq x
    BY <1>1, <1>2 DEF TypeOK
  <2>4. w \in 0..3 /\ w = 3 /\ x = spoiled[l]
    OBVIOUS
  <2> HIDE DEF w, x
  <2> QED BY <1>1, <1>2, <2>2, <2>3, <2>4, RepliedFlown
<1>4. CASE l \in Streams /\ ~conns[l][1].open
  <2> DEFINE e == Idle(bridge[l])
             c == conns[l][1]
             x == spoiled[l]
             z == noise[l]
             s == Coming(l)
             h == host[l]
  <2>1. c \in ConnType /\ conns' = [conns EXCEPT ![l][1] = c]
    <3>1. conns' = [conns EXCEPT ![l][1].down = @]
      BY <1>4 DEF Write, Swallows
    <3>2. [conns EXCEPT ![l][1].down = @] = [conns EXCEPT ![l][1] = c]
      <4>1. [c EXCEPT !.down = @] = c /\ c \in ConnType
        BY <1>1, SameFirst DEF ConnType
      <4> QED BY <4>1
    <3> QED BY <1>1, <3>1, <3>2, SameFirst
  <2>2. e.phase = "reading" /\ e.doing = NoMessage /\ bridge' = [bridge EXCEPT ![l] = e]
    BY <1>1, <1>2, IdleIs
  <2>3. spoiled' = [spoiled EXCEPT ![l] = x] /\ noise' = [noise EXCEPT ![l] = z]
    BY <1>1, <1>2 DEF TypeOK
  <2>4. ASSUME Len(conns[l]) = 1 PROVE Flow(l, h, h.pending \o c.down, c.up, e.doing, x, z)
    <3>1. /\ Conn(l) = c /\ s = h.pending \o c.down
          /\ Flow(l, h, s, Leaving(l), AtHub(l), x, z)
          /\ InOrder(s) /\ Short(s, z) /\ z <= MaxNoise[l]
          /\ l \in Streams => z = 0 /\ x = {}
      BY <1>1, <2>4, OneConn, LineParts
    <3>2. ~h.open
      BY <1>1, <1>4, <3>1 DEF Shaped
    <3>3. h.inflight = <<>> /\ h.pending = <<>>
      BY <3>1, <3>2 DEF Flow
    <3>4. AllBefore(s, NoMessage)
      BY DEF AllBefore
    <3> HIDE DEF h, s, c, x, z, e
    <3>5. Flow(l, h, s, c.up, NoMessage, x, z)
      BY <3>1, <3>2, <3>3, <3>4, FlowBare
    <3> QED BY <2>2, <3>1, <3>5
  <2>5. Len(conns[l]) # 1 => x = spoiled[l] /\ z = noise[l]
    OBVIOUS
  <2> HIDE DEF c, x, z, e, s
  <2> QED BY <1>1, <1>2, <2>1, <2>2, <2>3, <2>4, <2>5, ServeFlown DEF h
<1> QED BY <1>3, <1>4

\* WriteCut: a part of the reply, and the request is spoiled.
LEMMA WriteCutFlown ==
  ASSUME FInv, NEW l \in Links, WriteCut(l)
  PROVE  \A n \in Links : Flown(n)'
<1> DEFINE m == bridge[l].doing
           d == conns[l][1].down
           n == Room(l)
           w == IF n < 0 THEN 0 ELSE n
           x == spoiled[l] \cup {m.id}
<1>1. /\ IInv /\ TypeOK /\ Shaped(l) /\ conns[l] # <<>> /\ bridge[l].phase = "writing"
  BY Flying DEF Shaped, WriteCut
<1>2. /\ bridge' = [bridge EXCEPT ![l] = Idle(@)] /\ UNCHANGED <<host, noise, got>>
      /\ spoiled' = [spoiled EXCEPT ![l] = x] /\ spoiled[l] \subseteq x
      /\ l \notin Streams /\ m.id \in x
  BY DEF WriteCut
<1>3. n \in Int
  <2>1. d \in Seq(Pieces)
    BY <1>1, FirstConn DEF ConnType
  <2>2. Len(d) \in Nat
    BY <2>1
  <2>3. TxCapacity \in Nat
    BY BridgeAssumption
  <2> QED BY <2>2, <2>3 DEF Room
<1>4. n <= 3 /\ Len(Framed(m)) = 3
  <2>1. 3 \in Int /\ 3 <= 3
    OBVIOUS
  <2>2. Len(Framed(m)) = 3
    BY <1>1, <2>1, ReplyWritten
  <2> QED BY <1>3, <2>2 DEF WriteCut
<1>5. w \in 0..3
  BY <1>3, <1>4
<1>6. SubSeq(Framed(m), 1, n) = Wrote(m, w)
  <2>1. CASE n >= 0
    BY <1>3, <2>1 DEF Wrote
  <2>2. CASE n < 0
    <3> DEFINE f == Framed(m)
    <3>1. m \in Messages
      BY <1>1, ReplyWritten DEF Shaped
    <3>2. f \in Seq(Pieces) /\ Len(f) = 3
      BY <3>1, MessageParts DEF Framed
    <3> HIDE DEF f
    <3>3. SubSeq(f, 1, n) = <<>> /\ SubSeq(f, 1, 0) = <<>>
      BY <1>3, <2>2, <3>2
    <3>4. w = 0
      BY <2>2
    <3> QED BY <3>3, <3>4 DEF f, Wrote
  <2> QED BY <1>3, <2>1, <2>2
<1>7. conns' = [conns EXCEPT ![l][1].down = @ \o Wrote(m, w)]
  BY <1>6 DEF WriteCut
<1> HIDE DEF w, n, x
<1> QED BY <1>1, <1>2, <1>5, <1>7, RepliedFlown

\* A console line in the pipe is one in the line behind what is buffered.
LEMMA InsertedBehind ==
  ASSUME NEW q \in Seq(Pieces), NEW d \in Seq(Pieces), NEW p \in 0..Len(d)
  PROVE  /\ q \o Inserted(d, p) = Inserted(q \o d, Len(q) + p)
         /\ Len(q) + p \in 0..Len(q \o d)
         /\ p < Len(d) => /\ Len(q) + p < Len(q \o d)
                          /\ (q \o d)[Len(q) + p + 1] = d[p + 1]
         /\ Len(q) + p < Len(q \o d) => p < Len(d)
<1> DEFINE s == q \o d
           k == Len(q) + p
           a == Inserted(d, p)
           b == Inserted(s, k)
           y == q \o a
<1>1. /\ s \in Seq(Pieces) /\ Len(q) \in Nat /\ Len(d) \in Nat /\ Len(s) = Len(q) + Len(d)
      /\ \A i \in 1..Len(q) : s[i] = q[i]
      /\ \A i \in 1..Len(d) : s[Len(q) + i] = d[i]
  BY Joined
<1>2. /\ a \in Seq(Pieces) /\ Len(a) = Len(d) + 1
      /\ \A i \in 1..p : a[i] = d[i]
      /\ a[p + 1] = Text
      /\ \A i \in (p + 1)..Len(d) : a[i + 1] = d[i]
  BY InsertedIs
<1> HIDE DEF s, a
<1>3. k \in 0..Len(s)
  BY <1>1
<1>4. /\ b \in Seq(Pieces) /\ Len(b) = Len(s) + 1
      /\ \A i \in 1..k : b[i] = s[i]
      /\ b[k + 1] = Text
      /\ \A i \in (k + 1)..Len(s) : b[i + 1] = s[i]
  BY <1>1, <1>3, InsertedIs
<1>5. /\ y \in Seq(Pieces) /\ Len(y) = Len(q) + Len(a)
      /\ \A i \in 1..Len(q) : y[i] = q[i]
      /\ \A i \in 1..Len(a) : y[Len(q) + i] = a[i]
  BY <1>2, Joined
<1> HIDE DEF b, y
<1>6. ASSUME NEW i \in 1..Len(b) PROVE y[i] = b[i]
  <2>1. CASE i \in 1..Len(q)
    <3>1. i \in 1..k
      BY <1>1, <2>1
    <3> QED BY <1>1, <1>4, <1>5, <2>1, <3>1
  <2>2. CASE i \in (Len(q) + 1)..k
    <3> DEFINE j == i - Len(q)
    <3>1. j \in 1..p /\ j \in 1..Len(a) /\ j \in 1..Len(d) /\ i = Len(q) + j /\ i \in 1..k
      BY <1>1, <1>2, <2>2
    <3> HIDE DEF j, k
    <3> QED BY <1>1, <1>2, <1>4, <1>5, <3>1
  <2>3. CASE i = k + 1
    <3>1. i = Len(q) + (p + 1) /\ p + 1 \in 1..Len(a)
      BY <1>1, <1>2, <2>3
    <3> QED BY <1>2, <1>4, <1>5, <2>3, <3>1
  <2>4. CASE i > k + 1
    <3> DEFINE j == i - Len(q) - 1
               g == i - 1
    <3>1. /\ j \in (p + 1)..Len(d) /\ j \in 1..Len(d) /\ j + 1 \in 1..Len(a)
          /\ i = Len(q) + (j + 1)
          /\ g \in (k + 1)..Len(s) /\ g = Len(q) + j /\ g + 1 = i
      BY <1>1, <1>2, <1>4, <2>4
    <3> HIDE DEF j, g, k
    <3>2. y[i] = a[j + 1] /\ a[j + 1] = d[j]
      BY <1>2, <1>5, <3>1
    <3>3. b[i] = s[g] /\ s[g] = d[j]
      BY <1>1, <1>4, <3>1
    <3> QED BY <3>2, <3>3
  <2>5. i \in Nat /\ i >= 1 /\ k \in Nat /\ Len(q) \in Nat
    BY <1>1, <1>3
  <2> HIDE DEF k
  <2>6. i <= Len(q) \/ (i > Len(q) /\ i <= k) \/ i = k + 1 \/ i > k + 1
    BY <2>5
  <2>7. i \in 1..Len(q) \/ i \in (Len(q) + 1)..k \/ i = k + 1 \/ i > k + 1
    BY <1>1, <2>5, <2>6
  <2> QED BY <2>1, <2>2, <2>3, <2>4, <2>7
<1>7. y = b
  <2>1. Len(y) = Len(b) /\ y \in Seq(Pieces) /\ b \in Seq(Pieces)
    BY <1>1, <1>2, <1>4, <1>5
  <2>2. \A i \in 1..Len(y) : y[i] = b[i]
    BY <1>6, <2>1
  <2> QED BY <2>1, <2>2, SeqEqual
<1>8. p < Len(d) => k < Len(s) /\ s[k + 1] = d[p + 1]
  <2> SUFFICES ASSUME p < Len(d) PROVE k < Len(s) /\ s[k + 1] = d[p + 1]
    OBVIOUS
  <2>1. p + 1 \in 1..Len(d) /\ k + 1 = Len(q) + (p + 1) /\ k < Len(s)
    BY <1>1
  <2> QED BY <1>1, <2>1
<1>9. k < Len(s) => p < Len(d)
  BY <1>1
<1> QED BY <1>3, <1>7, <1>8, <1>9 DEF s, a, b, y

\* ConsoleLine: a text more, and the reply it fell into is spoiled.
LEMMA ConsoleLineFlown ==
  ASSUME FInv, NEW l \in Links, ConsoleLine(l)
  PROVE  \A n \in Links : Flown(n)'
<1> DEFINE d == conns[l][1].down
           h == host[l]
           q == h.pending
           s == Coming(l)
           v == Leaving(l)
           e == bridge[l]
           z == noise[l] + 1
<1>1. /\ IInv /\ TypeOK /\ Shaped(l) /\ bridge[l] \in BridgeType /\ host[l] \in HostType
      /\ Flown(l) /\ noise[l] \in Nat /\ l \notin Streams
      /\ bridge \in [Links -> BridgeType] /\ noise \in [Links -> Nat]
  <2>1. l \notin Streams
    BY Zenon DEF ConsoleLine
  <2> QED BY <2>1, Flying, Parts DEF TypeOK
<1>2. Len(conns[l]) = 1 /\ conns[l] # <<>> /\ conns[l][1] \in ConnType
  <2>1. Len(conns[l]) = 1
    BY <1>1 DEF Shaped
  <2>2. conns[l] # <<>>
    BY <2>1, OneConn
  <2> QED BY <1>1, <2>1, <2>2, FirstConn
<1>3. d \in Seq(Pieces) /\ Len(d) \in Nat
  BY <1>2 DEF ConnType
<1>4. /\ s = q \o d /\ v = conns[l][1].up /\ AtHub(l) = e.doing /\ q \in Seq(Pieces)
      /\ Flow(l, h, s, v, e.doing, spoiled[l], noise[l]) /\ s \in Seq(Pieces)
      /\ InOrder(s) /\ AllBefore(s, e.doing) /\ Short(s, noise[l])
  BY <1>2, OneConn, LineParts
<1>5. h.inflight \in Seq(Messages) /\ (~h.open => h.pending = <<>>)
  <2>1. h.inflight \in Seq(Messages)
    BY <1>1, HostNats
  <2>2. ~h.open => h.pending = <<>>
    BY <1>4 DEF Flow
  <2> QED BY <2>1, <2>2
<1>6. PICK p \in 0..Len(d) :
        /\ conns' = [conns EXCEPT ![l][1].down = SubSeq(d, 1, p) \o <<Text>> \o From(d, p + 1)]
        /\ spoiled' = [spoiled EXCEPT ![l] = @ \cup
             (IF p < Len(d) /\ d[p + 1].part \in {"first", "final"} THEN {d[p + 1].of.id} ELSE {})]
  BY DEF ConsoleLine
<1> DEFINE y == Inserted(d, p)
           x == spoiled[l] \cup
             (IF p < Len(d) /\ d[p + 1].part \in {"first", "final"} THEN {d[p + 1].of.id} ELSE {})
           c == [conns[l][1] EXCEPT !.down = y]
           k == Len(q) + p
           t == Inserted(s, k)
<1>7. /\ conns' = [conns EXCEPT ![l][1] = c] /\ spoiled' = [spoiled EXCEPT ![l] = x]
  <2>1. conns' = [conns EXCEPT ![l][1].down = y]
    BY <1>6 DEF Inserted
  <2> HIDE DEF y
  <2>2. conns' = [conns EXCEPT ![l][1] = c]
    BY <1>1, <1>2, <2>1, FirstConn
  <2> QED BY <1>6, <2>2
<1>8. /\ noise' = [noise EXCEPT ![l] = z] /\ bridge' = [bridge EXCEPT ![l] = e]
      /\ UNCHANGED <<host, got>> /\ z <= MaxNoise[l]
  <2>1. noise' = [noise EXCEPT ![l] = z] /\ UNCHANGED <<host, bridge, got>>
    BY DEF ConsoleLine
  <2>2. noise[l] < MaxNoise[l] /\ MaxNoise[l] \in Nat
    BY ConstantNats DEF ConsoleLine
  <2> QED BY <1>1, <2>1, <2>2
<1> HIDE DEF d, s, v, q, h
<1>9. y \in Seq(Pieces)
  BY <1>3, InsertedIs
<1>10. /\ q \o y = t /\ k \in 0..Len(s)
       /\ p < Len(d) => k < Len(s) /\ s[k + 1] = d[p + 1]
       /\ k < Len(s) => p < Len(d)
  BY <1>3, <1>4, InsertedBehind
<1> HIDE DEF k, y
<1>11. c \in ConnType /\ c.down = y /\ c.up = v
  BY <1>2, <1>4, <1>9 DEF ConnType
<1>12. InOrder(t) /\ Short(t, z) /\ Finished(t) \subseteq Finished(s)
  BY <1>1, <1>4, <1>10, OrderInserted, ShortInserted, FinishedInserted
<1>13. ASSUME NEW m \in Messages, OnWay(m, s, v, e.doing)
       PROVE  OnWay(m, t, v, e.doing) \/ m.id \in x
  <2>1. ASSUME Whole(s, m) PROVE Whole(t, m) \/ m.id \in x
    <3>1. Whole(t, m) \/ (k < Len(s) /\ s[k + 1].part \in {"first", "final"} /\ s[k + 1].of = m)
      BY <1>4, <1>10, <2>1, WholeInserted
    <3> HIDE DEF t
    <3> QED BY <1>10, <3>1
  <2> HIDE DEF t, x, e
  <2> QED BY <1>13, <2>1 DEF OnWay
<1>14. spoiled[l] \subseteq x
  OBVIOUS
<1> HIDE DEF t, x, c, e, z
<1>15. AllBefore(t, e.doing) /\ InTransit(t, v, e.doing) \subseteq InTransit(s, v, e.doing)
  BY <1>4, <1>12 DEF AllBefore, InTransit
<1>16. Flow(l, h, t, v, e.doing, x, z)
  <2> DEFINE a == e.doing
             sp == spoiled[l]
             nz == noise[l]
  <2>1. Flow(l, h, s, v, a, sp, nz) /\ InTransit(t, v, a) \subseteq InTransit(s, v, a)
    BY <1>4, <1>15
  <2>2. Ample(l) => \A m \in Messages : OnWay(m, s, v, a) => OnWay(m, t, v, a) \/ m.id \in x
    BY <1>13
  <2>3. /\ l \in Streams => InTransit(s, v, a) \subseteq InTransit(t, v, a) /\ x = {} /\ z = 0
        /\ sp \subseteq x /\ AllBefore(t, a)
    BY <1>1, <1>14, <1>15
  <2> HIDE DEF a, sp, nz
  <2>4. Flow(l, h, t, v, a, x, z)
    BY <1>5, <1>8, <1>12, <2>1, <2>2, <2>3, FlowMove
  <2> QED BY <2>4 DEF a
<1>17. Flow(l, h, q \o c.down, c.up, e.doing, x, z)
  BY <1>10, <1>11, <1>16
<1>18. e.phase = "reading" => e.doing = NoMessage
  BY <1>1 DEF Flown, e
<1> QED BY <1>2, <1>7, <1>8, <1>11, <1>17, <1>18, ServeFlown DEF h, q

\* WriteFails and EndOfStream: the connection dropped is not the session's any more.
LEMMA DroppedFlown ==
  ASSUME FInv, NEW l \in Links, l \in Streams, conns[l] # <<>>, ~conns[l][1].open,
         Dropped(l), UNCHANGED <<host, noise, spoiled, got>>
  PROVE  \A n \in Links : Flown(n)'
<1> DEFINE h == host[l]
           b == bridge[l]
           a == [Idle(b) EXCEPT !.serving = FALSE, !.frame = <<>>]
           t == Tail(conns[l])
           nz == noise[l]
           sp == spoiled[l]
<1>1. /\ IInv /\ TypeOK /\ Shaped(l) /\ b \in BridgeType /\ h \in HostType
      /\ Flown(l) /\ nz \in Nat /\ conns[l] \in Seq(ConnType) /\ Len(conns[l]) \in Nat \ {0}
      /\ bridge \in [Links -> BridgeType] /\ conns \in [Links -> Seq(ConnType)]
  BY Flying, Parts, FirstConn
<1>2. bridge' = [bridge EXCEPT ![l] = a] /\ conns' = [conns EXCEPT ![l] = t]
  BY DEF Dropped
<1>3. a.phase = "reading" /\ a.doing = NoMessage
  BY <1>1, IdleIs DEF BridgeType
<1> HIDE DEF a, b
<1>4. /\ Len(t) = Len(conns[l]) - 1 /\ t \in Seq(ConnType)
      /\ \A k \in 1..Len(t) : t[k] = conns[l][k + 1]
  <2> DEFINE u == conns[l]
  <2>1. u \in Seq(ConnType) /\ u # <<>>
    BY <1>1
  <2> HIDE DEF u
  <2>2. /\ Len(Tail(u)) = Len(u) - 1 /\ Tail(u) \in Seq(ConnType)
        /\ \A k \in 1..Len(Tail(u)) : Tail(u)[k] = u[k + 1]
    BY <2>1
  <2> QED BY <2>2 DEF u
<1> HIDE DEF t
<1>5. /\ conns'[l] = t /\ bridge'[l] = a
      /\ \A n \in Links \ {l} : conns'[n] = conns[n] /\ bridge'[n] = bridge[n]
  BY <1>1, <1>2
<1>6. AtHub(l)' = NoMessage
  BY <1>3, <1>5 DEF AtHub
<1>7. Flow(l, h, Coming(l), Leaving(l), AtHub(l), sp, nz) /\ Told(l, got[l])
  BY <1>1 DEF Flown
<1>8. CASE Len(conns[l]) = 1
  <2>1. t = <<>>
    BY <1>4, <1>8
  <2>2. Coming(l)' = <<>> /\ Leaving(l)' = <<>>
    BY <1>5, <2>1 DEF Coming, Leaving
  <2>3. ~h.open
    BY <1>1, <1>8 DEF Shaped, Conn
  <2>4. h.inflight = <<>> /\ h.pending = <<>> /\ nz <= MaxNoise[l] /\ nz = 0 /\ sp = {}
    BY <1>7, <2>3 DEF Flow
  <2>5. InOrder(<<>>) /\ AllBefore(<<>>, NoMessage) /\ Short(<<>>, nz)
    BY <1>1, NoneLeft
  <2> HIDE DEF h, nz, sp
  <2>6. Flow(l, h, <<>>, <<>>, NoMessage, sp, nz)
    <3> DEFINE s == <<>>
               d == NoMessage
    <3> HIDE DEF s, d
    <3>1. InOrder(s) /\ AllBefore(s, d) /\ Short(s, nz)
      BY <2>5 DEF s, d
    <3>2. Flow(l, h, s, s, d, sp, nz)
      BY <2>3, <2>4, <3>1, FlowBare
    <3> QED BY <3>2 DEF s, d
  <2>7. Flown(l)'
    BY <1>3, <1>5, <1>6, <1>7, <2>2, <2>6 DEF Flown, h, nz, sp
  <2> QED BY <1>5, <2>7, OthersFlown DEF Besides
<1>9. CASE Len(conns[l]) # 1
  <2>1. Len(t) \in Nat \ {0} /\ t[Len(t)] = conns[l][Len(conns[l])]
    <3>1. Len(t) \in 1..Len(t) /\ Len(t) + 1 = Len(conns[l])
      BY <1>1, <1>4, <1>9
    <3> QED BY <1>4, <3>1
  <2>2. t # <<>>
    BY <2>1
  <2>3. Conn(l)' = Conn(l)
    BY <1>5, <2>1 DEF Conn
  <2>4. Coming(l)' = Coming(l) /\ Leaving(l)' = Leaving(l) /\ AtHub(l) = NoMessage
    BY <1>5, <1>9, <2>2, <2>3 DEF Coming, Leaving, AtHub
  <2>5. Flown(l)'
    BY <1>3, <1>5, <1>6, <1>7, <2>4 DEF Flown
  <2> QED BY <1>5, <2>5, OthersFlown DEF Besides
<1> QED BY <1>8, <1>9

-----------------------------------------------------------------------------
(* The invariant of what is in flight. *)

\* At first nothing is on its way.
LEMMA FInit == Init => FInv
<1> SUFFICES ASSUME Init PROVE FInv
  OBVIOUS
<1>1. IInv
  BY InitKept
<1>2. ASSUME NEW l \in Links PROVE Flown(l)
  <2> DEFINE h == host[l]
             s == <<>>
             d == NoMessage
             sp == spoiled[l]
             nz == noise[l]
  <2>1. /\ h.inflight = <<>> /\ h.pending = <<>> /\ ~h.open
        /\ bridge[l].phase = "reading" /\ bridge[l].doing = d
        /\ sp = {} /\ nz = 0 /\ Told(l, got[l])
    BY DEF Init, Told
  <2>2. Coming(l) = s /\ Leaving(l) = s
    <3>1. CASE conns[l] = <<>>
      BY <3>1 DEF Coming, Leaving
    <3>2. CASE conns[l] # <<>>
      <4>1. conns[l] = <<[open |-> FALSE, up |-> <<>>, down |-> <<>>]>>
        BY <3>2 DEF Init
      <4>2. Conn(l).up = <<>> /\ Conn(l).down = <<>>
        BY <4>1 DEF Conn
      <4> QED BY <2>1, <3>2, <4>2 DEF Coming, Leaving
    <3> QED BY <3>1, <3>2
  <2>3. AtHub(l) = d
    BY <2>1 DEF AtHub
  <2>4. InOrder(s) /\ AllBefore(s, d) /\ Short(s, nz) /\ nz <= MaxNoise[l]
    <3>1. nz \in Nat /\ nz <= MaxNoise[l]
      BY <2>1, ConstantNats
    <3> HIDE DEF nz
    <3> QED BY <3>1, NoneLeft
  <2> HIDE DEF h, s, d, sp, nz
  <2>5. Flow(l, h, s, s, d, sp, nz)
    BY <2>1, <2>4, FlowBare
  <2> QED BY <2>1, <2>2, <2>3, <2>5 DEF Flown, h, sp, nz, d
<1> QED BY <1>1, <1>2 DEF FInv

\* Every step keeps the invariant.
LEMMA FNext == FInv /\ [Next]_vars => FInv'
<1> SUFFICES ASSUME FInv, [Next]_vars PROVE FInv'
  OBVIOUS
<1>1. IInv'
  BY NextKeeps DEF FInv
<1>2. ASSUME UNCHANGED vars PROVE \A n \in Links : Flown(n)'
  <2>1. UNCHANGED <<host, conns, bridge, noise, spoiled, got>>
    BY <1>2 DEF vars, history
  <2>2. ASSUME NEW n \in Links PROVE Flown(n)'
    <3>1. Coming(n)' = Coming(n) /\ Leaving(n)' = Leaving(n) /\ AtHub(n)' = AtHub(n)
      BY <2>1 DEF Coming, Leaving, AtHub, Conn
    <3> QED BY <2>1, <3>1 DEF FInv, Flown
  <2> QED BY <2>2
<1>3. ASSUME NEW l \in Links, HostStep(l) PROVE \A n \in Links : Flown(n)'
  <2>1. CASE Open(l) BY <2>1, OpenFlown
  <2>2. CASE Close(l) BY <2>2, EndingFlown DEF Close
  <2>3. CASE Send(l) BY <2>3, SendFlown
  <2>4. CASE DieSending(l) BY <2>4, DieSendingFlown
  <2>5. CASE Receive(l) BY <2>5, ReceiveFlown
  <2>6. CASE Discard(l) BY <2>6, DiscardFlown
  <2>7. CASE Unidentified(l) BY <2>7, EndingFlown DEF Unidentified, Awaiting
  <2>8. CASE Read(l) BY <2>8, ReadFlown
  <2>9. CASE Timeout(l) BY <2>9, TimeoutFlown
  <2> QED BY <1>3, <2>1, <2>2, <2>3, <2>4, <2>5, <2>6, <2>7, <2>8, <2>9 DEF HostStep
<1>4. ASSUME NEW l \in Links, BridgeStep(l) PROVE \A n \in Links : Flown(n)'
  <2>1. CASE Accept(l) BY <2>1, AcceptFlown
  <2>2. CASE Take(l) BY <2>2, TakeFlown
  <2>3. CASE Lock(l) BY <2>3, LockFlown
  <2>4. CASE Run(l) BY <2>4, RunFlown
  <2>5. CASE Write(l) BY <2>5, WriteFlown
  <2>6. CASE WriteCut(l) BY <2>6, WriteCutFlown
  <2>7. CASE WriteFails(l)
    <3>1. conns[l] # <<>>
      BY <2>7, Flying DEF WriteFails, Shaped
    <3> QED BY <2>7, <3>1, DroppedFlown DEF WriteFails
  <2>8. CASE EndOfStream(l)
    <3>1. conns[l] # <<>>
      BY <2>8, Flying DEF EndOfStream, Shaped
    <3> QED BY <2>8, <3>1, DroppedFlown DEF EndOfStream
  <2> QED BY <1>4, <2>1, <2>2, <2>3, <2>4, <2>5, <2>6, <2>7, <2>8 DEF BridgeStep
<1>5. ASSUME NEW l \in Links, ConsoleLine(l) PROVE \A n \in Links : Flown(n)'
  BY <1>5, ConsoleLineFlown
<1>6. \A n \in Links : Flown(n)'
  BY <1>2, <1>3, <1>4, <1>5 DEF Next
<1> QED BY <1>1, <1>6 DEF FInv

\* The invariant the others rest on: on every link, messages stand in the order
\* of their requests and every request awaited is on its way, damaged, or passed
\* over with a damaged one before it, whatever sessions came, died and timed out.
THEOREM FlightInductive == Spec => []FInv
<1>1. Init => FInv
  BY FInit
<1>2. FInv /\ [Next]_vars => FInv'
  BY FNext
<1> QED BY <1>1, <1>2, PTL DEF Spec

\* On a stream Transport::receive returns the reply to the request it awaits and
\* to no other, greetings included, however often sequence numbers come round:
\* fewer messages fit on the link than there are numbers.
StreamReplies == \A l \in Streams : got[l].want = got[l].had
THEOREM StreamsAnswer == Spec => []StreamReplies
<1>1. FInv => StreamReplies
  BY BridgeAssumption DEF FInv, Flown, Told, StreamReplies
<1> QED BY <1>1, FlightInductive, PTL

\* So every reply a probe reached over streams alone returns matches its request.
THEOREM StreamsMatch ==
  ASSUME Streams = Links
  PROVE  Spec => []ReplyMatches
<1>1. StreamReplies => ReplyMatches
  BY DEF StreamReplies, ReplyMatches
<1> QED BY <1>1, StreamsAnswer, PTL

\* Hosts, links and serve_bridge together are the remote procedure call of Rpc, as
\* long as the requests a host keeps in flight have numbers of their own.
THEOREM RefinesRpc ==
  ASSUME Depth <= SeqModulus
  PROVE  Spec => ImplementsRpc
<1>1. FInv => IInv /\ InTurn
  <2> SUFFICES ASSUME FInv, NEW l \in Links
               PROVE  got[l].had <= got[l].want /\ (l \in Streams => got[l].had = got[l].want)
    BY DEF FInv, InTurn
  <2>1. Told(l, got[l])
    BY DEF FInv, Flown
  <2> QED BY <2>1 DEF Told
<1>2. Init => rpc!Init
  BY InitAsRpc
<1>3. FInv /\ FInv' /\ [Next]_vars => [rpc!Next]_(rpc!vars)
  <2> SUFFICES ASSUME FInv, FInv', [Next]_vars PROVE [rpc!Next]_(rpc!vars)
    OBVIOUS
  <2>1. IInv /\ InTurn'
    <3>1. ASSUME NEW l \in Links
          PROVE  got'[l].had <= got'[l].want /\ (l \in Streams => got'[l].had = got'[l].want)
      <4>1. Told(l, got'[l])
        BY DEF FInv, Flown
      <4> QED BY <4>1 DEF Told
    <3> QED BY <1>1, <3>1 DEF InTurn
  <2> QED BY <2>1, StepAsRpc
<1> QED BY <1>2, <1>3, FlightInductive, PTL DEF Spec, ImplementsRpc, rpc!Spec

\* A request on its way to the probe is whole.
LEMMA LeavingWhole ==
  ASSUME FInv, NEW l \in Links, conns[l] # <<>>, NEW m \in Finished(Conn(l).up)
  PROVE  \/ Len(conns[l]) = 1 /\ Serving(l) /\ Whole(bridge[l].frame \o Conn(l).up, m)
         \/ Whole(Conn(l).up, m)
<1> DEFINE u == Conn(l).up
           n == Len(conns[l])
           b == bridge[l]
<1>1. /\ IInv /\ TypeOK /\ Requests(l) /\ conns[l] \in Seq(ConnType) /\ n \in Nat \ {0}
      /\ b \in BridgeType
  BY Flying, Parts, FirstConn
<1>2. u \in Seq(Pieces)
  BY LineParts
<1>3. n \in 1..Len(Ups(l)) /\ Ups(l)[n] = u
  <2>1. Len(Ups(l)) = n /\ n \in 1..n
    BY <1>1, UpsIs
  <2> QED BY <1>1, <2>1, UpsIs DEF Conn
<1>0. m \in Finished(u) /\ Built(Ups(l), b)
  BY <1>1 DEF Requests, Requested
<1> HIDE DEF u, n, b
<1>4. PICK i \in 1..Len(u) : u[i].part = "final" /\ u[i].of = m
  BY <1>0, <1>2, FinishedFrom
<1>5. FrameAt(Ups(l), b, n, i)
  BY <1>0, <1>3 DEF Built
<1>6. u[i] = Final(m) /\ m \in Messages
  <2>1. u[i] \in Pieces
    BY <1>2
  <2> QED BY <1>4, <2>1, MessageParts DEF Pieces, Final
<1>7. i \in Nat /\ i >= 1 /\ Len(u) \in Nat
  BY <1>2
<1>8. CASE i >= 3 /\ u[i - 1] = First(m) /\ u[i - 2] = Gap
  <2>1. i \in 2..Len(u) /\ u[i - 2].part = "gap"
    BY <1>4, <1>7, <1>8 DEF Gap
  <2> QED BY <1>6, <1>8, <2>1 DEF Whole, u
<1>9. CASE i = 2 /\ u[1] = First(m)
  <2>1. i \in 2..Len(u) /\ i - 1 = 1
    BY <1>4, <1>7, <1>9
  <2> QED BY <1>6, <1>9, <2>1 DEF Whole, u
<1>10. CASE i = 1 /\ n = 1 /\ b.serving /\ b.frame = <<First(m)>>
  <2> DEFINE f == <<First(m)>>
             r == f \o u
  <2>1. f \in Seq(Pieces) /\ Len(f) = 1 /\ f[1] = First(m)
    BY <1>6, MessageParts
  <2> HIDE DEF f
  <2>2. /\ Len(r) = 1 + Len(u) /\ r[1] = f[1] /\ r[1 + i] = u[i]
    <3>1. 1 \in 1..Len(f) /\ i \in 1..Len(u)
      BY <2>1
    <3>2. /\ Len(r) = Len(f) + Len(u)
          /\ \A k \in 1..Len(f) : r[k] = f[k]
          /\ \A k \in 1..Len(u) : r[Len(f) + k] = u[k]
      BY <1>2, <2>1, Joined
    <3> HIDE DEF r
    <3> QED BY <2>1, <3>1, <3>2
  <2> HIDE DEF r
  <2>3. 2 \in 2..Len(r) /\ r[2 - 1] = First(m) /\ r[2] = Final(m)
    BY <1>6, <1>7, <1>10, <2>1, <2>2
  <2>4. Whole(r, m)
    BY <2>3 DEF Whole
  <2> QED BY <1>10, <2>4 DEF r, f, u, n, b, Serving
<1> QED BY <1>3, <1>4, <1>5, <1>8, <1>9, <1>10 DEF FrameAt

\* With room for the console's text and a number for each request in flight,
\* nothing in flight is silently lost.
LEMMA IntactOn ==
  ASSUME FInv, NEW l \in Links, Ample(l), NEW i \in 1..Len(host[l].inflight)
  PROVE  LET m == host[l].inflight[i] IN
         \/ \E j \in 1..i : host[l].inflight[j].id \in spoiled[l]
         \/ Len(conns[l]) = 1 /\ Serving(l) /\ Whole(bridge[l].frame \o Conn(l).up, m)
         \/ Whole(Conn(l).up, m)
         \/ bridge[l].doing = m
         \/ Whole(host[l].pending \o Conn(l).down, m)
<1> DEFINE f == host[l].inflight
           m == f[i]
           sp == spoiled[l]
<1>1. /\ IInv /\ Shaped(l) /\ Flown(l) /\ host[l] \in HostType
  BY Flying
<1>2. f \in Seq(Messages) /\ m \in Messages /\ m # NoMessage /\ i \in 1..i /\ 1 \in 1..i
  <2>1. f \in Seq(Messages) /\ Len(f) \in Nat
    BY <1>1, HostNats
  <2>2. m \in Messages /\ i \in 1..i /\ 1 \in 1..i
    BY <2>1
  <2> QED BY <2>1, <2>2, MessageParts
<1>3. conns[l] # <<>>
  <2>1. Len(f) # 0
    OBVIOUS
  <2>2. f # <<>>
    BY <2>1
  <2> QED BY <1>1, <2>2 DEF Flown, Flow, Shaped
<1>4. Coming(l) = host[l].pending \o Conn(l).down /\ Leaving(l) = Conn(l).up
  BY <1>3, LineParts
<1>5. Flight(f, Coming(l), Leaving(l), AtHub(l), sp)
  BY <1>1 DEF Flown, Flow
<1>6. m.id \in sp \/ OnWay(m, Coming(l), Leaving(l), AtHub(l)) \/ f[1].id \in sp
  BY <1>5 DEF Flight, Overtaken
<1>7. ASSUME m \in Finished(Leaving(l))
      PROVE  \/ Len(conns[l]) = 1 /\ Serving(l) /\ Whole(bridge[l].frame \o Conn(l).up, m)
             \/ Whole(Conn(l).up, m)
  BY <1>3, <1>4, <1>7, LeavingWhole
<1>8. m = AtHub(l) => bridge[l].doing = m
  BY <1>2 DEF AtHub
<1> QED BY <1>2, <1>4, <1>6, <1>7, <1>8 DEF OnWay

\* No request in flight is silently lost: it is whole on its way to the probe, in
\* its hands, or its reply is whole on its way back, unless console text or a full
\* transmit buffer damaged that reply or one awaited before it.  A shared pipe has
\* to leave the host's buffer room for the console's text, and its requests in
\* flight a number each; a stream is always ample.
THEOREM FlightIntact ==
  ASSUME \A l \in Links : Ample(l)
  PROVE  Spec => []InFlightIntact
<1>1. FInv => InFlightIntact
  BY IntactOn DEF InFlightIntact
<1> QED BY <1>1, FlightInductive, PTL
=============================================================================
