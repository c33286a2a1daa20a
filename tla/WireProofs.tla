----------------------------- MODULE WireProofs -----------------------------
(* Theorems about the two wire engines and the target of module Wire, for    *)
(* every width, set of words and requests, padding and length of the line    *)
(* sequences its assumptions admit.                                          *)
(*                                                                         *)
(* A step of the probe and an edge of the target happen at once, so the      *)
(* proof is in two layers.  Lemmas about a target t, an edge and its         *)
(* successor u say how t relates to a script of the probe after j bits or m  *)
(* clocks, and that the relation holds for u after one more; the invariant   *)
(* then says at each place of the probe which relation holds, and a lemma an *)
(* action that it is kept.                                                   *)
EXTENDS Wire, FiniteSetTheorems, SequenceTheorems, TLAPS

\* The first n of s are ones.
AllOnes(s, n) == \A i \in 1..n : s[i] = 1

-----------------------------------------------------------------------------
\* What the assumptions say of the constants' sizes.
LEMMA Sizes ==
  /\ Width \in Nat \ {0} /\ Padding \in Nat /\ LineOnes \in Nat /\ ResetOnes \in Nat
  /\ RecoveryCycles \in Nat /\ LineOnes >= ResetOnes /\ ResetOnes >= Width + 18
  /\ RecoveryCycles >= Width + 6
BY WidthAssumption, LineAssumption

\* The ones of a string can be counted.
LEMMA OnesFinite ==
  ASSUME NEW s \in Seq(Bit)
  PROVE  LET A == {i \in DOMAIN s : s[i] = 1}
         IN IsFiniteSet(A) /\ Cardinality(A) \in Nat
<1> DEFINE A == {i \in DOMAIN s : s[i] = 1}
<1>1. Len(s) \in Nat /\ DOMAIN s = 1..Len(s)
  OBVIOUS
<1>2. IsFiniteSet(1..Len(s))
  BY <1>1, FS_Interval
<1>3. A \subseteq 1..Len(s)
  BY <1>1
<1>4. IsFiniteSet(A)
  BY <1>2, <1>3, FS_Subset
<1>5. Cardinality(A) \in Nat
  BY <1>4, FS_CardinalityType
<1> QED BY <1>4, <1>5

\* Parity (packet_request, wire_transfer: count_ones) is a bit.
LEMMA ParityBit == ASSUME NEW s \in Seq(Bit) PROVE Parity(s) \in Bit
<1> DEFINE A == {i \in DOMAIN s : s[i] = 1}
<1>1. Cardinality(A) \in Nat
  BY OnesFinite
<1>2. Parity(s) = Cardinality(A) % 2
  BY DEF Parity
<1> HIDE DEF A
<1> QED BY <1>1, <1>2 DEF Bit

\* One more is odd where this many is even.
LEMMA OddEven == \A n \in Nat : (n % 2) \in Bit /\ (n + 1) % 2 = 1 - (n % 2)
BY DEF Bit

\* One more 1 changes the parity.
LEMMA ParityAdds ==
  ASSUME NEW s \in Seq(Bit), NEW r \in Seq(Bit), Len(r) = Len(s), NEW e \in 1..Len(s),
         s[e] = 0, r[e] = 1, \A i \in 1..Len(s) : i # e => r[i] = s[i]
  PROVE  Parity(r) = 1 - Parity(s)
<1> DEFINE A == {i \in DOMAIN s : s[i] = 1}
           B == {i \in DOMAIN r : r[i] = 1}
<1>1. DOMAIN s = 1..Len(s) /\ DOMAIN r = 1..Len(s)
  OBVIOUS
<1>2. IsFiniteSet(A) /\ Cardinality(A) \in Nat
  BY OnesFinite
<1>3. e \notin A
  OBVIOUS
<1>4. B = A \cup {e}
  BY <1>1
<1>5. Parity(s) = Cardinality(A) % 2 /\ Parity(r) = Cardinality(B) % 2
  BY DEF Parity
<1> HIDE DEF A, B
<1>6. Cardinality(B) = Cardinality(A) + 1
  BY <1>2, <1>3, <1>4, FS_AddElement
<1>7. (Cardinality(A) + 1) % 2 = 1 - (Cardinality(A) % 2)
  BY <1>2, OddEven
<1> QED BY <1>5, <1>6, <1>7

\* So does one flipped bit, whichever it is.
LEMMA ParityFlips ==
  ASSUME NEW s \in Seq(Bit), NEW r \in Seq(Bit), Len(r) = Len(s), NEW e \in 1..Len(s),
         r[e] # s[e], \A i \in 1..Len(s) : i # e => r[i] = s[i]
  PROVE  Parity(r) = 1 - Parity(s)
<1>1. s[e] \in Bit /\ r[e] \in Bit
  OBVIOUS
<1>2. CASE s[e] = 0
  <2>1. r[e] = 1
    BY <1>1, <1>2 DEF Bit
  <2> QED BY <1>2, <2>1, ParityAdds
<1>3. CASE s[e] = 1
  <2>1. r[e] = 0
    BY <1>1, <1>3 DEF Bit
  <2>2. Parity(s) = 1 - Parity(r)
    BY <1>3, <2>1, ParityAdds
  <2>3. Parity(r) \in Bit
    BY ParityBit
  <2> QED BY <2>2, <2>3 DEF Bit
<1> QED BY <1>1, <1>2, <1>3 DEF Bit

\* Of four bits.
LEMMA FourZeros == Parity(<<0, 0, 0, 0>>) = 0
<1> DEFINE A == {i \in DOMAIN <<0, 0, 0, 0>> : <<0, 0, 0, 0>>[i] = 1}
<1>1. A = {}
  OBVIOUS
<1>2. Parity(<<0, 0, 0, 0>>) = Cardinality(A) % 2
  BY DEF Parity
<1>3. Cardinality(A) = 0
  BY <1>1, FS_EmptySet
<1> HIDE DEF A
<1> QED BY <1>2, <1>3

\* The parity of a request's four bits is the sum the target makes.
LEMMA ParityOfFour ==
  ASSUME NEW a \in Bit, NEW b \in Bit, NEW c \in Bit, NEW d \in Bit
  PROVE  Parity(<<a, b, c, d>>) = (a + b + c + d) % 2
<1>1. ASSUME NEW x \in Bit, NEW y \in Bit, NEW z \in Bit
      PROVE  /\ Parity(<<1, x, y, z>>) = 1 - Parity(<<0, x, y, z>>)
             /\ Parity(<<x, 1, y, z>>) = 1 - Parity(<<x, 0, y, z>>)
             /\ Parity(<<x, y, 1, z>>) = 1 - Parity(<<x, y, 0, z>>)
             /\ Parity(<<x, y, z, 1>>) = 1 - Parity(<<x, y, z, 0>>)
  <2>1. /\ <<1, x, y, z>> \in Seq(Bit) /\ <<0, x, y, z>> \in Seq(Bit)
        /\ <<x, 1, y, z>> \in Seq(Bit) /\ <<x, 0, y, z>> \in Seq(Bit)
        /\ <<x, y, 1, z>> \in Seq(Bit) /\ <<x, y, 0, z>> \in Seq(Bit)
        /\ <<x, y, z, 1>> \in Seq(Bit) /\ <<x, y, z, 0>> \in Seq(Bit)
    BY DEF Bit
  <2>2. Parity(<<1, x, y, z>>) = 1 - Parity(<<0, x, y, z>>)
    <3>1. /\ Len(<<1, x, y, z>>) = 4 /\ Len(<<0, x, y, z>>) = 4 /\ 1 \in 1..4
          /\ <<0, x, y, z>>[1] = 0 /\ <<1, x, y, z>>[1] = 1
          /\ \A i \in 1..4 : i # 1 => <<1, x, y, z>>[i] = <<0, x, y, z>>[i]
      OBVIOUS
    <3> QED BY <2>1, <3>1, ParityAdds
  <2>3. Parity(<<x, 1, y, z>>) = 1 - Parity(<<x, 0, y, z>>)
    <3>1. /\ Len(<<x, 1, y, z>>) = 4 /\ Len(<<x, 0, y, z>>) = 4 /\ 2 \in 1..4
          /\ <<x, 0, y, z>>[2] = 0 /\ <<x, 1, y, z>>[2] = 1
          /\ \A i \in 1..4 : i # 2 => <<x, 1, y, z>>[i] = <<x, 0, y, z>>[i]
      OBVIOUS
    <3> QED BY <2>1, <3>1, ParityAdds
  <2>4. Parity(<<x, y, 1, z>>) = 1 - Parity(<<x, y, 0, z>>)
    <3>1. /\ Len(<<x, y, 1, z>>) = 4 /\ Len(<<x, y, 0, z>>) = 4 /\ 3 \in 1..4
          /\ <<x, y, 0, z>>[3] = 0 /\ <<x, y, 1, z>>[3] = 1
          /\ \A i \in 1..4 : i # 3 => <<x, y, 1, z>>[i] = <<x, y, 0, z>>[i]
      OBVIOUS
    <3> QED BY <2>1, <3>1, ParityAdds
  <2>5. Parity(<<x, y, z, 1>>) = 1 - Parity(<<x, y, z, 0>>)
    <3>1. /\ Len(<<x, y, z, 1>>) = 4 /\ Len(<<x, y, z, 0>>) = 4 /\ 4 \in 1..4
          /\ <<x, y, z, 0>>[4] = 0 /\ <<x, y, z, 1>>[4] = 1
          /\ \A i \in 1..4 : i # 4 => <<x, y, z, 1>>[i] = <<x, y, z, 0>>[i]
      OBVIOUS
    <3> QED BY <2>1, <3>1, ParityAdds
  <2> QED BY <2>2, <2>3, <2>4, <2>5
<1>2. /\ a = 0 \/ a = 1
      /\ b = 0 \/ b = 1
      /\ c = 0 \/ c = 1
      /\ d = 0 \/ d = 1
  BY DEF Bit
<1>3. 0 \in Bit /\ 1 \in Bit
  BY DEF Bit
<1>4. Parity(<<0, 0, 0, d>>) = d
  <2>1. CASE d = 0
    BY <2>1, FourZeros
  <2>2. CASE d = 1
    <3>1. Parity(<<0, 0, 0, 1>>) = 1 - Parity(<<0, 0, 0, 0>>)
      BY <1>1, <1>3, Zenon
    <3> QED BY <2>2, <3>1, FourZeros
  <2> QED BY <1>2, <2>1, <2>2
<1>5. Parity(<<0, 0, c, d>>) = (c + d) % 2
  <2>1. CASE c = 0
    BY <1>2, <1>4, <2>1
  <2>2. CASE c = 1
    <3>1. Parity(<<0, 0, 1, d>>) = 1 - Parity(<<0, 0, 0, d>>)
      BY <1>1, <1>3
    <3> QED BY <1>2, <1>4, <2>2, <3>1
  <2> QED BY <1>2, <2>1, <2>2
<1>6. Parity(<<0, b, c, d>>) = (b + c + d) % 2
  <2>1. CASE b = 0
    BY <1>2, <1>5, <2>1
  <2>2. CASE b = 1
    <3>1. Parity(<<0, 1, c, d>>) = 1 - Parity(<<0, 0, c, d>>)
      BY <1>1, <1>3
    <3> QED BY <1>2, <1>5, <2>2, <3>1
  <2> QED BY <1>2, <2>1, <2>2
<1>7. CASE a = 0
  BY <1>2, <1>6, <1>7
<1>8. CASE a = 1
  <2>1. Parity(<<1, b, c, d>>) = 1 - Parity(<<0, b, c, d>>)
    BY <1>1, Zenon
  <2> QED BY <1>2, <1>6, <1>8, <2>1
<1> QED BY <1>2, <1>7, <1>8

\* The elements of a sequence.
LEMMA Elements ==
  ASSUME NEW S, NEW s \in Seq(S) PROVE Len(s) \in Nat /\ \A i \in 1..Len(s) : s[i] \in S
BY ElementOfSeq

\* Two strings of bits, one after the other.
LEMMA Joined ==
  ASSUME NEW s \in Seq(Bit), NEW r \in Seq(Bit)
  PROVE  /\ s \o r \in Seq(Bit) /\ Len(s \o r) = Len(s) + Len(r)
         /\ \A i \in 1..Len(s) : (s \o r)[i] = s[i]
         /\ \A i \in 1..Len(r) : (s \o r)[Len(s) + i] = r[i]
<1>1. Len(s) \in Nat /\ Len(r) \in Nat
  OBVIOUS
<1>2. /\ s \o r \in Seq(Bit) /\ Len(s \o r) = Len(s) + Len(r)
      /\ \A i \in 1..Len(s) + Len(r) :
           (s \o r)[i] = IF i <= Len(s) THEN s[i] ELSE r[i - Len(s)]
  BY ConcatProperties
<1>3. \A i \in 1..Len(r) : (s \o r)[Len(s) + i] = r[i]
  <2> TAKE i \in 1..Len(r)
  <2>1. Len(s) + i \in 1..Len(s) + Len(r) /\ ~(Len(s) + i <= Len(s)) /\ Len(s) + i - Len(s) = i
    BY <1>1
  <2> QED BY <1>2, <2>1
<1> QED BY <1>1, <1>2, <1>3

\* A part of a sequence.
LEMMA SubSeqIs ==
  ASSUME NEW S, NEW s \in Seq(S), NEW m \in 1..Len(s) + 1, NEW n \in (m - 1)..Len(s)
  PROVE  /\ SubSeq(s, m, n) \in Seq(S) /\ Len(SubSeq(s, m, n)) = n - m + 1
         /\ \A i \in 1..(n - m + 1) : SubSeq(s, m, n)[i] = s[m + i - 1]
BY SubSeqProperties

\* What makes eight bits a request, without the parity's set.
LEMMA WellFormedIs ==
  ASSUME NEW s \in Seq(Bit), Len(s) = 8
  PROVE  WellFormed(s) <=> /\ s[1] = 1 /\ s[7] = 0 /\ s[8] = 1
                           /\ s[6] = (s[2] + s[3] + s[4] + s[5]) % 2
<1>1. s[2] \in Bit /\ s[3] \in Bit /\ s[4] \in Bit /\ s[5] \in Bit
  <2>1. 2 \in 1..8 /\ 3 \in 1..8 /\ 4 \in 1..8 /\ 5 \in 1..8
    OBVIOUS
  <2> QED BY <2>1, Elements
<1> DEFINE r == SubSeq(s, 2, 5)
<1>2. r \in Seq(Bit) /\ Len(r) = 4 /\ r[1] = s[2] /\ r[2] = s[3] /\ r[3] = s[4] /\ r[4] = s[5]
  <2>1. /\ r \in Seq(Bit) /\ Len(r) = 5 - 2 + 1
        /\ \A i \in 1..(5 - 2 + 1) : r[i] = s[2 + i - 1]
    <3>1. 2 \in 1..Len(s) + 1 /\ 5 \in (2 - 1)..Len(s)
      OBVIOUS
    <3> QED BY <3>1, SubSeqIs
  <2> HIDE DEF r
  <2> QED BY <2>1
<1> HIDE DEF r
<1>3. r = <<s[2], s[3], s[4], s[5]>>
  <2> DEFINE t == <<s[2], s[3], s[4], s[5]>>
  <2>1. t \in Seq(Bit) /\ Len(t) = 4 /\ t[1] = s[2] /\ t[2] = s[3] /\ t[3] = s[4] /\ t[4] = s[5]
    BY <1>1
  <2> HIDE DEF t
  <2>2. r = t
    <3>1. \A i \in 1..4 : r[i] = t[i]
      BY <1>2, <2>1
    <3> QED BY <1>2, <2>1, <3>1, SeqEqual
  <2> QED BY <2>2 DEF t
<1>4. Parity(r) = (s[2] + s[3] + s[4] + s[5]) % 2
  BY <1>1, <1>3, ParityOfFour
<1> QED BY <1>4 DEF WellFormed, r

\* A word is a sequence of bits.
LEMMA WordIsSequence == ASSUME NEW n \in Nat, NEW w \in [1..n -> Bit]
                        PROVE  w \in Seq(Bit) /\ Len(w) = n
OBVIOUS

\* The packet of packet_request: its start, stop and park bits, its parity, and a 0
\* among its second to sixth bits.
LEMMA PacketIs ==
  ASSUME NEW p \in Payloads
  PROVE  LET q == PacketRequest(p) IN
         /\ q \in Seq(Bit) /\ Len(q) = 8 /\ q[1] = 1 /\ q[7] = 0 /\ q[8] = 1
         /\ q[6] = (q[2] + q[3] + q[4] + q[5]) % 2
         /\ q[3] = p[2]
         /\ \A i \in 1..8 : q[i] \in Bit
         /\ q[2] = 0 \/ q[3] = 0 \/ q[4] = 0 \/ q[5] = 0 \/ q[6] = 0
<1> DEFINE q == PacketRequest(p)
<1>1. p \in [1..4 -> Bit]
  BY WidthAssumption
<1>2. p[1] \in Bit /\ p[2] \in Bit /\ p[3] \in Bit /\ p[4] \in Bit
  BY <1>1
<1>3. p \in Seq(Bit) /\ Len(p) = 4
  BY <1>1, WordIsSequence
<1>4. p = <<p[1], p[2], p[3], p[4]>>
  BY <1>3
<1>5. Parity(p) = (p[1] + p[2] + p[3] + p[4]) % 2
  BY <1>2, <1>4, ParityOfFour
<1>6. Parity(p) \in Bit
  BY <1>3, ParityBit
<1>7. /\ q \in Seq(Bit) /\ Len(q) = 8 /\ q[1] = 1 /\ q[7] = 0 /\ q[8] = 1
      /\ q[2] = p[1] /\ q[3] = p[2] /\ q[4] = p[3] /\ q[5] = p[4] /\ q[6] = Parity(p)
  BY <1>2, <1>6 DEF PacketRequest, Bit
<1>8. q[6] = (q[2] + q[3] + q[4] + q[5]) % 2
  BY <1>5, <1>7
<1>9. \A i \in 1..8 : q[i] \in Bit
  BY <1>7, Elements
<1>10. q[2] = 0 \/ q[3] = 0 \/ q[4] = 0 \/ q[5] = 0 \/ q[6] = 0
  BY <1>2, <1>7, <1>8 DEF Bit
<1> HIDE DEF q
<1> QED BY <1>7, <1>8, <1>9, <1>10 DEF q

\* A word with its parity.
Code(w) == w \o <<Parity(w)>>

\* A word and its parity, bit by bit.
LEMMA CodeIs ==
  ASSUME NEW w \in [1..Width -> Bit]
  PROVE  /\ Code(w) \in Seq(Bit) /\ Len(Code(w)) = Width + 1
         /\ \A i \in 1..Width : Code(w)[i] = w[i]
         /\ Code(w)[Width + 1] = Parity(w)
<1>1. w \in Seq(Bit) /\ Len(w) = Width
  BY Sizes, WordIsSequence
<1>2. Parity(w) \in Bit
  BY <1>1, ParityBit
<1> QED BY <1>1, <1>2, Sizes DEF Code

\* A word and its parity with at most one bit flipped: the word, or the parity tells.
LEMMA FlipDetected ==
  ASSUME NEW w \in [1..Width -> Bit], NEW s \in Seq(Bit), Len(s) >= Width + 1,
         \A i, j \in 1..(Width + 1) : s[i] # Code(w)[i] /\ s[j] # Code(w)[j] => i = j,
         Parity(SubSeq(s, 1, Width)) = s[Width + 1]
  PROVE  SubSeq(s, 1, Width) = w
<1> DEFINE r == SubSeq(s, 1, Width)
<1>1. w \in Seq(Bit) /\ Len(w) = Width /\ Width \in Nat \ {0} /\ Len(s) \in Nat
  BY Sizes, WordIsSequence
<1>2. r \in Seq(Bit) /\ Len(r) = Width /\ \A i \in 1..Width : r[i] = s[i]
  BY <1>1, SubSeqIs
<1>3. \A i \in 1..Width : Code(w)[i] = w[i]
  BY CodeIs
<1>4. Code(w)[Width + 1] = Parity(w)
  BY CodeIs
<1> HIDE DEF r
<1>5. CASE \E e \in 1..Width : r[e] # w[e]
  <2>1. PICK e \in 1..Width : r[e] # w[e]
    BY <1>5
  <2>2. \A i \in 1..Width : i # e => r[i] = w[i]
    BY <1>1, <1>2, <1>3, <2>1
  <2>3. Parity(r) = 1 - Parity(w)
    <3>1. Len(r) = Len(w) /\ e \in 1..Len(w) /\ \A i \in 1..Len(w) : i # e => r[i] = w[i]
      BY <1>1, <1>2, <2>2
    <3> QED BY <1>1, <1>2, <2>1, <3>1, ParityFlips
  <2>4. e # Width + 1 /\ e \in 1..(Width + 1) /\ Width + 1 \in 1..(Width + 1)
    BY <1>1
  <2>5. s[e] # Code(w)[e]
    BY <1>2, <1>3, <2>1
  <2>6. s[Width + 1] = Parity(w)
    BY <1>4, <2>4, <2>5
  <2>7. Parity(w) \in Bit
    BY <1>1, ParityBit
  <2> QED BY <2>3, <2>6, <2>7 DEF r, Bit
<1>6. CASE \A e \in 1..Width : r[e] = w[e]
  <2>1. r = w
    BY <1>1, <1>2, <1>6, SeqEqual
  <2> QED BY <2>1 DEF r
<1> QED BY <1>5, <1>6

\* The JTAG-to-SWD word of line_reset_and_switch.
LEMMA SwitchIs ==
  /\ SwitchWord \in Seq(Bit) /\ Len(SwitchWord) = 16
  /\ \A i \in 1..16 : SwitchWord[i] \in Bit
  /\ SwitchWord[1] = 0 /\ SwitchWord[2] = 1 /\ SwitchWord[8] = 1
BY DEF SwitchWord, Bit

\* What line_reset_and_switch sends.
Sequence == Ones(LineOnes) \o SwitchWord \o Ones(LineOnes) \o Zeros(8)

\* Its whole sequence: a line reset, the switch, a line reset, idle bits.
LEMMA SequenceIs ==
  /\ Sequence \in Seq(Bit) /\ Len(Sequence) = 2 * LineOnes + 24
  /\ \A i \in 1..LineOnes : Sequence[i] = 1
  /\ \A i \in 1..16 : Sequence[LineOnes + i] = SwitchWord[i]
  /\ \A i \in 1..LineOnes : Sequence[LineOnes + 16 + i] = 1
  /\ \A i \in 1..8 : Sequence[2 * LineOnes + 16 + i] = 0
<1>1. /\ Ones(LineOnes) \in Seq(Bit) /\ Len(Ones(LineOnes)) = LineOnes
      /\ \A i \in 1..LineOnes : Ones(LineOnes)[i] = 1
  BY Sizes DEF Ones, Bit
<1>2. /\ Zeros(8) \in Seq(Bit) /\ Len(Zeros(8)) = 8 /\ \A i \in 1..8 : Zeros(8)[i] = 0
  BY DEF Zeros, Bit
<1> DEFINE o == Ones(LineOnes)
           z == Zeros(8)
           a == o \o SwitchWord
           b == a \o o
           c == b \o z
<1>3. Sequence = c
  BY DEF Sequence
<1>4. /\ o \in Seq(Bit) /\ Len(o) = LineOnes /\ \A i \in 1..LineOnes : o[i] = 1
      /\ z \in Seq(Bit) /\ Len(z) = 8 /\ \A i \in 1..8 : z[i] = 0
  BY <1>1, <1>2
<1> HIDE DEF o, z
<1>5. /\ a \in Seq(Bit) /\ Len(a) = LineOnes + 16
      /\ \A i \in 1..LineOnes : a[i] = o[i]
      /\ \A i \in 1..16 : a[LineOnes + i] = SwitchWord[i]
  <2>1. /\ a \in Seq(Bit) /\ Len(a) = Len(o) + Len(SwitchWord)
        /\ \A i \in 1..Len(o) : a[i] = o[i]
        /\ \A i \in 1..Len(SwitchWord) : a[Len(o) + i] = SwitchWord[i]
    BY <1>4, SwitchIs, Joined
  <2> HIDE DEF a
  <2> QED BY <1>4, <2>1, SwitchIs
<1> HIDE DEF a
<1>6. /\ b \in Seq(Bit) /\ Len(b) = 2 * LineOnes + 16
      /\ \A i \in 1..(LineOnes + 16) : b[i] = a[i]
      /\ \A i \in 1..LineOnes : b[LineOnes + 16 + i] = o[i]
  <2>1. /\ b \in Seq(Bit) /\ Len(b) = Len(a) + Len(o)
        /\ \A i \in 1..Len(a) : b[i] = a[i]
        /\ \A i \in 1..Len(o) : b[Len(a) + i] = o[i]
    BY <1>4, <1>5, Joined
  <2> HIDE DEF b
  <2>2. Len(a) + Len(o) = 2 * LineOnes + 16
    BY <1>4, <1>5, Sizes
  <2> QED BY <1>4, <1>5, <2>1, <2>2
<1> HIDE DEF b
<1>7. /\ c \in Seq(Bit) /\ Len(c) = 2 * LineOnes + 24
      /\ \A i \in 1..(2 * LineOnes + 16) : c[i] = b[i]
      /\ \A i \in 1..8 : c[2 * LineOnes + 16 + i] = z[i]
  <2>1. /\ c \in Seq(Bit) /\ Len(c) = Len(b) + Len(z)
        /\ \A i \in 1..Len(b) : c[i] = b[i]
        /\ \A i \in 1..Len(z) : c[Len(b) + i] = z[i]
    BY <1>4, <1>6, Joined
  <2> HIDE DEF c
  <2>2. Len(b) + Len(z) = 2 * LineOnes + 24
    BY <1>4, <1>6, Sizes
  <2> QED BY <1>4, <1>6, <2>1, <2>2
<1> HIDE DEF c
<1>8. \A i \in 1..LineOnes : c[i] = 1
  <2> TAKE i \in 1..LineOnes
  <2>1. i \in 1..(LineOnes + 16) /\ i \in 1..(2 * LineOnes + 16)
    BY Sizes
  <2>2. c[i] = b[i] /\ b[i] = a[i]
    BY <1>6, <1>7, <2>1
  <2> QED BY <1>4, <1>5, <2>2
<1>9. \A i \in 1..16 : c[LineOnes + i] = SwitchWord[i]
  <2> TAKE i \in 1..16
  <2>1. LineOnes + i \in 1..(LineOnes + 16) /\ LineOnes + i \in 1..(2 * LineOnes + 16)
    BY Sizes
  <2> QED BY <1>5, <1>6, <1>7, <2>1
<1>10. \A i \in 1..LineOnes : c[LineOnes + 16 + i] = 1
  <2> TAKE i \in 1..LineOnes
  <2>1. LineOnes + 16 + i \in 1..(2 * LineOnes + 16)
    BY Sizes
  <2> QED BY <1>4, <1>6, <1>7, <2>1
<1>11. \A i \in 1..8 : c[2 * LineOnes + 16 + i] = 0
  BY <1>4, <1>7
<1> QED BY <1>3, <1>7, <1>8, <1>9, <1>10, <1>11

-----------------------------------------------------------------------------
(* The target. *)

Places == {"lost", "reset", "idle", "request", "answer", "back", "write"}
TargetType ==
  [at : Places,
   n : 0..(Width + 4), bits : Seq(Bit), ack : {Ok, Wait, Fault}, word : Held,
   read : BOOLEAN, ones : 0..ResetOnes]

\* How many bits it has heard, how many it has to say, and where it may be.
Taken(t) == Len(t.bits)
Span(t)  == Len(Reply(t))
Formed(t) ==
  /\ IF t.at = "reset" THEN t.ones = ResetOnes ELSE t.ones < ResetOnes
  /\ t.at = "request" => Taken(t) \in 1..7
  /\ t.at = "answer" => t.n <= Span(t) /\ t.word \in Words
  /\ t.at = "write" => Taken(t) <= Width
  /\ t.at \notin {"request", "write"} => t.bits = <<>>

\* An acknowledgement is three bits.
LEMMA AckIs ==
  ASSUME NEW t \in TargetType
  PROVE  t.ack \in Seq(Bit) /\ Len(t.ack) = 3 /\ \A i \in 1..3 : t.ack[i] \in Bit
<1>1. /\ Ok \in Seq(Bit) /\ Wait \in Seq(Bit) /\ Fault \in Seq(Bit)
      /\ Len(Ok) = 3 /\ Len(Wait) = 3 /\ Len(Fault) = 3
  BY DEF Ok, Wait, Fault, Bit
<1>2. t.ack \in {Ok, Wait, Fault}
  BY DEF TargetType
<1>3. t.ack \in Seq(Bit) /\ Len(t.ack) = 3
  BY <1>1, <1>2
<1> QED BY <1>3, Elements

\* What the target drives: its acknowledgement, then the word it was asked for.
LEMMA ReplyIs ==
  ASSUME NEW t \in TargetType, t.word \in Words
  PROVE  /\ Reply(t) \in Seq(Bit)
         /\ Len(Reply(t)) = IF Accepts(t) /\ t.read THEN Width + 4 ELSE 3
         /\ \A i \in 1..3 : Reply(t)[i] = t.ack[i]
         /\ Accepts(t) /\ t.read =>
              \A i \in 1..(Width + 1) : Reply(t)[3 + i] = Code(t.word)[i]
<1>1. t.ack \in Seq(Bit) /\ Len(t.ack) = 3
  BY AckIs
<1>2. /\ Code(t.word) \in Seq(Bit) /\ Len(Code(t.word)) = Width + 1
  BY CodeIs, WidthAssumption
<1> DEFINE c == Code(t.word)
<1>3. CASE Accepts(t) /\ t.read
  <2>1. Reply(t) = t.ack \o c
    BY <1>3 DEF Reply, Code
  <2>2. c \in Seq(Bit) /\ Len(c) = Width + 1
    BY <1>2
  <2> HIDE DEF c
  <2> DEFINE a == t.ack
             r == a \o c
  <2>3. a \in Seq(Bit) /\ Len(a) = 3
    BY <1>1
  <2>4. Reply(t) = r
    BY <2>1
  <2> HIDE DEF a
  <2>5. /\ r \in Seq(Bit) /\ Len(r) = Len(a) + Len(c)
        /\ \A i \in 1..Len(a) : r[i] = a[i]
        /\ \A i \in 1..Len(c) : r[Len(a) + i] = c[i]
    BY <2>2, <2>3, Joined
  <2> HIDE DEF r
  <2>6. /\ r \in Seq(Bit) /\ Len(r) = Width + 4
        /\ \A i \in 1..3 : r[i] = a[i]
        /\ \A i \in 1..(Width + 1) : r[3 + i] = c[i]
    BY <2>2, <2>3, <2>5, Sizes
  <2> QED BY <1>3, <2>4, <2>6 DEF a, c
<1>4. CASE ~(Accepts(t) /\ t.read)
  <2>1. Reply(t) = t.ack \o <<>>
    BY <1>4 DEF Reply
  <2>2. Reply(t) = t.ack
    BY <1>1, <2>1, ConcatEmptySeq
  <2> QED BY <1>1, <1>4, <2>2
<1> QED BY <1>3, <1>4

\* The ones in a row, after one more edge.
LEMMA CountedIs ==
  ASSUME NEW t \in TargetType, NEW b \in Bit
  PROVE  /\ Counted(t, b) \in Nat /\ Counted(t, b) <= t.ones + 1
         /\ b = 0 \/ Driving(t) => Counted(t, b) = 0
         /\ b = 1 /\ ~Driving(t) => Counted(t, b) = t.ones + 1
BY Sizes DEF Counted, TargetType, Bit

\* One edge, place by place.
LEMMA ClockedCases ==
  ASSUME NEW t \in TargetType, NEW b \in Bit, NEW u \in Clocked(t, b), Formed(t)
  PROVE  LET n == Counted(t, b)
             q == Append(t.bits, b) IN
         /\ n >= ResetOnes => u = Gone(t, "reset", ResetOnes)
         /\ n < ResetOnes =>
              /\ t.at \in {"reset", "idle"} /\ b = 0 => u = Gone(t, "idle", n)
              /\ t.at \in {"reset", "idle"} /\ b = 1 =>
                   u = Moved(t, "request", 0, <<1>>, t.word, n)
              /\ t.at = "request" /\ Len(t.bits) < 7 => u = Heard(t, b, n)
              /\ t.at = "request" /\ Len(t.bits) = 7 =>
                   IF WellFormed(q) THEN u \in Answering(q, n) ELSE u = Gone(t, "lost", n)
              /\ t.at = "answer" /\ t.n < Len(Reply(t)) =>
                   u = Moved(t, "answer", t.n + 1, <<>>, t.word, n)
              /\ t.at = "answer" /\ t.n = Len(Reply(t)) => u = Gone(t, "back", n)
              /\ t.at = "back" =>
                   u = Gone(t, IF Accepts(t) /\ ~t.read THEN "write" ELSE "idle", n)
              /\ t.at = "write" /\ Len(t.bits) < Width => u = Heard(t, b, n)
              /\ t.at = "write" /\ Len(t.bits) = Width =>
                   u = Moved(t, "idle", 0, <<>>, IF Parity(t.bits) = b THEN t.bits ELSE <<>>, n)
              /\ t.at = "lost" => u = Gone(t, "lost", n)
<1> DEFINE n == Counted(t, b)
           q == Append(t.bits, b)
           word == SubSeq(q, 1, Width)
           l == Len(t.bits)
           r == Len(Reply(t))
<1>1. n \in Nat /\ ResetOnes \in Nat
  BY CountedIs, Sizes
<1>2. q \in Seq(Bit) /\ Len(q) = l + 1 /\ l \in Nat
  BY DEF TargetType
<1>3. t.at = "write" /\ l = Width => word = t.bits
  <2> HAVE t.at = "write" /\ Len(t.bits) = Width
  <2>1. t.bits \in Seq(Bit)
    BY DEF TargetType
  <2>2. \A i \in 1..Width : q[i] = t.bits[i]
    BY <2>1, Sizes
  <2>3. 1 \in 1..Len(q) + 1 /\ Width \in (1 - 1)..Len(q) /\ Width - 1 + 1 = Width
    BY <1>2, Sizes
  <2> HIDE DEF q
  <2>4. /\ word \in Seq(Bit) /\ Len(word) = Width
        /\ \A i \in 1..Width : word[i] = q[1 + i - 1]
    BY <1>2, <2>3, SubSeqIs
  <2> HIDE DEF word
  <2>5. \A i \in 1..Width : word[i] = t.bits[i]
    BY <2>2, <2>4, Sizes
  <2> QED BY <2>1, <2>4, <2>5, SeqEqual
<1>8. u \in IF n >= ResetOnes THEN {Gone(t, "reset", ResetOnes)}
           ELSE CASE t.at \in {"reset", "idle"} /\ b = 0 -> {Gone(t, "idle", n)}
                  [] t.at \in {"reset", "idle"} /\ b = 1 ->
                       {Moved(t, "request", 0, <<1>>, t.word, n)}
                  [] t.at = "request" /\ Len(q) < 8 -> {Heard(t, b, n)}
                  [] t.at = "request" /\ Len(q) = 8 ->
                       IF WellFormed(q) THEN Answering(q, n) ELSE {Gone(t, "lost", n)}
                  [] t.at = "answer" /\ t.n < r ->
                       {Moved(t, "answer", t.n + 1, <<>>, t.word, n)}
                  [] t.at = "answer" /\ t.n = r -> {Gone(t, "back", n)}
                  [] t.at = "back" ->
                       {Gone(t, IF Accepts(t) /\ ~t.read THEN "write" ELSE "idle", n)}
                  [] t.at = "write" /\ Len(q) <= Width -> {Heard(t, b, n)}
                  [] t.at = "write" /\ Len(q) > Width ->
                       {Moved(t, "idle", 0, <<>>, IF Parity(word) = b THEN word ELSE <<>>, n)}
                  [] OTHER -> {Gone(t, "lost", n)}
  BY Zenon DEF Clocked
<1>9. t.n \in Nat /\ Width \in Nat
  BY Sizes DEF TargetType
<1> HIDE DEF n, q, word, l, r
<1>10. n >= ResetOnes => u = Gone(t, "reset", ResetOnes)
  BY <1>1, <1>8
<1>11. ASSUME n < ResetOnes
       PROVE /\ t.at \in {"reset", "idle"} /\ b = 0 => u = Gone(t, "idle", n)
             /\ t.at \in {"reset", "idle"} /\ b = 1 =>
                   u = Moved(t, "request", 0, <<1>>, t.word, n)
  BY <1>1, <1>8, <1>11
<1>12. ASSUME n < ResetOnes
       PROVE /\ t.at = "request" /\ l < 7 => u = Heard(t, b, n)
             /\ t.at = "request" /\ l = 7 =>
                   IF WellFormed(q) THEN u \in Answering(q, n) ELSE u = Gone(t, "lost", n)
  BY <1>1, <1>2, <1>8, <1>12
<1>13. ASSUME n < ResetOnes
       PROVE /\ t.at = "answer" /\ t.n < r =>
                   u = Moved(t, "answer", t.n + 1, <<>>, t.word, n)
             /\ t.at = "answer" /\ t.n = r => u = Gone(t, "back", n)
             /\ t.at = "back" =>
                   u = Gone(t, IF Accepts(t) /\ ~t.read THEN "write" ELSE "idle", n)
  BY <1>1, <1>8, <1>9, <1>13
<1>14. ASSUME n < ResetOnes
       PROVE /\ t.at = "write" /\ l < Width => u = Heard(t, b, n)
             /\ t.at = "write" /\ l = Width =>
                   u = Moved(t, "idle", 0, <<>>, IF Parity(t.bits) = b THEN t.bits ELSE <<>>, n)
             /\ t.at = "lost" => u = Gone(t, "lost", n)
  BY <1>1, <1>2, <1>3, <1>8, <1>9, <1>14
<1> QED BY <1>10, <1>11, <1>12, <1>13, <1>14 DEF q, n, l, r

\* What an edge does to a target, field by field.
Kept(t, u)  == u.ack = t.ack /\ u.word = t.word /\ u.read = t.read
Longer(t, b, u) == /\ Taken(u) = Taken(t) + 1 /\ u.bits[Taken(t) + 1] = b
                   /\ \A i \in 1..Taken(t) : u.bits[i] = t.bits[i]

\* The packet that is whole with bit b is one a target answers.
Apt(t, b) == /\ t.bits[1] = 1 /\ t.bits[7] = 0 /\ b = 1
             /\ t.bits[6] = (t.bits[2] + t.bits[3] + t.bits[4] + t.bits[5]) % 2

Edge(t, b, u) ==
  /\ t \in TargetType /\ Formed(t) /\ b \in Bit /\ u \in TargetType /\ Formed(u)
  /\ IF Counted(t, b) >= ResetOnes
     THEN u.at = "reset" /\ u.ones = ResetOnes /\ Kept(t, u)
     ELSE /\ u.ones = Counted(t, b)
          /\ t.at \in {"reset", "idle"} =>
               /\ b = 0 => u.at = "idle"
               /\ b = 1 => u.at = "request" /\ Taken(u) = 1 /\ u.bits[1] = 1
          /\ t.at = "request" /\ Taken(t) < 7 =>
               u.at = "request" /\ Longer(t, b, u)
          /\ t.at = "request" /\ Taken(t) = 7 =>
               \/ /\ u.at = "answer" /\ u.n = 0 /\ u.word \in Words
                  /\ Apt(t, b)
                  /\ u.read <=> t.bits[3] = 1
               \/ u.at = "lost" /\ ~Apt(t, b)
          /\ t.at = "answer" =>
               \/ t.n < Span(t) /\ u.at = "answer" /\ u.n = t.n + 1
               \/ t.n = Span(t) /\ u.at = "back"
          /\ t.at = "back" =>
               u.at = (IF Accepts(t) /\ ~t.read THEN "write" ELSE "idle") /\ Taken(u) = 0
          /\ t.at = "write" /\ Taken(t) < Width =>
               u.at = "write" /\ Longer(t, b, u)
          /\ t.at = "write" /\ Taken(t) = Width =>
               /\ u.at = "idle"
               /\ u.word = IF Parity(t.bits) = b THEN t.bits ELSE <<>>
          /\ t.at = "lost" => u.at = "lost"
          /\ t.at \notin {"request", "write"} => Kept(t, u)

\* A string of bits has a length.
LEMMA SeqNat == \A s \in Seq(Bit) : Len(s) \in Nat
OBVIOUS

\* The bits a target holds.
LEMMA TakenIs ==
  ASSUME NEW t \in TargetType
  PROVE  /\ t.bits \in Seq(Bit) /\ Taken(t) = Len(t.bits) /\ Taken(t) \in Nat
         /\ \A i \in 1..Taken(t) : t.bits[i] \in Bit
<1>1. t.bits \in Seq(Bit)
  BY DEF TargetType
<1> QED BY <1>1, Elements DEF Taken

\* How long an answer is.
LEMMA SpanIs ==
  ASSUME NEW t \in TargetType, t.word \in Words
  PROVE  Span(t) = IF Accepts(t) /\ t.read THEN Width + 4 ELSE 3
BY ReplyIs DEF Span

\* One bit more.
LEMMA AppendIs ==
  ASSUME NEW s \in Seq(Bit), NEW b \in Bit
  PROVE  LET r == Append(s, b) IN
         /\ r \in Seq(Bit) /\ Len(r) = Len(s) + 1 /\ r[Len(s) + 1] = b
         /\ \A i \in 1..Len(s) : r[i] = s[i]
OBVIOUS

\* One bit more, for a target.
LEMMA LongerIs ==
  ASSUME NEW t \in TargetType, NEW u, NEW b \in Bit, u.bits = Append(t.bits, b)
  PROVE  Longer(t, b, u)
<1>1. t.bits \in Seq(Bit)
  BY TakenIs
<1> QED BY <1>1, AppendIs DEF Longer, Taken

\* The fields of a target in another place.
LEMMA MovedIs ==
  ASSUME NEW t \in TargetType, NEW at \in Places, NEW k \in 0..(Width + 4),
         NEW s \in Seq(Bit), NEW w \in Held, NEW m \in 0..ResetOnes
  PROVE  LET v == Moved(t, at, k, s, w, m) IN
         /\ v.at = at /\ v.n = k /\ v.bits = s /\ v.ack = t.ack /\ v.word = w
         /\ v.read = t.read /\ v.ones = m /\ v \in TargetType
BY DEF Moved, TargetType

\* The same, for the eighth bit of a packet.
LEMMA AptIs ==
  ASSUME NEW t \in TargetType, NEW b \in Bit, Taken(t) = 7
  PROVE  WellFormed(Append(t.bits, b)) <=> Apt(t, b)
<1> DEFINE q == Append(t.bits, b)
<1>1. t.bits \in Seq(Bit) /\ Len(t.bits) = 7
  BY TakenIs
<1> DEFINE s == t.bits
<1>2. q \in Seq(Bit) /\ Len(q) = 8 /\ q[8] = b /\ \A i \in 1..7 : q[i] = s[i]
  <2>1. s \in Seq(Bit) /\ Len(s) = 7 /\ q = Append(s, b)
    BY <1>1
  <2> HIDE DEF s, q
  <2>2. LET r == Append(s, b) IN
         /\ r \in Seq(Bit) /\ Len(r) = Len(s) + 1 /\ r[Len(s) + 1] = b
         /\ \A i \in 1..Len(s) : r[i] = s[i]
    BY <2>1, AppendIs
  <2> QED BY <2>1, <2>2
<1> HIDE DEF q
<1>3. /\ q[1] = t.bits[1] /\ q[2] = t.bits[2] /\ q[3] = t.bits[3] /\ q[4] = t.bits[4]
      /\ q[5] = t.bits[5] /\ q[6] = t.bits[6] /\ q[7] = t.bits[7]
  BY <1>2
<1>4. WellFormed(q) <=> /\ q[1] = 1 /\ q[7] = 0 /\ q[8] = 1
                        /\ q[6] = (q[2] + q[3] + q[4] + q[5]) % 2
  BY <1>2, WellFormedIs
<1>5. WellFormed(q) <=> Apt(t, b)
  BY <1>2, <1>3, <1>4 DEF Apt
<1> QED BY <1>5 DEF q

\* Every edge the model has is an edge as above: the only step that opens Clocked.
LEMMA Edges ==
  ASSUME NEW t \in TargetType, NEW b \in Bit, NEW u \in Clocked(t, b), Formed(t)
  PROVE  Edge(t, b, u)
<1> DEFINE n == Counted(t, b)
           q == Append(t.bits, b)
           none == <<>>
<1>1. n \in Nat /\ ResetOnes \in Nat /\ Width \in Nat \ {0}
  BY CountedIs, Sizes
<1>2. t.bits \in Seq(Bit) /\ Taken(t) \in Nat
  BY TakenIs
<1>3. /\ q \in Seq(Bit) /\ Len(q) = Taken(t) + 1
      /\ \A i \in 1..Taken(t) : q[i] = t.bits[i]
  BY <1>2, AppendIs DEF Taken
<1>4. /\ t.n \in 0..(Width + 4) /\ t.ack \in {Ok, Wait, Fault} /\ t.word \in Held
      /\ t.read \in BOOLEAN /\ t.ones \in 0..ResetOnes
      /\ t.at \in Places
  BY DEF TargetType
<1>5. 0 \in 0..(Width + 4)
  BY <1>1
<1>6. none \in Seq(Bit) /\ none \in Held /\ \A v : v.bits = none => Taken(v) = 0
  BY DEF Held, Taken
<1>7. <<1>> \in Seq(Bit) /\ Len(<<1>>) = 1
  BY DEF Bit
<1> HIDE DEF n, q, none
<1>8. \A p \in {"lost", "reset", "idle", "request", "answer", "back", "write"} : p \in Places
  BY DEF Places
<1>9. CASE n >= ResetOnes
  <2>1. u = Moved(t, "reset", 0, none, t.word, ResetOnes)
    BY <1>9, ClockedCases DEF n, Gone, none
  <2>2. ResetOnes \in 0..ResetOnes
    BY <1>1
  <2>0. "reset" \in Places
    BY DEF Places
  <2>3. /\ u.at = "reset" /\ u.n = 0 /\ u.bits = none /\ u.ack = t.ack /\ u.word = t.word
        /\ u.read = t.read /\ u.ones = ResetOnes /\ u \in TargetType
    BY <1>4, <1>5, <1>6, <2>0, <2>1, <2>2, MovedIs
  <2>4. Formed(u)
    BY <2>3 DEF Formed, none
  <2> QED BY <1>9, <2>3, <2>4 DEF Edge, Kept, n
<1>10. CASE n < ResetOnes
  <2>1. n \in 0..ResetOnes
    BY <1>1, <1>10
  <2> DEFINE F(w, at, k, s) == /\ w.at = at /\ w.n = k /\ w.bits = s /\ w.ones = n /\ w.ack = t.ack
                               /\ w.read = t.read /\ w \in TargetType
  <2>2. ASSUME NEW at \in Places, NEW k \in 0..(Width + 4), NEW s \in Seq(Bit), NEW w \in Held
        PROVE  F(Moved(t, at, k, s, w, n), at, k, s) /\ Moved(t, at, k, s, w, n).word = w
    BY <2>1, MovedIs
  <2> HIDE DEF F
  <2>3. ASSUME NEW at \in Places
        PROVE  F(Gone(t, at, n), at, 0, none) /\ Gone(t, at, n).word = t.word
    <3>1. Gone(t, at, n) = Moved(t, at, 0, none, t.word, n)
      BY DEF Gone, none
    <3>2. /\ F(Moved(t, at, 0, none, t.word, n), at, 0, none)
          /\ Moved(t, at, 0, none, t.word, n).word = t.word
      BY <1>4, <1>5, <1>6, <2>2, Zenon
    <3> QED BY <3>1, <3>2
  <2>0. /\ "lost" \in Places /\ "reset" \in Places /\ "idle" \in Places
        /\ "request" \in Places /\ "answer" \in Places
        /\ "back" \in Places /\ "write" \in Places
    BY DEF Places
  <2>4. ~(n >= ResetOnes)
    BY <1>1, <1>10
  <2>5. CASE t.at \in {"reset", "idle"} /\ b = 0
    <3>1. u = Gone(t, "idle", n)
      BY <1>10, <2>5, ClockedCases DEF n, none
    <3>2. F(u, "idle", 0, none) /\ u.word = t.word
      BY <2>0, <2>3, <3>1, Zenon
    <3>3. Formed(u)
      BY <1>10, <3>2 DEF Formed, F, none
    <3> QED BY <2>4, <2>5, <3>2, <3>3 DEF Edge, Kept, n, F
  <2>6. CASE t.at \in {"reset", "idle"} /\ b = 1
    <3>1. u = Moved(t, "request", 0, <<1>>, t.word, n)
      BY <1>10, <2>6, ClockedCases DEF n, none
    <3>2. F(u, "request", 0, <<1>>) /\ u.word = t.word
      BY <1>4, <1>5, <1>7, <2>0, <2>2, <3>1, Zenon
    <3>3. Formed(u)
      BY <1>7, <1>10, <3>2 DEF Formed, F, Taken, none
    <3> QED BY <2>4, <2>6, <3>2, <3>3, <1>7 DEF Edge, Kept, n, F, Taken
  <2>7. CASE t.at = "request" /\ Taken(t) < 7
    <3>1. u = Moved(t, t.at, t.n, q, t.word, n)
      BY <1>10, <2>7, ClockedCases DEF n, q, Heard, Taken
    <3>0. q \in Seq(Bit)
      BY <1>3
    <3>2. F(u, "request", t.n, q) /\ u.word = t.word
      BY <1>4, <2>0, <2>2, <2>7, <3>0, <3>1, Zenon
    <3>5. Longer(t, b, u)
      BY <3>2, LongerIs DEF F, q
    <3>4. Taken(u) \in 1..7
      BY <1>2, <2>7, <3>5 DEF Longer
    <3>3. Formed(u)
      BY <1>10, <3>2, <3>4 DEF Formed, F, none
    <3> QED BY <1>2, <2>4, <2>7, <3>2, <3>3, <3>5 DEF Edge, n, F
  <2>8. CASE t.at = "request" /\ Taken(t) = 7 /\ ~WellFormed(q)
    <3>1. u = Gone(t, "lost", n)
      BY <1>10, <2>8, ClockedCases DEF n, q, Taken, none
    <3>2. F(u, "lost", 0, none) /\ u.word = t.word
      BY <2>0, <2>3, <3>1, Zenon
    <3>3. Formed(u)
      BY <1>10, <3>2 DEF Formed, F, none
    <3>4. ~Apt(t, b)
      BY <2>8, AptIs DEF q
    <3> QED BY <2>4, <2>8, <3>2, <3>3, <3>4 DEF Edge, n, F
  <2>9. CASE t.at = "request" /\ Taken(t) = 7 /\ WellFormed(q)
    <3>1. u \in Answering(q, n)
      BY <1>10, <2>9, ClockedCases DEF n, q, Taken, none
    <3>2. /\ u.at = "answer" /\ u.n = 0 /\ u.bits = none /\ u.ack \in {Ok, Wait, Fault}
          /\ u.word \in Words /\ (u.read <=> q[3] = 1) /\ u.ones = n
          /\ u = [at |-> "answer", n |-> 0, bits |-> <<>>, ack |-> u.ack, word |-> u.word,
                  read |-> u.read, ones |-> n]
          /\ u.read \in BOOLEAN
      BY <3>1 DEF Answering, none
    <3>3. u.word \in Held
      BY <3>2, WidthAssumption DEF Held
    <3>4. u \in TargetType
      <4>1. u = Moved(u, "answer", 0, none, u.word, n)
        BY <3>2 DEF Moved, none
      <4>2. "answer" \in Places
        BY DEF Places
      <4> QED BY <1>5, <1>6, <2>1, <3>2, <3>3, <4>1, <4>2 DEF TargetType, Moved
    <3>5. Span(u) >= 0
      BY <1>1, <3>2, <3>4, SpanIs
    <3>6. Formed(u)
      BY <1>10, <3>2, <3>5 DEF Formed, none
    <3>7. q[3] = t.bits[3]
      BY <1>3, <2>9
    <3>8. Apt(t, b)
      BY <2>9, AptIs DEF q
    <3> QED BY <2>4, <2>9, <3>2, <3>4, <3>6, <3>7, <3>8 DEF Edge, n
  <2>10. CASE t.at = "answer" /\ t.n < Span(t)
    <3>1. u = Moved(t, "answer", t.n + 1, none, t.word, n)
      BY <1>10, <2>10, ClockedCases DEF n, Span, none
    <3>2. t.word \in Words
      BY <2>10 DEF Formed, none
    <3>3. Span(t) \in 0..(Width + 4)
      <4>1. Span(t) = Width + 4 \/ Span(t) = 3
        BY <3>2, SpanIs
      <4> QED BY <1>1, <4>1
    <3>4. t.n + 1 \in 0..(Width + 4) /\ t.n + 1 <= Span(t)
      BY <1>1, <1>4, <2>10, <3>3
    <3>5. F(u, "answer", t.n + 1, none) /\ u.word = t.word
      BY <1>4, <1>6, <2>0, <2>2, <3>1, <3>4, Zenon
    <3>6. Span(u) = Span(t)
      BY <3>5 DEF Reply, Accepts, F, Span
    <3>7. Formed(u)
      BY <1>10, <3>2, <3>4, <3>5, <3>6 DEF Formed, F, none
    <3> QED BY <2>4, <2>10, <3>5, <3>7 DEF Edge, Kept, n, F
  <2>11. CASE t.at = "answer" /\ t.n = Span(t)
    <3>1. u = Gone(t, "back", n)
      BY <1>10, <2>11, ClockedCases DEF n, Span, none
    <3>2. F(u, "back", 0, none) /\ u.word = t.word
      BY <2>0, <2>3, <3>1, Zenon
    <3>3. Formed(u)
      BY <1>10, <3>2 DEF Formed, F, none
    <3> QED BY <2>4, <2>11, <3>2, <3>3 DEF Edge, Kept, n, F
  <2>12. CASE t.at = "back"
    <3> DEFINE at == IF Accepts(t) /\ ~t.read THEN "write" ELSE "idle"
    <3>1. u = Gone(t, at, n)
      BY <1>10, <2>12, ClockedCases DEF n, none
    <3>0. at \in {"write", "idle"}
      OBVIOUS
    <3> HIDE DEF at
    <3>2. F(u, at, 0, none) /\ u.word = t.word
      BY <2>0, <2>3, <3>0, <3>1
    <3>3. Formed(u)
      BY <1>1, <1>6, <1>10, <3>0, <3>2 DEF Formed, F, Taken, none
    <3>4. Taken(u) = 0
      BY <1>6, <3>2 DEF F
    <3> QED BY <2>4, <2>12, <3>2, <3>3, <3>4 DEF Edge, Kept, n, F, at
  <2>13. CASE t.at = "write" /\ Taken(t) < Width
    <3>1. u = Moved(t, t.at, t.n, q, t.word, n)
      BY <1>10, <2>13, ClockedCases DEF n, q, Heard, Taken
    <3>0. q \in Seq(Bit)
      BY <1>3
    <3>2. F(u, "write", t.n, q) /\ u.word = t.word
      BY <1>4, <2>0, <2>2, <2>13, <3>0, <3>1, Zenon
    <3>5. Longer(t, b, u)
      BY <3>2, LongerIs DEF F, q
    <3>4. Taken(u) <= Width
      BY <1>1, <1>2, <2>13, <3>5 DEF Longer
    <3>3. Formed(u)
      BY <1>10, <3>2, <3>4 DEF Formed, F, none
    <3> QED BY <1>1, <1>2, <2>4, <2>13, <3>2, <3>3, <3>5 DEF Edge, n, F
  <2>14. CASE t.at = "write" /\ Taken(t) = Width
    <3> DEFINE w == IF Parity(t.bits) = b THEN t.bits ELSE none
    <3>1. u = Moved(t, "idle", 0, none, w, n)
      BY <1>10, <2>14, ClockedCases DEF n, Taken, none
    <3>0. t.bits \in [1..Width -> Bit]
      BY <1>2, <2>14 DEF Taken
    <3>2. w \in Held
      BY <3>0 DEF Held, none
    <3> HIDE DEF w
    <3>3. F(u, "idle", 0, none) /\ u.word = w
      BY <1>5, <1>6, <2>0, <2>2, <3>1, <3>2, Zenon
    <3>4. Formed(u)
      BY <1>10, <3>3 DEF Formed, F, none
    <3> QED BY <1>1, <2>4, <2>14, <3>3, <3>4 DEF Edge, n, F, w, none
  <2>15. CASE t.at = "lost"
    <3>1. u = Gone(t, "lost", n)
      BY <1>10, <2>15, ClockedCases DEF n, none
    <3>2. F(u, "lost", 0, none) /\ u.word = t.word
      BY <2>0, <2>3, <3>1, Zenon
    <3>3. Formed(u)
      BY <1>10, <3>2 DEF Formed, F, none
    <3> QED BY <2>4, <2>15, <3>2, <3>3 DEF Edge, Kept, n, F
  <2>16. t.at = "request" => Taken(t) \in 1..7
    BY DEF Formed, none
  <2>17. t.at = "write" => Taken(t) <= Width
    BY DEF Formed, none
  <2>18. t.at = "answer" => t.n <= Span(t) /\ Span(t) \in Nat
    <3> HAVE t.at = "answer"
    <3>1. t.n <= Span(t) /\ t.word \in Words
      BY DEF Formed, none
    <3>2. Span(t) = Width + 4 \/ Span(t) = 3
      BY <3>1, SpanIs
    <3> QED BY <1>1, <3>1, <3>2
  <2>19. /\ b = 0 \/ b = 1
         /\ t.at = "request" => Taken(t) < 7 \/ Taken(t) = 7
         /\ t.at = "write" => Taken(t) < Width \/ Taken(t) = Width
         /\ t.at = "answer" => t.n < Span(t) \/ t.n = Span(t)
    BY <1>1, <1>2, <1>4, <2>16, <2>17, <2>18 DEF Bit
  <2>20. \/ t.at = "lost" \/ t.at \in {"reset", "idle"} \/ t.at = "request" \/ t.at = "answer"
         \/ t.at = "back" \/ t.at = "write"
    BY <1>4 DEF Places
  <2> QED BY <2>5, <2>6, <2>7, <2>8, <2>9, <2>10, <2>11, <2>12, <2>13, <2>14,
             <2>15, <2>19, <2>20
<1> QED BY <1>1, <1>9, <1>10

-----------------------------------------------------------------------------
(* A request, bit by bit: z says that one of its bits was flipped. *)

IsPacket(q) ==
  /\ \A i \in 1..8 : q[i] \in Bit
  /\ q[1] = 1 /\ q[7] = 0 /\ q[8] = 1
  /\ q[6] = (q[2] + q[3] + q[4] + q[5]) % 2
  /\ q[2] = 0 \/ q[3] = 0 \/ q[4] = 0 \/ q[5] = 0 \/ q[6] = 0

\* A target that hears each of the j bits sent as the one it is.
Aimed(t, q, j) ==
  \/ j = 0 /\ t.at = "idle"
  \/ j \in 1..7 /\ t.at = "request" /\ Taken(t) = j /\ \A i \in 1..j : t.bits[i] = q[i]
  \/ j = 8 /\ t.at = "answer" /\ t.n = 0 /\ (t.read <=> q[3] = 1)

\* One that does not, and will not answer: it takes the ones before a request for
\* it, misses its start bit, heard a start bit before it, or has a bit wrong.
SixOnes(t) == t.at = "request" /\ Taken(t) >= 6 /\ AllOnes(t.bits, 6)
Missed(t, j, z) == t.at = "idle" /\ j \in 1..7 /\ z
Late(t, q, j, z) ==
  /\ t.at = "request" /\ Taken(t) < j /\ z /\ t.bits[1] = 1
  /\ \A i \in 1..Taken(t) : t.bits[i] = q[j - Taken(t) + i]
Early(t, q, j, z) ==
  /\ t.at = "request" /\ Taken(t) = j + 1 /\ t.bits[1] = 1
  /\ ~z => \A i \in 1..j : t.bits[i + 1] = q[i]
Bent(t, q, j, z) ==
  /\ t.at = "request" /\ Taken(t) = j /\ z
  /\ \E e \in 2..j : /\ t.bits[e] # q[e]
                     /\ \A i \in 1..j : i # e => t.bits[i] = q[i]
Astray(t, q, j, z) ==
  \/ t.at = "lost" \/ SixOnes(t) \/ Missed(t, j, z)
  \/ Late(t, q, j, z) \/ Early(t, q, j, z) \/ Bent(t, q, j, z)

\* The ones in a row a target has heard.
Quieted(t, q, j, z) ==
  /\ j <= 6 => t.ones <= Width + 11 + j
  /\ ~z => \A i \in 2..j : q[i] = 0 => t.ones <= j - i
  /\ j >= 7 => t.ones <= j - 2

\* A flipped bit is the other one.
LEMMA FlipIs ==
  ASSUME NEW b \in Bit, NEW f \in BOOLEAN
  PROVE  /\ Flip(b, f) \in Bit
         /\ f => Flip(b, f) # b
         /\ ~f => Flip(b, f) = b
BY DEF Flip, Bit

\* The count of ones over an edge that does not reset the line.
LEMMA EdgeOnes ==
  ASSUME NEW t, NEW b, NEW u, Edge(t, b, u), Counted(t, b) < ResetOnes
  PROVE  /\ ~(Counted(t, b) >= ResetOnes)
         /\ u.ones = Counted(t, b) /\ u.ones \in Nat /\ t.ones \in Nat
         /\ u.ones <= t.ones + 1
         /\ b = 0 \/ Driving(t) => u.ones = 0
         /\ b = 1 /\ ~Driving(t) => u.ones = t.ones + 1
<1>1. t \in TargetType /\ b \in Bit
  BY DEF Edge
<1>2. t.ones \in Nat /\ ResetOnes \in Nat
  BY <1>1, Sizes DEF TargetType
<1>3. /\ Counted(t, b) \in Nat /\ Counted(t, b) <= t.ones + 1
      /\ b = 0 \/ Driving(t) => Counted(t, b) = 0
      /\ b = 1 /\ ~Driving(t) => Counted(t, b) = t.ones + 1
  BY <1>1, CountedIs
<1>4. ~(Counted(t, b) >= ResetOnes)
  BY <1>2, <1>3
<1>5. u.ones = Counted(t, b)
  BY <1>4 DEF Edge
<1> QED BY <1>2, <1>3, <1>4, <1>5

\* A packet has too few ones in a row for a line reset.
LEMMA QuietedCounts ==
  ASSUME NEW t, NEW u, NEW q, NEW j \in 0..7, NEW z \in BOOLEAN, NEW f \in BOOLEAN,
         f => ~z, IsPacket(q), Edge(t, Flip(q[j + 1], f), u), Quieted(t, q, j, z)
  PROVE  Counted(t, Flip(q[j + 1], f)) < ResetOnes
<1> DEFINE b == Flip(q[j + 1], f)
           n == Counted(t, b)
<1>1. t.ones \in Nat /\ Width \in Nat /\ ResetOnes \in Nat /\ ResetOnes >= Width + 18
  BY Sizes DEF Edge, TargetType
<1>2. j + 1 \in 1..8 /\ q[j + 1] \in Bit
  BY DEF IsPacket
<1>3. b \in Bit /\ (~f => b = q[j + 1])
  BY <1>2, FlipIs
<1>4. n \in Nat /\ n <= t.ones + 1 /\ (b = 0 => n = 0)
  BY <1>3, CountedIs DEF Edge
<1> HIDE DEF n, b
<1>5. (j <= 6 => t.ones <= Width + 11 + j) /\ (j >= 7 => t.ones <= j - 2)
  BY DEF Quieted
<1>6. CASE j <= 5
  <2>1. t.ones <= Width + 16
    BY <1>1, <1>5, <1>6
  <2> QED BY <1>1, <1>4, <2>1 DEF n, b
<1>7. CASE j = 6
  <2>1. CASE f
    <3>1. \A i \in 2..6 : q[i] = 0 => t.ones <= 6 - i
      BY <1>7, <2>1 DEF Quieted
    <3>2. t.ones <= 4
      BY <1>1, <3>1 DEF IsPacket
    <3> QED BY <1>1, <1>4, <3>2 DEF n, b
  <2>2. CASE ~f
    <3>1. n = 0
      BY <1>3, <1>4, <1>7, <2>2 DEF IsPacket
    <3> QED BY <1>1, <3>1 DEF n, b
  <2> QED BY <2>1, <2>2
<1>8. CASE j = 7
  <2>1. t.ones <= 5
    BY <1>5, <1>8
  <2> QED BY <1>1, <1>4, <2>1 DEF n, b
<1> QED BY <1>6, <1>7, <1>8

\* Another bit of the packet: the ones in a row.
LEMMA QuietedStep ==
  ASSUME NEW t, NEW u, NEW q, NEW j \in 0..7, NEW z \in BOOLEAN, NEW f \in BOOLEAN,
         NEW y \in BOOLEAN, y <=> z \/ f, f => ~z, IsPacket(q),
         Edge(t, Flip(q[j + 1], f), u), Quieted(t, q, j, z)
  PROVE  Quieted(u, q, j + 1, y)
<1> DEFINE b == Flip(q[j + 1], f)
<1>1. t.ones \in Nat /\ Width \in Nat /\ ResetOnes \in Nat /\ ResetOnes >= Width + 18
  BY Sizes DEF Edge, TargetType
<1>2. Counted(t, b) < ResetOnes
  BY QuietedCounts
<1>3. /\ u.ones \in Nat /\ u.ones <= t.ones + 1 /\ (b = 0 => u.ones = 0)
  BY <1>2, EdgeOnes
<1>4. j + 1 \in 1..8 /\ q[j + 1] \in Bit
  BY DEF IsPacket
<1>5. /\ b \in Bit /\ (~f => b = q[j + 1])
  BY <1>4, FlipIs
<1> HIDE DEF b
<1>6. j + 1 <= 6 => u.ones <= Width + 11 + (j + 1)
  BY <1>1, <1>3 DEF Quieted
<1>7. ASSUME ~y, NEW i \in 2..(j + 1), q[i] = 0 PROVE u.ones <= (j + 1) - i
  <2>1. CASE i = j + 1
    BY <1>3, <1>5, <1>7, <2>1
  <2>2. CASE i # j + 1
    <3>1. i \in 2..j
      BY <2>2
    <3>2. t.ones <= j - i
      BY <1>7, <3>1 DEF Quieted
    <3> QED BY <1>1, <1>3, <3>2
  <2> QED BY <2>1, <2>2
<1>8. CASE j = 7
  BY <1>1, <1>3, <1>6, <1>7, <1>8 DEF Quieted
<1>9. CASE j = 6
  <2>1. CASE f
    <3>1. \A i \in 2..6 : q[i] = 0 => t.ones <= 6 - i
      BY <1>9, <2>1 DEF Quieted
    <3>2. t.ones <= 4
      BY <1>1, <3>1 DEF IsPacket
    <3>3. u.ones <= 5
      BY <1>1, <1>3, <3>2
    <3> QED BY <1>3, <1>7, <1>9, <3>3 DEF Quieted
  <2>2. CASE ~f
    <3>1. u.ones = 0
      BY <1>3, <1>5, <1>9, <2>2 DEF IsPacket
    <3> QED BY <1>7, <1>9, <3>1 DEF Quieted
  <2> QED BY <2>1, <2>2
<1>10. CASE j < 6
  BY <1>6, <1>7, <1>10 DEF Quieted
<1> QED BY <1>8, <1>9, <1>10

\* Another bit for a target that follows: it does, or the flip leads it astray.
LEMMA AimedStep ==
  ASSUME NEW t, NEW u, NEW q, NEW j \in 0..7, NEW f \in BOOLEAN, NEW y \in BOOLEAN, y <=> f,
         IsPacket(q),
         Edge(t, Flip(q[j + 1], f), u), Counted(t, Flip(q[j + 1], f)) < ResetOnes, Aimed(t, q, j)
  PROVE  IF f THEN Astray(u, q, j + 1, y) ELSE Aimed(u, q, j + 1)
<1> DEFINE b == Flip(q[j + 1], f)
<1>0. Edge(t, b, u)
  OBVIOUS
<1>1. ~(Counted(t, b) >= ResetOnes)
  BY EdgeOnes
<1>2. q[j + 1] \in Bit /\ j + 1 \in 1..8 /\ j \in Int
  BY DEF IsPacket
<1>3. b \in Bit /\ (~f => b = q[j + 1]) /\ (f => b # q[j + 1])
  BY <1>2, FlipIs
<1> HIDE DEF b
<1>4. CASE j = 0
  <2>1. t.at = "idle"
    BY <1>4 DEF Aimed
  <2>2. CASE b = 1
    <3>1. u.at = "request" /\ Taken(u) = 1 /\ u.bits[1] = 1 /\ ~f
      BY <1>0, <1>1, <1>3, <1>4, <2>1, <2>2 DEF Edge, IsPacket
    <3>2. \A i \in 1..1 : u.bits[i] = q[i]
      BY <3>1 DEF IsPacket
    <3> QED BY <1>4, <3>1, <3>2 DEF Aimed
  <2>3. CASE b = 0
    <3>1. u.at = "idle" /\ f
      BY <1>0, <1>1, <1>3, <1>4, <2>1, <2>3 DEF Edge, IsPacket
    <3> QED BY <1>4, <3>1 DEF Astray, Missed
  <2> QED BY <1>3, <2>2, <2>3 DEF Bit
<1>5. CASE j \in 1..6
  <2>1. t.at = "request" /\ Taken(t) = j /\ \A i \in 1..j : t.bits[i] = q[i]
    BY <1>5 DEF Aimed
  <2>2. u.at = "request" /\ Longer(t, b, u)
    BY <1>0, <1>1, <1>5, <2>1 DEF Edge
  <2>3. Taken(u) = j + 1 /\ u.bits[j + 1] = b /\ \A i \in 1..j : u.bits[i] = q[i]
    BY <2>1, <2>2 DEF Longer
  <2>4. CASE f
    <3>1. j + 1 \in 2..(j + 1) /\ u.bits[j + 1] # q[j + 1]
      BY <1>3, <1>5, <2>3, <2>4
    <3>2. \A i \in 1..(j + 1) : i # j + 1 => u.bits[i] = q[i]
      BY <2>3
    <3> QED BY <2>2, <2>3, <2>4, <3>1, <3>2 DEF Astray, Bent
  <2>5. CASE ~f
    <3>1. \A i \in 1..(j + 1) : u.bits[i] = q[i]
      BY <1>3, <2>3, <2>5
    <3> QED BY <1>5, <2>2, <2>3, <2>5, <3>1 DEF Aimed
  <2> QED BY <2>4, <2>5
<1>6. CASE j = 7
  <2>1. t.at = "request" /\ Taken(t) = 7 /\ \A i \in 1..7 : t.bits[i] = q[i]
    BY <1>6 DEF Aimed
  <2>2. \/ u.at = "answer" /\ u.n = 0 /\ Apt(t, b) /\ (u.read <=> t.bits[3] = 1)
        \/ u.at = "lost" /\ ~Apt(t, b)
    BY <1>0, <1>1, <2>1 DEF Edge
  <2>3. Apt(t, b) <=> b = 1
    BY <2>1 DEF Apt, IsPacket
  <2>4. t.bits[3] = q[3] /\ q[8] = 1
    BY <2>1 DEF IsPacket
  <2>5. CASE f
    <3>1. u.at = "lost"
      BY <1>3, <1>6, <2>2, <2>3, <2>4, <2>5
    <3> QED BY <2>5, <3>1 DEF Astray
  <2>6. CASE ~f
    <3>1. u.at = "answer" /\ u.n = 0 /\ (u.read <=> q[3] = 1)
      BY <1>3, <1>6, <2>2, <2>3, <2>4, <2>6
    <3> QED BY <1>6, <2>6, <3>1 DEF Aimed
  <2> QED BY <2>5, <2>6
<1>7. j = 0 \/ j \in 1..6 \/ j = 7
  OBVIOUS
<1> HIDE DEF Astray, Aimed
<1> QED BY <1>4, <1>5, <1>6, <1>7

\* Another bit for a target that is astray: it stays so, whatever it hears, and
\* above all does not answer.
LEMMA AstrayStep ==
  ASSUME NEW t, NEW u, NEW q, NEW j \in 0..7, NEW z \in BOOLEAN, NEW f \in BOOLEAN,
         NEW y \in BOOLEAN, y <=> z \/ f, f => ~z, IsPacket(q), Edge(t, Flip(q[j + 1], f), u),
         Counted(t, Flip(q[j + 1], f)) < ResetOnes, Astray(t, q, j, z)
  PROVE  Astray(u, q, j + 1, y)
<1> DEFINE b == Flip(q[j + 1], f)
           k == Taken(t)
<1>0. Edge(t, b, u)
  OBVIOUS
<1>1. ~(Counted(t, b) >= ResetOnes)
  BY EdgeOnes
<1>2. q[j + 1] \in Bit /\ j + 1 \in 1..8 /\ j \in Int
  BY DEF IsPacket
<1>3. b \in Bit /\ (~f => b = q[j + 1]) /\ (f => b # q[j + 1])
  BY <1>2, FlipIs
<1>4. k \in Nat /\ (t.at = "request" => k \in 1..7) /\ \A i \in 1..k : t.bits[i] \in Bit
  <2>1. t \in TargetType /\ Formed(t)
    BY DEF Edge
  <2> QED BY <2>1, TakenIs DEF Formed
<1>5. ASSUME t.at = "request", k < 7
      PROVE  /\ u.at = "request" /\ Taken(u) = k + 1 /\ u.bits[k + 1] = b
             /\ \A i \in 1..k : u.bits[i] = t.bits[i]
  <2>1. u.at = "request" /\ Longer(t, b, u)
    BY <1>0, <1>1, <1>5 DEF Edge
  <2> QED BY <2>1 DEF Longer
<1>6. ASSUME t.at = "request", k = 7, ~Apt(t, b)
      PROVE  u.at = "lost"
  BY <1>0, <1>1, <1>6 DEF Edge
<1> HIDE DEF b, k
<1>7. CASE t.at = "lost"
  BY <1>0, <1>1, <1>7 DEF Edge, Astray
<1>8. CASE SixOnes(t)
  <2>1. CASE k < 7
    <3>1. u.at = "request" /\ Taken(u) >= 6 /\ AllOnes(u.bits, 6)
      BY <1>4, <1>5, <1>8, <2>1 DEF SixOnes, AllOnes, k
    <3> QED BY <3>1 DEF Astray, SixOnes
  <2>2. CASE k = 7
    <3>1. ~Apt(t, b)
      BY <1>8 DEF SixOnes, AllOnes, Apt
    <3> QED BY <1>6, <1>8, <2>2, <3>1 DEF Astray, SixOnes
  <2> QED BY <1>4, <1>8, <2>1, <2>2 DEF SixOnes
<1>9. CASE Missed(t, j, z)
  <2>1. t.at = "idle" /\ j \in 1..7 /\ z /\ ~f
    BY <1>9 DEF Missed
  <2>2. CASE b = 0
    <3>1. u.at = "idle"
      BY <1>0, <1>1, <2>1, <2>2 DEF Edge
    <3>2. j + 1 \in 1..7
      BY <1>3, <2>1, <2>2 DEF IsPacket
    <3> QED BY <2>1, <3>1, <3>2 DEF Astray, Missed
  <2>3. CASE b = 1
    <3>1. u.at = "request" /\ Taken(u) = 1 /\ u.bits[1] = 1
      BY <1>0, <1>1, <2>1, <2>3 DEF Edge
    <3>2. \A i \in 1..1 : u.bits[i] = q[(j + 1) - 1 + i]
      BY <1>2, <1>3, <2>1, <2>3, <3>1
    <3>3. y /\ Taken(u) < j + 1
      BY <2>1, <3>1
    <3>4. Late(u, q, j + 1, y)
      BY <3>1, <3>2, <3>3 DEF Late
    <3> QED BY <3>4 DEF Astray
  <2> QED BY <1>3, <2>2, <2>3 DEF Bit
<1>10. CASE Late(t, q, j, z)
  <2>1. /\ t.at = "request" /\ k < j /\ z /\ ~f /\ t.bits[1] = 1
        /\ \A i \in 1..k : t.bits[i] = q[j - k + i]
    BY <1>10 DEF Late, k
  <2>2. /\ u.at = "request" /\ Taken(u) = k + 1 /\ u.bits[k + 1] = b
        /\ \A i \in 1..k : u.bits[i] = t.bits[i]
    BY <1>4, <1>5, <2>1
  <2>3. u.bits[1] = 1
    BY <1>4, <2>1, <2>2
  <2>4. \A i \in 1..(k + 1) : u.bits[i] = q[(j + 1) - (k + 1) + i]
    <3> TAKE i \in 1..(k + 1)
    <3>1. CASE i = k + 1
      BY <1>2, <1>3, <1>4, <2>1, <2>2, <3>1
    <3>2. CASE i \in 1..k
      BY <1>2, <1>4, <2>1, <2>2, <3>2
    <3> QED BY <1>4, <3>1, <3>2
  <2>5. y /\ Taken(u) < j + 1
    BY <1>2, <1>4, <2>1, <2>2
  <2>6. Late(u, q, j + 1, y)
    BY <2>2, <2>3, <2>4, <2>5 DEF Late
  <2> QED BY <2>6 DEF Astray
<1>11. CASE Early(t, q, j, z)
  <2>1. /\ t.at = "request" /\ k = j + 1 /\ t.bits[1] = 1
        /\ ~z => \A i \in 1..j : t.bits[i + 1] = q[i]
    BY <1>11 DEF Early, k
  <2>2. CASE k < 7
    <3>2. /\ u.at = "request" /\ Taken(u) = k + 1 /\ u.bits[k + 1] = b
          /\ \A i \in 1..k : u.bits[i] = t.bits[i]
      BY <1>5, <2>1, <2>2
    <3>3. u.bits[1] = 1
      BY <1>4, <2>1, <3>2
    <3>4. ~y => \A i \in 1..(j + 1) : u.bits[i + 1] = q[i]
      <4> SUFFICES ASSUME ~y, NEW i \in 1..(j + 1) PROVE u.bits[i + 1] = q[i]
        OBVIOUS
      <4>1. CASE i = j + 1
        BY <1>3, <2>1, <3>2, <4>1
      <4>2. CASE i \in 1..j
        <5>1. i + 1 \in 1..k
          BY <2>1, <4>2
        <5> QED BY <2>1, <3>2, <4>2, <5>1
      <4> QED BY <4>1, <4>2
    <3> QED BY <1>2, <2>1, <3>2, <3>3, <3>4 DEF Astray, Early
  <2>3. CASE k = 7
    <3>1. j = 6 /\ q[7] = 0
      BY <2>1, <2>3 DEF IsPacket
    <3>2. ~Apt(t, b)
      <4>1. CASE ~f
        BY <1>3, <3>1, <4>1 DEF Apt
      <4>2. CASE f
        <5>1. \A i \in 1..6 : t.bits[i + 1] = q[i]
          BY <2>1, <3>1, <4>2
        <5>2. /\ t.bits[2] = q[1] /\ t.bits[3] = q[2] /\ t.bits[4] = q[3]
              /\ t.bits[5] = q[4] /\ t.bits[6] = q[5] /\ t.bits[7] = q[6]
          BY <5>1
        <5>3. q[2] \in Bit /\ q[3] \in Bit /\ q[4] \in Bit /\ q[5] \in Bit /\ q[6] \in Bit
          BY DEF IsPacket
        <5> QED BY <5>2, <5>3 DEF Apt, IsPacket, Bit
      <4> QED BY <4>1, <4>2
    <3> QED BY <1>6, <2>1, <2>3, <3>2 DEF Astray
  <2> QED BY <1>4, <2>1, <2>2, <2>3
<1>12. CASE Bent(t, q, j, z)
  <2>1. t.at = "request" /\ k = j /\ z /\ ~f
    BY <1>12 DEF Bent, k
  <2>2. PICK e \in 2..j : t.bits[e] # q[e] /\ \A i \in 1..j : i # e => t.bits[i] = q[i]
    BY <1>12 DEF Bent
  <2>3. CASE k < 7
    <3>2. /\ u.at = "request" /\ Taken(u) = k + 1 /\ u.bits[k + 1] = b
          /\ \A i \in 1..k : u.bits[i] = t.bits[i]
      BY <1>5, <2>1, <2>3
    <3>3. e \in 2..(j + 1) /\ u.bits[e] # q[e]
      BY <1>2, <2>1, <2>2, <3>2
    <3>4. \A i \in 1..(j + 1) : i # e => u.bits[i] = q[i]
      <4> TAKE i \in 1..(j + 1)
      <4>1. CASE i = j + 1
        BY <1>3, <2>1, <3>2, <4>1
      <4>2. CASE i \in 1..j
        BY <2>1, <2>2, <3>2, <4>2
      <4> QED BY <4>1, <4>2
    <3> QED BY <1>2, <2>1, <3>2, <3>3, <3>4 DEF Astray, Bent
  <2>4. CASE k = 7
    <3>1. j = 7
      BY <2>1, <2>4
    <3>2. /\ t.bits[2] \in Bit /\ t.bits[3] \in Bit /\ t.bits[4] \in Bit /\ t.bits[5] \in Bit
          /\ t.bits[6] \in Bit
      BY <1>4, <2>4
    <3>3. q[2] \in Bit /\ q[3] \in Bit /\ q[4] \in Bit /\ q[5] \in Bit /\ q[6] \in Bit
      BY DEF IsPacket
    <3>4. /\ e # 2 => t.bits[2] = q[2]
          /\ e # 3 => t.bits[3] = q[3]
          /\ e # 4 => t.bits[4] = q[4]
          /\ e # 5 => t.bits[5] = q[5]
          /\ e # 6 => t.bits[6] = q[6]
          /\ e # 7 => t.bits[7] = q[7]
      BY <2>2, <3>1
    <3>5. e \in 2..7 /\ t.bits[e] # q[e]
      BY <2>2, <3>1
    <3>6. ~Apt(t, b)
      BY <3>2, <3>3, <3>4, <3>5 DEF Apt, IsPacket, Bit
    <3> QED BY <1>6, <2>1, <2>4, <3>6 DEF Astray
  <2>5. k < 7 \/ k = 7
    BY <1>4, <2>1
  <2> QED BY <2>3, <2>4, <2>5, Zenon
<1> QED BY <1>7, <1>8, <1>9, <1>10, <1>11, <1>12 DEF Astray

-----------------------------------------------------------------------------
(* A word, bit by bit, to the target or from it. *)

\* Of the first n bits, at most one is not the word's, and none without a flip.
Differs(s, w, i) == i <= Width + 1 /\ s[i] # Code(w)[i]
NearCode(s, w, n, z) ==
  /\ ~z => \A i \in 1..n : ~Differs(s, w, i)
  /\ \A i, k \in 1..n : Differs(s, w, i) /\ Differs(s, w, k) => i = k

\* Another bit of a word, flipped or not.
LEMMA NearStep ==
  ASSUME NEW w, NEW s, NEW r, NEW n \in Nat, NEW z \in BOOLEAN, NEW f \in BOOLEAN,
         NEW y \in BOOLEAN, y <=> z \/ f, f => ~z,
         NearCode(s, w, n, z), \A i \in 1..n : r[i] = s[i],
         n <= Width => (~f => r[n + 1] = Code(w)[n + 1])
  PROVE  NearCode(r, w, n + 1, y)
<1> DEFINE d(i) == Differs(s, w, i)
           e(i) == Differs(r, w, i)
<1>0. Width \in Nat
  BY Sizes
<1>1. \A i \in 1..n : d(i) <=> e(i)
  BY DEF Differs
<1>2. ~f => ~e(n + 1)
  BY <1>0 DEF Differs
<1>3. ~z => \A i \in 1..n : ~d(i)
  BY DEF NearCode
<1>4. ASSUME NEW i \in 1..n, NEW k \in 1..n, d(i), d(k) PROVE i = k
  BY <1>4 DEF NearCode
<1> HIDE DEF d, e
<1>5. ASSUME ~y, NEW i \in 1..(n + 1) PROVE ~e(i)
  <2>1. CASE i = n + 1
    BY <1>2, <1>5, <2>1
  <2>2. CASE i \in 1..n
    BY <1>1, <1>3, <1>5, <2>2
  <2> QED BY <2>1, <2>2
<1>6. ASSUME NEW i \in 1..(n + 1), NEW k \in 1..(n + 1), e(i), e(k)
      PROVE i = k
  <2>1. CASE i \in 1..n /\ k \in 1..n
    BY <1>1, <1>4, <1>6, <2>1
  <2>2. CASE i = n + 1 /\ k \in 1..n
    BY <1>1, <1>2, <1>3, <1>6, <2>2
  <2>3. CASE k = n + 1 /\ i \in 1..n
    BY <1>1, <1>2, <1>3, <1>6, <2>3
  <2> QED BY <2>1, <2>2, <2>3
<1>7. ~y => \A i \in 1..(n + 1) : ~e(i)
  BY <1>5
<1>8. \A i, k \in 1..(n + 1) : e(i) /\ e(k) => i = k
  BY <1>6
<1> QED BY <1>7, <1>8, Zenon DEF NearCode, e

\* A word that passes its parity is the one that was sent.
LEMMA NearDetected ==
  ASSUME NEW w \in [1..Width -> Bit], NEW s \in Seq(Bit), NEW n \in Nat, NEW z,
         Len(s) >= Width + 1, n >= Width + 1, NearCode(s, w, n, z),
         Parity(SubSeq(s, 1, Width)) = s[Width + 1]
  PROVE  SubSeq(s, 1, Width) = w
<1>1. \A i, j \in 1..(Width + 1) : s[i] # Code(w)[i] /\ s[j] # Code(w)[j] => i = j
  <2> SUFFICES ASSUME NEW i \in 1..(Width + 1), NEW j \in 1..(Width + 1),
                      s[i] # Code(w)[i], s[j] # Code(w)[j]
               PROVE  i = j
    OBVIOUS
  <2>1. i \in 1..n /\ j \in 1..n /\ i <= Width + 1 /\ j <= Width + 1
    BY Sizes
  <2>2. Differs(s, w, i) /\ Differs(s, w, j)
    BY <2>1 DEF Differs
  <2> QED BY <2>1, <2>2 DEF NearCode
<1> QED BY <1>1, FlipDetected

\* What follows an accepted write, after j of its bits.
Written(t, w, j, z) ==
  /\ j <= Width => t.at = "write" /\ Taken(t) = j /\ NearCode(t.bits, w, j, z)
  /\ j > Width => t.at = "idle" /\ t.word \in {w, <<>>}

\* Another bit of write_data_phase: the word is in after the parity, and the
\* padding leaves the target idle.
LEMMA WrittenStep ==
  ASSUME NEW t, NEW u, NEW w \in [1..Width -> Bit], NEW j \in Nat, NEW b \in Bit,
         NEW z \in BOOLEAN, NEW f \in BOOLEAN,
         NEW y \in BOOLEAN, y <=> z \/ f, f => ~z,
         j <= Width => (~f => b = Code(w)[j + 1]),
         j > Width => b = 0,
         Edge(t, b, u), Counted(t, b) < ResetOnes, Written(t, w, j, z)
  PROVE  Written(u, w, j + 1, y)
<1>0. Width \in Nat /\ ~(Counted(t, b) >= ResetOnes)
  BY Sizes, EdgeOnes
<1>1. CASE j < Width
  <2>1. t.at = "write" /\ Taken(t) = j /\ NearCode(t.bits, w, j, z)
    BY <1>0, <1>1 DEF Written
  <2>2. u.at = "write" /\ Longer(t, b, u)
    BY <1>0, <1>1, <2>1 DEF Edge
  <2>3. Taken(u) = j + 1 /\ u.bits[j + 1] = b /\ \A i \in 1..j : u.bits[i] = t.bits[i]
    BY <2>1, <2>2 DEF Longer
  <2> DEFINE s == t.bits
             r == u.bits
  <2>4. NearCode(s, w, j, z) /\ r[j + 1] = b /\ \A i \in 1..j : r[i] = s[i]
    BY <2>1, <2>3
  <2> HIDE DEF s, r
  <2>0. j <= Width => (~f => r[j + 1] = Code(w)[j + 1])
    BY <2>4
  <2>5. NearCode(r, w, j + 1, y)
    BY <1>0, <2>0, <2>4, NearStep, Zenon
  <2> QED BY <1>0, <1>1, <2>2, <2>3, <2>5 DEF Written, r
<1>2. CASE j = Width
  <2>1. t.at = "write" /\ Taken(t) = Width /\ NearCode(t.bits, w, Width, z)
    BY <1>0, <1>2 DEF Written
  <2>2. u.at = "idle" /\ u.word = IF Parity(t.bits) = b THEN t.bits ELSE <<>>
    BY <1>0, <2>1 DEF Edge
  <2>3. t.bits \in Seq(Bit) /\ Len(t.bits) = Width
    BY <2>1, TakenIs DEF Edge
  <2> DEFINE s == t.bits
             r == Append(s, b)
             v == SubSeq(r, 1, Width)
  <2>4. s \in Seq(Bit) /\ Len(s) = Width /\ NearCode(s, w, Width, z)
    BY <2>1, <2>3
  <2> HIDE DEF s
  <2>5. /\ r \in Seq(Bit) /\ Len(r) = Width + 1 /\ r[Width + 1] = b
        /\ \A i \in 1..Width : r[i] = s[i]
    BY <2>4, AppendIs
  <2> HIDE DEF r
  <2>6. NearCode(r, w, Width + 1, y)
    BY <1>0, <1>2, <2>4, <2>5, NearStep
  <2>7. v = s
    <3>1. 1 \in 1..Len(r) + 1 /\ Width \in (1 - 1)..Len(r) /\ Width - 1 + 1 = Width
      BY <1>0, <2>5
    <3>2. /\ v \in Seq(Bit) /\ Len(v) = Width
          /\ \A i \in 1..Width : v[i] = r[1 + i - 1]
      BY <2>5, <3>1, SubSeqIs
    <3> HIDE DEF v
    <3>3. \A i \in 1..Width : v[i] = s[i]
      BY <1>0, <2>5, <3>2
    <3> QED BY <2>4, <3>2, <3>3, SeqEqual
  <2>8. Parity(s) = b => s = w
    <3> HAVE Parity(s) = b
    <3>1. Parity(v) = r[Width + 1]
      BY <2>5, <2>7
    <3>2. Width + 1 \in Nat /\ Width + 1 >= Width + 1 /\ Len(r) >= Width + 1
      BY <1>0, <2>5
    <3>3. SubSeq(r, 1, Width) = w
      BY <2>5, <2>6, <3>1, <3>2, NearDetected
    <3> QED BY <2>7, <3>3
  <2>9. u.word \in {w, <<>>}
    BY <2>2, <2>8 DEF s
  <2> QED BY <1>0, <1>2, <2>2, <2>9 DEF Written
<1>3. CASE j > Width
  <2>1. t.at = "idle" /\ t.word \in {w, <<>>} /\ b = 0
    BY <1>3 DEF Written
  <2>2. u.at = "idle" /\ Kept(t, u)
    BY <1>0, <2>1 DEF Edge
  <2>3. u.word = t.word
    BY <2>2 DEF Kept
  <2> QED BY <1>0, <1>3, <2>1, <2>2, <2>3 DEF Written
<1> QED BY <1>0, <1>1, <1>2, <1>3

\* The bits of write_data_phase: the word, its parity, and zeros.
LEMMA WritePhaseIs ==
  ASSUME NEW w \in [1..Width -> Bit]
  PROVE  LET s == WritePhase(w) IN
         /\ s \in Seq(Bit) /\ Len(s) \in Nat /\ Len(s) >= Width + 1
         /\ Len(s) <= Width + 1 + Padding
         /\ \A i \in 1..(Width + 1) : s[i] = Code(w)[i]
         /\ \A i \in (Width + 2)..Len(s) : s[i] = 0
<1> DEFINE c == Code(w)
           p == IF engine = "Hardware" THEN Zeros(Padding) ELSE <<>>
           s == c \o p
<1>1. c \in Seq(Bit) /\ Len(c) = Width + 1
  BY CodeIs
<1>2. p \in Seq(Bit) /\ Len(p) \in Nat /\ Len(p) <= Padding /\ \A i \in 1..Len(p) : p[i] = 0
  BY Sizes DEF Zeros, Bit
<1>3. WritePhase(w) = s
  BY DEF WritePhase, Code
<1> HIDE DEF c, p
<1>4. /\ s \in Seq(Bit) /\ Len(s) = Len(c) + Len(p)
      /\ \A i \in 1..Len(c) : s[i] = c[i]
      /\ \A i \in 1..Len(p) : s[Len(c) + i] = p[i]
  BY <1>1, <1>2, Joined
<1> HIDE DEF s
<1>5. \A i \in (Width + 2)..Len(s) : s[i] = 0
  <2> TAKE i \in (Width + 2)..Len(s)
  <2>1. i - (Width + 1) \in 1..Len(p) /\ Len(c) + (i - (Width + 1)) = i
    BY <1>1, <1>2, <1>4, Sizes
  <2> QED BY <1>2, <1>4, <2>1
<1>6. /\ Len(s) \in Nat /\ Len(s) >= Width + 1 /\ Len(s) <= Width + 1 + Padding
      /\ \A i \in 1..(Width + 1) : s[i] = c[i]
  BY <1>1, <1>2, <1>4, Sizes
<1> QED BY <1>3, <1>4, <1>5, <1>6 DEF c

-----------------------------------------------------------------------------
(* A line reset, bit by bit. *)

\* The packet of a target that might take the next one for its stop bit.
Nearly(t) == t.at = "request" /\ Taken(t) = 7 /\ t.bits[7] = 0

\* A target that ones will not make answer.
Harmless(t) == t.at # "answer" /\ (Nearly(t) => AllOnes(t.bits, 6))

\* One that has stopped for ones to be all it will hear.
Calm(t) == t.at # "answer" /\ (t.at = "request" => AllOnes(t.bits, Taken(t)))

\* The ones it can hear before it is lost or its line is reset.
Ends(t) ==
  CASE t.at \in {"lost", "reset"} -> 0
    [] t.at = "request" -> IF Nearly(t) THEN Width + 15 ELSE 8 - Taken(t)
    [] t.at = "idle" -> 8
    [] t.at = "write" -> Width + 9 - Taken(t)
    [] t.at = "back" -> IF Accepts(t) /\ ~t.read THEN Width + 10 ELSE 9
    [] t.at = "answer" -> Width + 14 - t.n

\* After j bits of the sequence; x, what troubles it.
Resetting(t, j, x) ==
  /\ j <= LineOnes => Ends(t) <= LineOnes - j
  /\ j > LineOnes /\ j <= LineOnes + 16 =>
       /\ t.ones < j - LineOnes
       /\ \/ t.at = "lost"
          \/ j = LineOnes + 1 /\ t.at = "idle"
          \/ /\ j - LineOnes \in 2..8 /\ t.at = "request" /\ Taken(t) = j - LineOnes - 1
             /\ \A i \in 1..(j - LineOnes - 1) : t.bits[i] = SwitchWord[i + 1]
  /\ j > LineOnes + 16 /\ j <= 2 * LineOnes + 16 =>
       \/ t.at = "lost" /\ (x # "restarted" => t.ones >= j - LineOnes - 16)
       \/ t.at = "reset"
  /\ j > 2 * LineOnes + 16 =>
       t.ones = 0 /\ (t.at = "idle" \/ (t.at = "lost" /\ x = "restarted"))

\* A 1 leaves such a target as it is.
LEMMA HarmlessStep ==
  ASSUME NEW t, NEW u, Edge(t, 1, u), Harmless(t) PROVE Harmless(u)
<1>1. CASE Counted(t, 1) >= ResetOnes
  BY <1>1 DEF Edge, Harmless, Nearly
<1>2. CASE ~(Counted(t, 1) >= ResetOnes)
  <2>1. CASE t.at = "request" /\ Taken(t) = 7
    <3>1. ~Apt(t, 1)
      BY <2>1 DEF Harmless, Nearly, AllOnes, Apt
    <3> QED BY <1>2, <2>1, <3>1 DEF Edge, Harmless, Nearly
  <2>2. CASE t.at = "request" /\ Taken(t) < 7
    <3>1. Longer(t, 1, u) /\ u.at = "request"
      BY <1>2, <2>2 DEF Edge
    <3>2. Taken(u) = 7 => u.bits[7] = 1
      <4>1. Taken(u) = Taken(t) + 1 /\ u.bits[Taken(t) + 1] = 1
        BY <3>1 DEF Longer
      <4> QED BY <4>1
    <3> QED BY <3>1, <3>2 DEF Harmless, Nearly
  <2>3. CASE t.at \in {"reset", "idle"}
    BY <1>2, <2>3 DEF Edge, Harmless, Nearly
  <2>4. CASE t.at = "back"
    BY <1>2, <2>4 DEF Edge, Harmless, Nearly
  <2>5. CASE t.at = "lost"
    BY <1>2, <2>5 DEF Edge, Harmless, Nearly
  <2>6. CASE t.at = "write"
    <3>1. Taken(t) < Width \/ Taken(t) = Width
      <4>1. Taken(t) \in Nat /\ Taken(t) <= Width /\ Width \in Nat
        BY <2>6, TakenIs, Sizes DEF Edge, Formed
      <4> QED BY <4>1
    <3> QED BY <1>2, <2>6, <3>1 DEF Edge, Harmless, Nearly
  <2>7. t.at = "request" => Taken(t) < 7 \/ Taken(t) = 7
    <3>1. t.at = "request" => Taken(t) \in 1..7
      BY DEF Edge, Formed
    <3> QED BY <3>1
  <2>8. t.at # "answer" /\ t.at \in Places
    BY DEF Edge, Harmless, TargetType
  <2> QED BY <2>1, <2>2, <2>3, <2>4, <2>5, <2>6, <2>7, <2>8 DEF Places
<1> QED BY <1>1, <1>2

\* A calm target is harmless.
LEMMA CalmIsHarmless == ASSUME NEW t, Calm(t) PROVE Harmless(t)
<1>1. Nearly(t) => AllOnes(t.bits, 6)
  BY DEF Calm, Nearly, AllOnes
<1> QED BY <1>1 DEF Harmless, Calm

\* An edge of SWCLK while SWDIO is at either level.
LEMMA CalmStep ==
  ASSUME NEW t, NEW u, NEW b, Edge(t, b, u), Calm(t) PROVE Harmless(u)
<1>0. b \in Bit /\ t \in TargetType /\ Formed(t)
  BY DEF Edge
<1>1. CASE b = 1
  BY <1>1, CalmIsHarmless, HarmlessStep
<1>2. CASE b = 0
  <2>1. CASE Counted(t, b) >= ResetOnes
    BY <2>1 DEF Edge, Harmless, Nearly
  <2>2. CASE ~(Counted(t, b) >= ResetOnes)
    <3>1. CASE t.at = "request" /\ Taken(t) = 7
      <4>1. ~Apt(t, b)
        BY <1>2 DEF Apt
      <4> QED BY <2>2, <3>1, <4>1 DEF Edge, Harmless, Nearly
    <3>2. CASE t.at = "request" /\ Taken(t) < 7
      <4>1. u.at = "request" /\ Longer(t, b, u)
        BY <2>2, <3>2 DEF Edge
      <4>2. Nearly(u) => AllOnes(u.bits, 6)
        <5> HAVE Nearly(u)
        <5>1. Taken(u) = Taken(t) + 1 /\ Taken(u) = 7 /\ Taken(t) \in Nat
          BY <1>0, <4>1, TakenIs DEF Longer, Nearly
        <5>2. Taken(t) = 6
          BY <5>1
        <5>3. \A i \in 1..6 : u.bits[i] = t.bits[i] /\ t.bits[i] = 1
          BY <3>2, <4>1, <5>2 DEF Longer, Calm, AllOnes
        <5> QED BY <5>3 DEF AllOnes
      <4> QED BY <4>1, <4>2 DEF Harmless
    <3>3. CASE t.at \in {"reset", "idle", "lost", "back"}
      BY <1>2, <2>2, <3>3 DEF Edge, Harmless, Nearly
    <3>6. CASE t.at = "write"
      <4>1. Taken(t) < Width \/ Taken(t) = Width
        <5>1. Taken(t) \in Nat /\ Taken(t) <= Width /\ Width \in Nat
          BY <1>0, <3>6, TakenIs, Sizes DEF Formed
        <5> QED BY <5>1
      <4> QED BY <2>2, <3>6, <4>1 DEF Edge, Harmless, Nearly
    <3>7. t.at = "request" => Taken(t) < 7 \/ Taken(t) = 7
      <4>1. t.at = "request" => Taken(t) \in 1..7
        BY <1>0 DEF Formed
      <4> QED BY <4>1
    <3>8. t.at # "answer" /\ t.at \in Places
      BY <1>0 DEF Calm, TargetType
    <3> QED BY <3>1, <3>2, <3>3, <3>6, <3>7, <3>8 DEF Places
  <2> QED BY <2>1, <2>2
<1> QED BY <1>0, <1>1, <1>2 DEF Bit

\* The bound Ends puts on each place.
LEMMA EndsIs ==
  ASSUME NEW t \in TargetType, Formed(t)
  PROVE  /\ t.at \in {"lost", "reset"} => Ends(t) = 0
         /\ t.at = "request" =>
              /\ Nearly(t) => Ends(t) = Width + 15
              /\ ~Nearly(t) => Ends(t) = 8 - Taken(t)
         /\ t.at = "idle" => Ends(t) = 8
         /\ t.at = "write" => Ends(t) = Width + 9 - Taken(t)
         /\ t.at = "back" => Ends(t) = IF Accepts(t) /\ ~t.read THEN Width + 10 ELSE 9
         /\ t.at = "answer" => Ends(t) = Width + 14 - t.n
         /\ Ends(t) \in 0..(Width + 15)
         /\ Ends(t) = 0 => t.at \in {"lost", "reset"}
<1>1. /\ t.at \in {"lost", "reset"} => Ends(t) = 0
      /\ t.at = "idle" => Ends(t) = 8
      /\ t.at = "write" => Ends(t) = Width + 9 - Taken(t)
      /\ t.at = "answer" => Ends(t) = Width + 14 - t.n
  BY DEF Ends
<1>2. t.at = "back" => Ends(t) = IF Accepts(t) /\ ~t.read THEN Width + 10 ELSE 9
  BY DEF Ends
<1>3. t.at = "request" =>
        /\ Nearly(t) => Ends(t) = Width + 15
        /\ ~Nearly(t) => Ends(t) = 8 - Taken(t)
  BY DEF Ends
<1>4. /\ Taken(t) \in Nat /\ Width \in Nat \ {0} /\ t.n \in 0..(Width + 4)
      /\ t.at = "request" => Taken(t) \in 1..7
      /\ t.at = "write" => Taken(t) <= Width
      /\ t.at \in Places
  BY TakenIs, Sizes DEF TargetType, Formed
<1>5. CASE t.at = "request"
  BY <1>3, <1>4, <1>5
<1>6. CASE t.at = "back"
  BY <1>2, <1>4, <1>6
<1>7. CASE t.at \in {"lost", "reset", "idle", "write", "answer"}
  BY <1>1, <1>4, <1>7
<1> QED BY <1>1, <1>2, <1>3, <1>4, <1>5, <1>6, <1>7 DEF Places

\* Another 1 brings the end nearer.
LEMMA EndsStep ==
  ASSUME NEW t, NEW u, Edge(t, 1, u)
  PROVE  /\ Ends(u) \in Nat /\ Ends(t) \in Nat
         /\ Ends(u) = 0 \/ Ends(u) <= Ends(t) - 1
<1>0. t \in TargetType /\ Formed(t) /\ u \in TargetType /\ Formed(u)
  BY DEF Edge
<1>1. /\ Ends(t) \in 0..(Width + 15) /\ Ends(u) \in 0..(Width + 15)
      /\ Width \in Nat \ {0} /\ Taken(t) \in Nat
  BY <1>0, EndsIs, Sizes, TakenIs
<1>2. Ends(t) \in Nat /\ Ends(u) \in Nat
  BY <1>1
<1>3. CASE Counted(t, 1) >= ResetOnes
  <2>1. u.at = "reset"
    BY <1>3 DEF Edge
  <2> QED BY <1>0, <1>2, <2>1, EndsIs
<1>4. CASE ~(Counted(t, 1) >= ResetOnes)
  <2>1. CASE t.at = "lost"
    <3>1. u.at = "lost"
      BY <1>4, <2>1 DEF Edge
    <3> QED BY <1>0, <1>2, <3>1, EndsIs
  <2>2. CASE t.at = "reset"
    <3>1. ~Driving(t) /\ t.ones = ResetOnes /\ ResetOnes \in Nat
      BY <1>0, <2>2, Sizes DEF Driving, Formed
    <3>2. Counted(t, 1) = t.ones + 1
      BY <3>1 DEF Counted
    <3> QED BY <1>4, <3>1, <3>2
  <2>3. CASE t.at = "idle"
    <3>1. u.at = "request" /\ Taken(u) = 1
      BY <1>4, <2>3 DEF Edge
    <3>2. ~Nearly(u)
      BY <3>1 DEF Nearly
    <3>3. Ends(u) = 8 - Taken(u) /\ Ends(t) = 8
      BY <1>0, <2>3, <3>1, <3>2, EndsIs
    <3> QED BY <1>2, <3>1, <3>3
  <2>4. CASE t.at = "request" /\ Taken(t) < 7
    <3>1. u.at = "request" /\ Longer(t, 1, u)
      BY <1>4, <2>4 DEF Edge
    <3>2. Taken(u) = Taken(t) + 1 /\ u.bits[Taken(t) + 1] = 1
      BY <3>1 DEF Longer
    <3>3. ~Nearly(u) /\ ~Nearly(t)
      BY <1>1, <2>4, <3>2 DEF Nearly
    <3>4. Ends(u) = 8 - Taken(u) /\ Ends(t) = 8 - Taken(t)
      BY <1>0, <2>4, <3>1, <3>3, EndsIs
    <3> QED BY <1>1, <1>2, <2>4, <3>2, <3>4
  <2>5. CASE t.at = "request" /\ Taken(t) = 7
    <3>1. CASE u.at = "lost"
      BY <1>0, <1>2, <3>1, EndsIs
    <3>2. CASE u.at # "lost"
      <4>1. u.at = "answer" /\ u.n = 0 /\ Apt(t, 1)
        BY <1>4, <2>5, <3>2 DEF Edge
      <4>2. Nearly(t)
        BY <2>5, <4>1 DEF Nearly, Apt
      <4>3. Ends(u) = Width + 14 - u.n /\ Ends(t) = Width + 15
        BY <1>0, <2>5, <4>1, <4>2, EndsIs
      <4> QED BY <1>1, <1>2, <4>1, <4>3
    <3> QED BY <3>1, <3>2
  <2>6. CASE t.at = "answer"
    <3>1. Span(t) = 3 \/ (Span(t) = Width + 4 /\ Accepts(t) /\ t.read)
      <4>1. t.word \in Words
        BY <1>0, <2>6 DEF Formed
      <4>2. Span(t) = IF Accepts(t) /\ t.read THEN Width + 4 ELSE 3
        BY <1>0, <4>1, SpanIs
      <4>3. CASE Accepts(t) /\ t.read
        BY <4>2, <4>3, Zenon
      <4>4. CASE ~(Accepts(t) /\ t.read)
        BY <4>2, <4>4
      <4> QED BY <4>3, <4>4, Zenon
    <3>2. t.n \in Nat /\ Ends(t) = Width + 14 - t.n
      BY <1>0, <2>6, EndsIs DEF TargetType
    <3>3. CASE t.n < Span(t) /\ u.at = "answer" /\ u.n = t.n + 1
      <4>1. Ends(u) = Width + 14 - u.n
        BY <1>0, <3>3, EndsIs
      <4> QED BY <1>1, <1>2, <3>2, <3>3, <4>1
    <3>4. CASE t.n = Span(t) /\ u.at = "back"
      <4>1. Kept(t, u)
        BY <1>4, <2>6 DEF Edge
      <4>2. Ends(u) = IF Accepts(t) /\ ~t.read THEN Width + 10 ELSE 9
        BY <1>0, <3>4, <4>1, EndsIs DEF Kept, Accepts
      <4> QED BY <1>1, <1>2, <3>1, <3>2, <3>4, <4>2
    <3> QED BY <1>4, <2>6, <3>3, <3>4 DEF Edge
  <2>7. CASE t.at = "back"
    <3>1. u.at = (IF Accepts(t) /\ ~t.read THEN "write" ELSE "idle") /\ Taken(u) = 0
      BY <1>4, <2>7 DEF Edge
    <3>2. Ends(t) = IF Accepts(t) /\ ~t.read THEN Width + 10 ELSE 9
      BY <1>0, <2>7, EndsIs
    <3>3. /\ u.at = "write" => Ends(u) = Width + 9 - Taken(u)
          /\ u.at = "idle" => Ends(u) = 8
      BY <1>0, EndsIs
    <3> QED BY <1>1, <1>2, <3>1, <3>2, <3>3
  <2>8. CASE t.at = "write" /\ Taken(t) < Width
    <3>1. u.at = "write" /\ Longer(t, 1, u)
      BY <1>4, <2>8 DEF Edge
    <3>2. Ends(u) = Width + 9 - Taken(u) /\ Ends(t) = Width + 9 - Taken(t)
      BY <1>0, <2>8, <3>1, EndsIs
    <3> QED BY <1>1, <1>2, <2>8, <3>1, <3>2 DEF Longer
  <2>9. CASE t.at = "write" /\ Taken(t) = Width
    <3>1. u.at = "idle"
      BY <1>4, <2>9 DEF Edge
    <3>2. Ends(u) = 8 /\ Ends(t) = Width + 9 - Taken(t)
      BY <1>0, <2>9, <3>1, EndsIs
    <3> QED BY <1>1, <1>2, <2>9, <3>2
  <2>10. /\ t.at \in Places
         /\ t.at = "request" => Taken(t) < 7 \/ Taken(t) = 7
         /\ t.at = "write" => Taken(t) < Width \/ Taken(t) = Width
    <3>1. /\ t.at \in Places /\ (t.at = "request" => Taken(t) \in 1..7)
          /\ t.at = "write" => Taken(t) <= Width
      BY <1>0 DEF Formed, TargetType
    <3> QED BY <1>1, <3>1
  <2> QED BY <2>1, <2>2, <2>3, <2>4, <2>5, <2>6, <2>7, <2>8, <2>9, <2>10 DEF Places
<1> QED BY <1>3, <1>4

\* A line reset may begin with a target in any place.
LEMMA ResettingBegins ==
  ASSUME NEW t \in TargetType, Formed(t), NEW x PROVE Resetting(t, 0, x)
<1>1. Ends(t) \in 0..(Width + 15) /\ LineOnes \in Nat /\ Width \in Nat /\ LineOnes >= Width + 18
  BY EndsIs, Sizes
<1> QED BY <1>1 DEF Resetting

\* A target that restarts meanwhile stays lost.
LEMMA ResettingRestarts ==
  ASSUME NEW t \in TargetType, Formed(t), t.at = "lost", t.ones = 0,
         NEW j \in 0..(2 * LineOnes + 24)
  PROVE  Resetting(t, j, "restarted")
<1>1. Ends(t) = 0 /\ LineOnes \in Nat
  BY EndsIs, Sizes
<1> QED BY <1>1 DEF Resetting

\* After the sequence the target waits for a start bit, unless it restarted in it.
LEMMA ResettingEnds ==
  ASSUME NEW t, NEW x, Resetting(t, 2 * LineOnes + 24, x)
  PROVE  t.ones = 0 /\ (t.at = "idle" \/ (t.at = "lost" /\ x = "restarted"))
BY Sizes DEF Resetting

\* Past its first ones a line reset finds no target that answers.
LEMMA ResettingSilent ==
  ASSUME NEW t \in TargetType, Formed(t), NEW x, NEW j \in Nat, j > LineOnes, Resetting(t, j, x)
  PROVE  t.at # "answer"
<1>1. LineOnes \in Nat
  BY Sizes
<1> QED BY <1>1 DEF Resetting

\* Another bit of the sequence.
LEMMA ResettingStep ==
  ASSUME NEW t, NEW u, NEW x, NEW j \in 0..(2 * LineOnes + 23),
         Edge(t, Sequence[j + 1], u), Resetting(t, j, x)
  PROVE  Resetting(u, j + 1, x)
<1> DEFINE b == Sequence[j + 1]
           L == LineOnes
<1>0. Edge(t, b, u)
  OBVIOUS
<1>1. /\ t \in TargetType /\ Formed(t) /\ u \in TargetType /\ Formed(u) /\ b \in Bit
      /\ L \in Nat /\ ResetOnes \in Nat /\ Width \in Nat \ {0}
      /\ L >= ResetOnes /\ ResetOnes >= Width + 18
      /\ t.ones \in Nat /\ u.ones \in Nat /\ j \in Nat
  BY Sizes DEF Edge, TargetType
<1>2. /\ \A i \in 1..L : Sequence[i] = 1
      /\ \A i \in 1..16 : Sequence[L + i] = SwitchWord[i]
      /\ \A i \in 1..L : Sequence[L + 16 + i] = 1
      /\ \A i \in 1..8 : Sequence[2 * L + 16 + i] = 0
  BY SequenceIs
<1>3. j < L => b = 1
  BY <1>1, <1>2
<1>4. j >= L /\ j < L + 16 => b = SwitchWord[j - L + 1]
  <2> HAVE j >= L /\ j < L + 16
  <2>1. j - L + 1 \in 1..16 /\ L + (j - L + 1) = j + 1
    BY <1>1
  <2> QED BY <1>2, <2>1
<1>5. j >= L + 16 /\ j < 2 * L + 16 => b = 1
  <2> HAVE j >= L + 16 /\ j < 2 * L + 16
  <2>1. j + 1 - (L + 16) \in 1..L /\ L + 16 + (j + 1 - (L + 16)) = j + 1
    BY <1>1
  <2> QED BY <1>2, <2>1
<1>6. j >= 2 * L + 16 => b = 0
  <2> HAVE j >= 2 * L + 16
  <2>1. j + 1 - (2 * L + 16) \in 1..8 /\ 2 * L + 16 + (j + 1 - (2 * L + 16)) = j + 1
    BY <1>1
  <2> QED BY <1>2, <2>1
<1>7. /\ Counted(t, b) \in Nat /\ Counted(t, b) <= t.ones + 1
      /\ b = 0 => Counted(t, b) = 0
      /\ b = 1 /\ ~Driving(t) => Counted(t, b) = t.ones + 1
  BY <1>1, CountedIs
<1>8. Counted(t, b) < ResetOnes => u.ones = Counted(t, b) /\ ~(Counted(t, b) >= ResetOnes)
  BY <1>0, <1>1, <1>7 DEF Edge
<1>9. Counted(t, b) >= ResetOnes => u.at = "reset"
  BY <1>0 DEF Edge
<1> HIDE DEF b, L
<1>10. CASE j < L
  <2>1. Ends(t) <= L - j /\ b = 1
    BY <1>1, <1>3, <1>10 DEF Resetting, L
  <2>2. Ends(u) \in Nat /\ Ends(t) \in Nat /\ (Ends(u) = 0 \/ Ends(u) <= Ends(t) - 1)
    BY <1>0, <2>1, EndsStep
  <2>3. Ends(u) <= L - (j + 1)
    BY <1>1, <1>10, <2>1, <2>2
  <2> QED BY <1>1, <1>10, <2>3 DEF Resetting, L
<1>11. CASE j = L
  <2>1. t.at \in {"lost", "reset"}
    <3>1. Ends(t) <= 0
      BY <1>1, <1>11 DEF Resetting, L
    <3> QED BY <1>1, <3>1, EndsIs
  <2>2. b = 0
    BY <1>1, <1>4, <1>11, SwitchIs
  <2>3. u.ones = 0 /\ ~(Counted(t, b) >= ResetOnes)
    BY <1>1, <1>7, <1>8, <2>2
  <2>4. u.at = "lost" \/ u.at = "idle"
    BY <1>0, <2>1, <2>2, <2>3 DEF Edge
  <2> QED BY <1>1, <1>11, <2>3, <2>4 DEF Resetting, L
<1>12. CASE j > L /\ j < L + 16
  <2> DEFINE d == j - L
  <2>0. d \in 1..15 /\ b = SwitchWord[d + 1]
    BY <1>1, <1>4, <1>12
  <2>1. /\ t.ones < d
        /\ \/ t.at = "lost"
           \/ d = 1 /\ t.at = "idle"
           \/ /\ d \in 2..8 /\ t.at = "request" /\ Taken(t) = d - 1
              /\ \A i \in 1..(d - 1) : t.bits[i] = SwitchWord[i + 1]
    BY <1>1, <1>12 DEF Resetting, L
  <2> HIDE DEF d
  <2>2. Counted(t, b) < ResetOnes
    BY <1>1, <1>7, <2>0, <2>1
  <2>3. u.ones < d + 1
    BY <1>1, <1>7, <1>8, <2>0, <2>1, <2>2
  <2>4. \/ u.at = "lost"
        \/ /\ d + 1 \in 2..8 /\ u.at = "request" /\ Taken(u) = d
           /\ \A i \in 1..d : u.bits[i] = SwitchWord[i + 1]
    <3>1. CASE t.at = "lost"
      BY <1>0, <1>8, <2>2, <3>1 DEF Edge
    <3>2. CASE d = 1 /\ t.at = "idle"
      <4>1. b = 1
        BY <2>0, <3>2, SwitchIs
      <4>2. u.at = "request" /\ Taken(u) = 1 /\ u.bits[1] = 1
        BY <1>0, <1>8, <2>2, <3>2, <4>1 DEF Edge
      <4> QED BY <3>2, <4>2, SwitchIs
    <3>3. CASE /\ d \in 2..7 /\ t.at = "request" /\ Taken(t) = d - 1
               /\ \A i \in 1..(d - 1) : t.bits[i] = SwitchWord[i + 1]
      <4>1. u.at = "request" /\ Longer(t, b, u)
        BY <1>0, <1>8, <2>2, <3>3 DEF Edge
      <4>2. Taken(u) = d /\ u.bits[d] = b /\ \A i \in 1..(d - 1) : u.bits[i] = t.bits[i]
        BY <3>3, <4>1 DEF Longer
      <4>3. \A i \in 1..d : u.bits[i] = SwitchWord[i + 1]
        <5> TAKE i \in 1..d
        <5>1. CASE i = d
          BY <2>0, <4>2, <5>1
        <5>2. CASE i \in 1..(d - 1)
          BY <3>3, <4>2, <5>2
        <5> QED BY <2>0, <5>1, <5>2
      <4> QED BY <3>3, <4>1, <4>2, <4>3
    <3>4. CASE /\ d = 8 /\ t.at = "request" /\ Taken(t) = d - 1
               /\ \A i \in 1..(d - 1) : t.bits[i] = SwitchWord[i + 1]
      <4>1. t.bits[7] = SwitchWord[8] /\ Taken(t) = 7
        BY <3>4
      <4>2. ~Apt(t, b)
        BY <4>1, SwitchIs DEF Apt
      <4> QED BY <1>0, <1>8, <2>2, <3>4, <4>1, <4>2 DEF Edge
    <3> QED BY <2>0, <2>1, <3>1, <3>2, <3>3, <3>4
  <2> DEFINE e == j + 1
  <2>5. /\ e > L /\ e <= L + 16 /\ e - L = d + 1 /\ e - L - 1 = d /\ ~(e <= L)
        /\ ~(e > L + 16) /\ ~(e > 2 * L + 16)
    BY <1>1, <1>12 DEF d
  <2> HIDE DEF e
  <2>6. Resetting(u, e, x)
    BY <2>0, <2>3, <2>4, <2>5 DEF Resetting, L
  <2> QED BY <2>6 DEF e
<1>13. CASE j >= L + 16 /\ j < 2 * L + 16
  <2>1. b = 1 /\ ~(j + 1 <= L) /\ ~(j + 1 <= L + 16) /\ ~(j + 1 > 2 * L + 16)
    BY <1>1, <1>5, <1>13
  <2>2. t.at = "lost" \/ t.at = "reset"
    <3>1. CASE j = L + 16
      <4>1. j > L /\ j <= L + 16 /\ j - L = 16 /\ ~(j = L + 1) /\ ~(j - L \in 2..8)
        BY <1>1, <3>1
      <4> QED BY <4>1 DEF Resetting, L
    <3>2. CASE j > L + 16
      BY <1>1, <1>13, <3>2 DEF Resetting, L
    <3> QED BY <1>1, <1>13, <3>1, <3>2
  <2>3. CASE Counted(t, b) >= ResetOnes
    BY <1>9, <2>1, <2>3 DEF Resetting, L
  <2>4. CASE Counted(t, b) < ResetOnes
    <3>0. ~Driving(t) /\ Counted(t, b) = t.ones + 1
      BY <1>7, <2>1, <2>2 DEF Driving
    <3>1. t.at = "lost"
      <4>1. t.at = "reset" => t.ones = ResetOnes
        BY <1>1 DEF Formed
      <4> QED BY <1>1, <2>2, <2>4, <3>0, <4>1
    <3>2. u.at = "lost" /\ u.ones = t.ones + 1
      BY <1>0, <1>8, <2>4, <3>0, <3>1 DEF Edge
    <3>3. x # "restarted" => u.ones >= (j + 1) - L - 16
      <4>1. CASE j = L + 16
        BY <1>1, <3>2, <4>1
      <4>2. CASE j > L + 16
        <5>1. x # "restarted" => t.ones >= j - L - 16
          BY <1>1, <1>13, <3>1, <4>2 DEF Resetting, L
        <5> QED BY <1>1, <3>2, <5>1
      <4> QED BY <1>1, <1>13, <4>1, <4>2
    <3> QED BY <2>1, <3>2, <3>3 DEF Resetting, L
  <2> QED BY <1>1, <1>7, <2>3, <2>4
<1>14. CASE j >= 2 * L + 16
  <2>1. b = 0 /\ ~(j + 1 <= L) /\ ~(j + 1 <= L + 16) /\ ~(j + 1 <= 2 * L + 16)
    BY <1>1, <1>6, <1>14
  <2>2. u.ones = 0 /\ ~(Counted(t, b) >= ResetOnes)
    BY <1>1, <1>7, <1>8, <2>1
  <2>3. t.at = "idle" \/ t.at = "reset" \/ (t.at = "lost" /\ x = "restarted")
    <3>1. CASE j = 2 * L + 16
      <4>1. (t.at = "lost" /\ (x # "restarted" => t.ones >= j - L - 16)) \/ t.at = "reset"
        BY <1>1, <3>1 DEF Resetting, L
      <4>2. t.at = "lost" => t.ones < ResetOnes
        BY <1>1 DEF Formed
      <4>3. x # "restarted" => t.at # "lost"
        BY <1>1, <3>1, <4>1, <4>2
      <4>4. CASE x = "restarted"
        BY <4>1, <4>4, Zenon
      <4>5. CASE x # "restarted"
        BY <4>1, <4>3, <4>5
      <4> QED BY <4>4, <4>5, Zenon
    <3>2. CASE j > 2 * L + 16
      BY <1>1, <3>2 DEF Resetting, L
    <3> QED BY <1>1, <1>14, <3>1, <3>2
  <2>4. u.at = "idle" \/ (u.at = "lost" /\ x = "restarted")
    BY <1>0, <2>1, <2>2, <2>3 DEF Edge
  <2> QED BY <2>1, <2>2, <2>4 DEF Resetting, L
<1> QED BY <1>1, <1>10, <1>11, <1>12, <1>13, <1>14

-----------------------------------------------------------------------------
(* An answer, bit by bit: m clocks after the request. *)

\* A target that is as far as the probe.
InStep(t, m) ==
  /\ m <= Span(t) => t.at = "answer" /\ t.n = m
  /\ m = Span(t) + 1 => t.at = "back"
  /\ m > Span(t) + 1 => /\ m = Span(t) + 2 /\ Taken(t) = 0
                        /\ t.at = IF Accepts(t) /\ ~t.read THEN "write" ELSE "idle"

\* One that has yet to hear the packet it is in out, and will not answer it.
Straggling(t, m) ==
  /\ t.at = "request" /\ Taken(t) > m
  /\ Taken(t) <= m + 2 => Taken(t) = m + 1 /\ AllOnes(t.bits, Taken(t))
  /\ Taken(t) >= 7 => t.bits[7] = 1 \/ AllOnes(t.bits, 6)

\* The acknowledgement as far as the probe has heard it, o clocks late.
Misheard(t, got, o, i) == i <= Len(got) - o /\ got[o + i] # t.ack[i]
HeardAck(t, got, o, z) ==
  /\ Accepts(t) \/ ~z => \A i \in 1..3 : ~Misheard(t, got, o, i)
  /\ \A i, k \in 1..3 : Misheard(t, got, o, i) /\ Misheard(t, got, o, k) => i = k

\* What the probe samples, before the edge from t to u or after it.
Sampled(o, t, u) == IF o = 0 THEN Released(u) ELSE Released(t)

\* Nothing but the pull-up, and a flip.
Blank(got, z) ==
  /\ ~z => \A i \in 1..Len(got) : got[i] # 0
  /\ \A i, k \in 1..Len(got) : got[i] = 0 /\ got[k] = 0 => i = k

Answered(t, m, got, o, p, z) ==
  /\ Len(got) = m /\ InStep(t, m)
  /\ (t.read <=> Reads(p)) /\ t.word \in Words /\ HeardAck(t, got, o, z)
Unanswered(t, m, got, z) ==
  \/ t.at = "lost" /\ t.ones <= m
  \/ Blank(got, z) /\ (t.at = "lost" \/ Straggling(t, m))

\* What SWDIO is at with the probe's output off.
LEMMA ReleasedIs ==
  ASSUME NEW t \in TargetType, Formed(t)
  PROVE  /\ Released(t) \in Bit
         /\ ~Driving(t) => Released(t) = 1
         /\ t.at = "answer" /\ t.n \in 1..3 => Released(t) = t.ack[t.n]
         /\ t.at = "answer" /\ t.n >= 4 /\ Accepts(t) /\ t.read =>
              Released(t) = Code(t.word)[t.n - 3]
<1>1. CASE ~Driving(t)
  BY <1>1 DEF Released, Bit, Driving, TargetType
<1>2. CASE Driving(t)
  <2>1. t.at = "answer" /\ t.n > 0 /\ t.word \in Words /\ t.n <= Span(t) /\ t.n \in Nat
    BY <1>2 DEF Driving, Formed, TargetType
  <2> DEFINE r == Reply(t)
             n == t.n
  <2>2. /\ r \in Seq(Bit) /\ Len(r) = Span(t)
        /\ Len(r) = IF Accepts(t) /\ t.read THEN Width + 4 ELSE 3
        /\ \A i \in 1..3 : r[i] = t.ack[i]
        /\ Accepts(t) /\ t.read => \A i \in 1..(Width + 1) : r[3 + i] = Code(t.word)[i]
    BY <2>1, ReplyIs DEF Span
  <2>3. Released(t) = r[n]
    BY <1>2 DEF Released
  <2>4. n \in Nat /\ n > 0 /\ n <= Len(r) /\ n <= Span(t)
    BY <2>1, <2>2
  <2> HIDE DEF r, n
  <2>5. n \in 1..Len(r)
    BY <2>2, <2>4, SeqNat
  <2>6. r[n] \in Bit
    BY <2>2, <2>5, Elements
  <2>7. n \in 1..3 => r[n] = t.ack[n]
    BY <2>2
  <2>8. n >= 4 /\ Accepts(t) /\ t.read => r[n] = Code(t.word)[n - 3]
    <3> HAVE n >= 4 /\ Accepts(t) /\ t.read
    <3>1. Len(r) = Width + 4
      BY <2>2
    <3>2. n - 3 \in 1..(Width + 1) /\ 3 + (n - 3) = n
      BY <2>4, <3>1, Sizes
    <3>3. r[3 + (n - 3)] = Code(t.word)[n - 3]
      BY <2>2, <3>2
    <3> QED BY <3>2, <3>3
  <2> QED BY <1>2, <2>3, <2>6, <2>7, <2>8 DEF n
<1> QED BY <1>1, <1>2

\* An answer without a word is its acknowledgement.
LEMMA SpanShort ==
  ASSUME NEW t \in TargetType, ~(Accepts(t) /\ t.read) PROVE Span(t) = 3
<1>1. t.ack \in Seq(Bit) /\ Len(t.ack) = 3
  BY AckIs
<1>2. Reply(t) = t.ack \o <<>>
  BY DEF Reply
<1>3. Reply(t) = t.ack
  BY <1>1, <1>2, ConcatEmptySeq
<1> QED BY <1>1, <1>3 DEF Span

\* A target that keeps its registers keeps its answer.
LEMMA KeptSame ==
  ASSUME NEW t, NEW u, Kept(t, u)
  PROVE  /\ Span(u) = Span(t) /\ (Accepts(u) <=> Accepts(t)) /\ u.read = t.read
         /\ u.ack = t.ack /\ u.word = t.word
<1>1. u.ack = t.ack /\ u.word = t.word /\ u.read = t.read
  BY DEF Kept
<1>2. Accepts(u) <=> Accepts(t)
  BY <1>1 DEF Accepts
<1>3. Reply(u) = Reply(t)
  BY <1>1, <1>2 DEF Reply
<1> QED BY <1>1, <1>2, <1>3 DEF Span

\* Another clock keeps the target as far as the probe.
LEMMA InStepStep ==
  ASSUME NEW t, NEW u, NEW b, NEW m \in Nat, Edge(t, b, u), Counted(t, b) < ResetOnes,
         InStep(t, m), Span(t) \in Nat, m <= Span(t) + 1
  PROVE  InStep(u, m + 1) /\ Kept(t, u)
<1>0. ~(Counted(t, b) >= ResetOnes)
  BY EdgeOnes
<1>1. CASE m <= Span(t)
  <2>1. t.at = "answer" /\ t.n = m
    BY <1>1 DEF InStep
  <2>2. \/ t.n < Span(t) /\ u.at = "answer" /\ u.n = t.n + 1
        \/ t.n = Span(t) /\ u.at = "back"
    BY <1>0, <2>1 DEF Edge
  <2>3. Kept(t, u)
    BY <1>0, <2>1 DEF Edge
  <2>4. Span(u) = Span(t)
    BY <2>3, KeptSame
  <2> QED BY <1>1, <2>1, <2>2, <2>3, <2>4 DEF InStep
<1>2. CASE m = Span(t) + 1
  <2>1. t.at = "back"
    BY <1>2 DEF InStep
  <2>2. u.at = (IF Accepts(t) /\ ~t.read THEN "write" ELSE "idle") /\ Taken(u) = 0
    BY <1>0, <2>1 DEF Edge
  <2>3. Kept(t, u)
    BY <1>0, <2>1 DEF Edge
  <2>4. Span(u) = Span(t) /\ (Accepts(u) <=> Accepts(t)) /\ u.read = t.read
    BY <2>3, KeptSame
  <2> QED BY <1>2, <2>2, <2>3, <2>4 DEF InStep
<1> QED BY <1>1, <1>2

\* It counts no ones while it drives.
LEMMA InStepOnes ==
  ASSUME NEW t, NEW u, NEW b, NEW m \in Nat, Edge(t, b, u), Counted(t, b) < ResetOnes,
         InStep(t, m), Span(t) \in Nat, Span(t) >= 3, m >= 1, m >= 2 => t.ones <= m
  PROVE  u.ones <= m + 1
<1>1. /\ u.ones \in Nat /\ u.ones <= t.ones + 1 /\ t.ones \in Nat
      /\ Driving(t) => u.ones = 0
  BY EdgeOnes
<1>2. CASE m = 1
  <2>1. t.at = "answer" /\ t.n = 1
    BY <1>2 DEF InStep
  <2> QED BY <1>1, <2>1 DEF Driving
<1>3. CASE m >= 2
  BY <1>1, <1>3
<1> QED BY <1>2, <1>3

\* A straggler that hears the pull-up straggles on, or is lost.
LEMMA StragglingStep ==
  ASSUME NEW t, NEW u, NEW m \in Nat, Edge(t, 1, u), Counted(t, 1) < ResetOnes, Straggling(t, m)
  PROVE  u.at = "lost" \/ Straggling(u, m + 1)
<1> DEFINE k == Taken(t)
<1>0. ~(Counted(t, 1) >= ResetOnes)
  BY EdgeOnes
<1>1. /\ t.at = "request" /\ k > m
      /\ k <= m + 2 => k = m + 1 /\ AllOnes(t.bits, k)
      /\ k >= 7 => t.bits[7] = 1 \/ AllOnes(t.bits, 6)
  BY DEF Straggling
<1>2. k \in 1..7
  BY <1>1 DEF Edge, Formed
<1>3. k = 7 => ~Apt(t, 1)
  BY <1>1 DEF AllOnes, Apt
<1>4. k = 7 => u.at = "lost"
  BY <1>0, <1>1, <1>3 DEF Edge
<1>5. ASSUME k < 7 PROVE Straggling(u, m + 1)
  <2>1. u.at = "request" /\ Longer(t, 1, u)
    BY <1>0, <1>1, <1>5 DEF Edge
  <2>2. Taken(u) = k + 1 /\ u.bits[k + 1] = 1 /\ \A i \in 1..k : u.bits[i] = t.bits[i]
    BY <2>1 DEF Longer
  <2> HIDE DEF k
  <2>3. Taken(u) <= m + 1 + 2 => Taken(u) = m + 1 + 1 /\ AllOnes(u.bits, Taken(u))
    <3> HAVE Taken(u) <= m + 1 + 2
    <3>1. k = m + 1 /\ AllOnes(t.bits, k)
      BY <1>1, <1>2, <2>2
    <3>2. \A i \in 1..(k + 1) : u.bits[i] = 1
      BY <1>2, <2>2, <3>1 DEF AllOnes
    <3> QED BY <1>2, <2>2, <3>1, <3>2 DEF AllOnes
  <2>4. Taken(u) >= 7 => u.bits[7] = 1
    BY <1>2, <1>5, <2>2
  <2>5. Taken(u) > m + 1
    BY <1>1, <1>2, <2>2
  <2> QED BY <2>1, <2>3, <2>4, <2>5 DEF Straggling
<1> QED BY <1>2, <1>4, <1>5

\* Another sample of a line nobody drives.
LEMMA BlankStep ==
  ASSUME NEW got \in Seq(Bit), NEW v \in Bit, NEW z \in BOOLEAN, NEW f \in BOOLEAN,
         NEW y \in BOOLEAN, y <=> z \/ f, f => ~z, ~f => v = 1, Blank(got, z)
  PROVE  Blank(Append(got, v), y)
<1> DEFINE r == Append(got, v)
           n == Len(got)
<1>1. /\ r \in Seq(Bit) /\ Len(r) = n + 1 /\ r[n + 1] = v /\ \A i \in 1..n : r[i] = got[i]
      /\ n \in Nat
  BY AppendIs, SeqNat
<1>2. ~z => \A i \in 1..n : got[i] # 0
  BY DEF Blank
<1>3. ASSUME NEW i \in 1..n, NEW k \in 1..n, got[i] = 0, got[k] = 0 PROVE i = k
  BY <1>3 DEF Blank
<1> HIDE DEF r, n
<1>4. ASSUME ~y, NEW i \in 1..(n + 1) PROVE r[i] # 0
  <2>1. CASE i = n + 1
    BY <1>1, <1>4, <2>1
  <2>2. CASE i \in 1..n
    BY <1>1, <1>2, <1>4, <2>2
  <2> QED BY <1>1, <2>1, <2>2
<1>5. ASSUME NEW i \in 1..(n + 1), NEW k \in 1..(n + 1), r[i] = 0, r[k] = 0 PROVE i = k
  <2>1. CASE i \in 1..n /\ k \in 1..n
    BY <1>1, <1>3, <1>5, <2>1
  <2>2. CASE i = n + 1 /\ k \in 1..n
    BY <1>1, <1>2, <1>5, <2>2
  <2>3. CASE k = n + 1 /\ i \in 1..n
    BY <1>1, <1>2, <1>5, <2>3
  <2> QED BY <1>1, <1>5, <2>1, <2>2, <2>3
<1>6. ~y => \A i \in 1..Len(r) : r[i] # 0
  BY <1>1, <1>4
<1>7. \A i, k \in 1..Len(r) : r[i] = 0 /\ r[k] = 0 => i = k
  BY <1>1, <1>5
<1> QED BY <1>6, <1>7, Zenon DEF Blank, r

\* One bit of the acknowledgement; o is how many samples it comes late by.
LEMMA AnsweredStep ==
  ASSUME NEW t, NEW u, NEW o \in {0, 1}, NEW m \in 0..3, m <= o + 2,
         NEW got \in Seq(Bit), NEW p,
         NEW z \in BOOLEAN, NEW f \in BOOLEAN, NEW y \in BOOLEAN, y <=> z \/ f, f => ~z,
         Edge(t, Released(t), u), Counted(t, Released(t)) < ResetOnes,
         NEW v \in Bit, ~f => v = Sampled(o, t, u),
         f /\ Accepts(t) => m < o,
         Answered(t, m, got, o, p, z)
  PROVE  Answered(u, m + 1, Append(got, v), o, p, y)
<1> DEFINE r == Append(got, v)
           a == t.ack
           x == Sampled(o, t, u)
<1>0. Len(got) = m
  BY DEF Answered
<1> USE <1>0
<1>1. /\ InStep(t, m) /\ (t.read <=> Reads(p)) /\ t.word \in Words /\ HeardAck(t, got, o, z)
      /\ t \in TargetType /\ Formed(t) /\ u \in TargetType /\ Formed(u)
  BY DEF Answered, Edge
<1>2. Span(t) \in Nat /\ Span(t) >= 3
  <2>1. Span(t) = Width + 4 \/ Span(t) = 3
    BY <1>1, SpanIs
  <2> QED BY <2>1, Sizes
<1>3. InStep(u, m + 1) /\ Kept(t, u)
  BY <1>1, <1>2, InStepStep
<1>4. /\ (Accepts(u) <=> Accepts(t)) /\ u.read = t.read /\ u.ack = a /\ u.word = t.word
      /\ Span(u) = Span(t)
  BY <1>3, KeptSame
<1>5. /\ r \in Seq(Bit) /\ Len(r) = m + 1 /\ r[m + 1] = v /\ \A i \in 1..m : r[i] = got[i]
  BY AppendIs
<1>6. \A i \in 1..3 : i = m + 1 - o => x = a[i]
  <2> SUFFICES ASSUME NEW i \in 1..3, i = m + 1 - o PROVE x = a[i]
    OBVIOUS
  <2>1. CASE o = 0
    <3>1. u.at = "answer" /\ u.n = i
      BY <1>2, <1>3, <1>4, <2>1 DEF InStep
    <3>2. Released(u) = u.ack[i]
      BY <1>1, <3>1, ReleasedIs
    <3> QED BY <1>4, <2>1, <3>2 DEF Sampled
  <2>2. CASE o = 1
    <3>1. t.at = "answer" /\ t.n = i
      BY <1>1, <1>2, <2>2 DEF InStep
    <3>2. Released(t) = t.ack[i]
      BY <1>1, <3>1, ReleasedIs
    <3> QED BY <2>2, <3>2 DEF Sampled
  <2> QED BY <2>1, <2>2
<1> DEFINE c(i) == i <= m - o /\ got[o + i] # a[i]
           d(i) == i <= m + 1 - o /\ r[o + i] # a[i]
<1>7. /\ Accepts(t) \/ ~z => \A i \in 1..3 : ~c(i)
      /\ \A i \in 1..3 : Misheard(t, got, o, i) <=> c(i)
      /\ \A i \in 1..3 : Misheard(u, r, o, i) <=> d(i)
  BY <1>1, <1>4, <1>5 DEF HeardAck, Misheard
<1>8. ASSUME NEW i \in 1..3, NEW k \in 1..3, c(i), c(k) PROVE i = k
  BY <1>1, <1>7, <1>8 DEF HeardAck
<1> HIDE DEF r, a, x
<1>9. \A i \in 1..3 : i # m + 1 - o => (c(i) <=> d(i))
  <2> TAKE i \in 1..3
  <2> HAVE i # m + 1 - o
  <2>1. i <= m - o => o + i \in 1..m
    OBVIOUS
  <2>2. i <= m + 1 - o <=> i <= m - o
    OBVIOUS
  <2> QED BY <1>5, <2>1, <2>2
<1>10. ASSUME NEW i \in 1..3, i = m + 1 - o, ~f PROVE ~d(i)
  <2>1. o + i = m + 1
    BY <1>10
  <2> QED BY <1>5, <1>6, <1>10, <2>1 DEF x
<1>11. \A i \in 1..3 : i = m + 1 - o => ~c(i)
  OBVIOUS
<1>12. \A i \in 1..3 : i = m + 1 - o => m >= o
  OBVIOUS
<1> HIDE DEF c, d
<1>13. ASSUME Accepts(u) \/ ~y, NEW i \in 1..3 PROVE ~d(i)
  <2>1. CASE i = m + 1 - o
    <3>1. ~f
      BY <1>4, <1>12, <1>13, <2>1
    <3> QED BY <1>10, <2>1, <3>1
  <2>2. CASE i # m + 1 - o
    BY <1>4, <1>7, <1>9, <1>13, <2>2
  <2> QED BY <2>1, <2>2
<1>14. ASSUME NEW i \in 1..3, NEW k \in 1..3, d(i), d(k) PROVE i = k
  <2>1. CASE i # m + 1 - o /\ k # m + 1 - o
    BY <1>8, <1>9, <1>14, <2>1
  <2>2. CASE i = m + 1 - o /\ k # m + 1 - o
    <3>1. f
      BY <1>10, <1>14, <2>2
    <3> QED BY <1>7, <1>9, <1>14, <2>2, <3>1
  <2>3. CASE k = m + 1 - o /\ i # m + 1 - o
    <3>1. f
      BY <1>10, <1>14, <2>3
    <3> QED BY <1>7, <1>9, <1>14, <2>3, <3>1
  <2> QED BY <2>1, <2>2, <2>3
<1>15. Accepts(u) \/ ~y => \A i \in 1..3 : ~Misheard(u, r, o, i)
  BY <1>7, <1>13
<1>16. \A i, k \in 1..3 : Misheard(u, r, o, i) /\ Misheard(u, r, o, k) => i = k
  BY <1>7, <1>14
<1>17. HeardAck(u, r, o, y)
  BY <1>15, <1>16, Zenon DEF HeardAck
<1> QED BY <1>1, <1>3, <1>4, <1>5, <1>17 DEF Answered, r

\* One sample more of no acknowledgement.
LEMMA UnansweredStep ==
  ASSUME NEW t, NEW u, NEW o \in {0, 1}, NEW m \in 0..3, NEW got \in Seq(Bit),
         NEW z \in BOOLEAN, NEW f \in BOOLEAN, NEW y \in BOOLEAN, y <=> z \/ f, f => ~z,
         Edge(t, Released(t), u), Counted(t, Released(t)) < ResetOnes,
         NEW v \in Bit, ~f => v = Sampled(o, t, u),
         Unanswered(t, m, got, z)
  PROVE  Unanswered(u, m + 1, Append(got, v), y)
<1>0. ~(Counted(t, Released(t)) >= ResetOnes)
  BY EdgeOnes
<1>1. CASE t.at = "lost" /\ t.ones <= m
  <2>1. u.at = "lost"
    BY <1>0, <1>1 DEF Edge
  <2>2. u.ones \in Nat /\ u.ones <= t.ones + 1 /\ t.ones \in Nat
    BY EdgeOnes
  <2>3. u.ones <= m + 1
    BY <1>1, <2>2
  <2> QED BY <2>1, <2>3 DEF Unanswered
<1>2. CASE Blank(got, z) /\ (t.at = "lost" \/ Straggling(t, m))
  <2>1. ~Driving(t) /\ t \in TargetType /\ Formed(t) /\ u \in TargetType /\ Formed(u)
    BY <1>2 DEF Driving, Straggling, Edge
  <2>2. Released(t) = 1
    BY <2>1, ReleasedIs
  <2>3. u.at = "lost" \/ Straggling(u, m + 1)
    <3>1. CASE t.at = "lost"
      BY <1>0, <3>1 DEF Edge
    <3>2. CASE Straggling(t, m)
      BY <2>2, <3>2, StragglingStep
    <3> QED BY <1>2, <3>1, <3>2
  <2>4. ~Driving(u)
    BY <2>3 DEF Driving, Straggling
  <2>5. Released(u) = 1
    BY <2>1, <2>4, ReleasedIs
  <2>6. Blank(Append(got, v), y)
    <3>1. ~f => v = 1
      BY <2>2, <2>5 DEF Sampled
    <3> QED BY <1>2, <3>1, BlankStep
  <2> QED BY <2>3, <2>6 DEF Unanswered
<1> QED BY <1>1, <1>2 DEF Unanswered

\* A read that has sent its acknowledgement and as much of its word as was read.
Returned(t, m, got, z) ==
  /\ InStep(t, m) /\ Accepts(t) /\ t.read /\ t.word \in Words
  /\ NearCode(got, t.word, Len(got), z)

\* One bit of the data phase of a read, as read_data_phase samples it.
LEMMA ReturnedStep ==
  ASSUME NEW t, NEW u, NEW o \in {0, 1}, NEW m \in Nat, m >= 3 + o, m <= Width + 5,
         NEW got \in Seq(Bit), Len(got) = m - 3 - o,
         NEW z \in BOOLEAN, NEW f \in BOOLEAN, NEW y \in BOOLEAN, y <=> z \/ f, f => ~z,
         Edge(t, Released(t), u), Counted(t, Released(t)) < ResetOnes,
         NEW v \in Bit, ~f => v = Sampled(o, t, u),
         Returned(t, m, got, z)
  PROVE  Returned(u, m + 1, Append(got, v), y)
<1> DEFINE r == Append(got, v)
           w == t.word
           n == Len(got)
           x == Sampled(o, t, u)
<1>1. /\ InStep(t, m) /\ Accepts(t) /\ t.read /\ w \in Words /\ NearCode(got, w, n, z)
      /\ t \in TargetType /\ Formed(t) /\ u \in TargetType /\ Formed(u) /\ Width \in Nat
  BY Sizes DEF Returned, Edge
<1>2. Span(t) = Width + 4
  BY <1>1, SpanIs
<1>3. InStep(u, m + 1) /\ Kept(t, u)
  BY <1>1, <1>2, InStepStep
<1>4. Accepts(u) /\ u.read /\ u.word = w /\ Span(u) = Span(t)
  BY <1>1, <1>3, KeptSame
<1>5. /\ r \in Seq(Bit) /\ Len(r) = n + 1 /\ r[n + 1] = v /\ \A i \in 1..n : r[i] = got[i]
      /\ n \in Nat /\ n = m - 3 - o
  BY AppendIs, SeqNat
<1>6. n <= Width => x = Code(w)[n + 1]
  <2> HAVE n <= Width
  <2>1. CASE o = 0
    <3>1. u.at = "answer" /\ u.n = m + 1
      BY <1>1, <1>2, <1>3, <1>4, <1>5, <2>1 DEF InStep
    <3>2. Released(u) = Code(u.word)[u.n - 3]
      BY <1>1, <1>4, <3>1, <2>1, ReleasedIs
    <3>3. u.n - 3 = n + 1
      BY <1>5, <2>1, <3>1
    <3> QED BY <1>4, <2>1, <3>2, <3>3 DEF Sampled
  <2>2. CASE o = 1
    <3>1. t.at = "answer" /\ t.n = m
      BY <1>1, <1>2, <1>5, <2>2 DEF InStep
    <3>2. Released(t) = Code(t.word)[t.n - 3]
      BY <1>1, <3>1, <2>2, ReleasedIs
    <3>3. t.n - 3 = n + 1
      BY <1>5, <2>2, <3>1
    <3> QED BY <2>2, <3>2, <3>3 DEF Sampled
  <2> QED BY <2>1, <2>2
<1> HIDE DEF r, w, n, x
<1>7. n <= Width => (~f => r[n + 1] = Code(w)[n + 1])
  BY <1>5, <1>6 DEF x
<1>8. NearCode(r, w, n + 1, y)
  BY <1>1, <1>5, <1>7, NearStep
<1>9. NearCode(r, u.word, Len(r), y)
  BY <1>4, <1>5, <1>8
<1> QED BY <1>1, <1>3, <1>4, <1>9 DEF Returned, r

-----------------------------------------------------------------------------
(* Recovery, clock by clock: c clocks are left. *)

Stopping(t, c) ==
  /\ t.at = "answer" => Span(t) + 1 - t.n <= c
  /\ t.at = "request" =>
       /\ AllOnes(t.bits, Taken(t)) \/ Taken(t) > RecoveryCycles - c
       /\ Nearly(t) => c >= Width + 6

\* The bounds of an answer.
LEMMA SpanSizes == ASSUME NEW t \in TargetType, t.word \in Words PROVE Span(t) \in 3..(Width + 4)
<1>1. Span(t) = Width + 4 \/ Span(t) = 3
  BY SpanIs
<1> QED BY <1>1, Sizes

\* recover_line has the clocks for a target in any place.
LEMMA StoppingBegins ==
  ASSUME NEW t \in TargetType, Formed(t) PROVE Stopping(t, RecoveryCycles)
<1>1. Width \in Nat /\ RecoveryCycles \in Nat /\ RecoveryCycles >= Width + 6
  BY Sizes
<1>2. t.at = "answer" => Span(t) + 1 - t.n <= RecoveryCycles
  <2> HAVE t.at = "answer"
  <2>1. t.word \in Words /\ t.n \in Nat
    BY DEF Formed, TargetType
  <2>2. Span(t) \in 3..(Width + 4)
    BY <2>1, SpanSizes
  <2> QED BY <1>1, <2>1, <2>2
<1>3. t.at = "request" => Taken(t) \in 1..7
  BY DEF Formed
<1> QED BY <1>1, <1>2, <1>3 DEF Stopping

\* Another of its clocks.
LEMMA StoppingStep ==
  ASSUME NEW t, NEW u, NEW c \in 1..RecoveryCycles, Edge(t, Released(t), u), Stopping(t, c)
  PROVE  Stopping(u, c - 1)
<1> DEFINE b == Released(t)
           k == Taken(t)
<1>0. Edge(t, b, u)
  OBVIOUS
<1>1. /\ t \in TargetType /\ Formed(t) /\ u \in TargetType /\ Formed(u)
      /\ Width \in Nat /\ RecoveryCycles \in Nat /\ k \in Nat
  BY Sizes, TakenIs DEF Edge
<1>2. t.at # "answer" => b = 1
  BY <1>1, ReleasedIs DEF Driving
<1> HIDE DEF b, k
<1>3. CASE Counted(t, b) >= ResetOnes
  BY <1>0, <1>3 DEF Edge, Stopping
<1>4. CASE ~(Counted(t, b) >= ResetOnes)
  <2>1. CASE t.at = "answer"
    <3>1. \/ t.n < Span(t) /\ u.at = "answer" /\ u.n = t.n + 1
          \/ t.n = Span(t) /\ u.at = "back"
      BY <1>0, <1>4, <2>1 DEF Edge
    <3>2. Kept(t, u)
      BY <1>0, <1>4, <2>1 DEF Edge
    <3>3. Span(u) = Span(t)
      BY <3>2, KeptSame
    <3>4. t.word \in Words /\ t.n \in Nat
      BY <1>1, <2>1 DEF Formed, TargetType
    <3>5. Span(t) \in 3..(Width + 4)
      BY <1>1, <3>4, SpanSizes
    <3>6. Span(t) + 1 - t.n <= c
      BY <2>1 DEF Stopping
    <3> QED BY <1>1, <3>1, <3>3, <3>4, <3>5, <3>6 DEF Stopping
  <2>2. CASE t.at = "request" /\ k < 7
    <3>1. u.at = "request" /\ Longer(t, b, u)
      BY <1>0, <1>4, <2>2 DEF Edge, k
    <3>2. Taken(u) = k + 1 /\ u.bits[k + 1] = 1 /\ \A i \in 1..k : u.bits[i] = t.bits[i]
      BY <1>2, <2>2, <3>1 DEF Longer, k
    <3>3. AllOnes(t.bits, k) \/ k > RecoveryCycles - c
      BY <2>2 DEF Stopping, k
    <3>4. AllOnes(t.bits, k) => AllOnes(u.bits, k + 1)
      <4> SUFFICES ASSUME AllOnes(t.bits, k), NEW i \in 1..(k + 1) PROVE u.bits[i] = 1
        BY DEF AllOnes
      <4>1. CASE i = k + 1
        BY <3>2, <4>1
      <4>2. CASE i \in 1..k
        BY <3>2, <4>2 DEF AllOnes
      <4> QED BY <1>1, <4>1, <4>2
    <3>5. AllOnes(u.bits, Taken(u)) \/ Taken(u) > RecoveryCycles - (c - 1)
      <4>1. CASE AllOnes(t.bits, k)
        BY <3>2, <3>4, <4>1
      <4>2. CASE k > RecoveryCycles - c
        BY <1>1, <3>2, <4>2
      <4> QED BY <3>3, <4>1, <4>2
    <3>6. ~Nearly(u)
      BY <1>1, <3>2 DEF Nearly
    <3> QED BY <3>1, <3>5, <3>6 DEF Stopping
  <2>3. CASE t.at = "request" /\ k = 7
    <3>1. CASE u.at = "lost"
      BY <3>1 DEF Stopping
    <3>2. CASE u.at # "lost"
      <4>1. u.at = "answer" /\ u.n = 0 /\ u.word \in Words /\ Apt(t, b)
        BY <1>0, <1>4, <2>3, <3>2 DEF Edge, k
      <4>2. Nearly(t)
        BY <2>3, <4>1 DEF Nearly, Apt, k
      <4>3. c >= Width + 6
        BY <2>3, <4>2 DEF Stopping
      <4>4. Span(u) \in 3..(Width + 4)
        BY <1>1, <4>1, SpanSizes
      <4> QED BY <1>1, <4>1, <4>3, <4>4 DEF Stopping
    <3> QED BY <3>1, <3>2
  <2>4. CASE t.at \in {"reset", "idle"}
    <3>1. u.at = "request" /\ Taken(u) = 1 /\ u.bits[1] = 1
      BY <1>0, <1>2, <1>4, <2>4 DEF Edge
    <3>2. AllOnes(u.bits, Taken(u)) /\ ~Nearly(u)
      BY <3>1 DEF AllOnes, Nearly
    <3> QED BY <3>1, <3>2 DEF Stopping
  <2>5. CASE t.at \in {"lost", "back"}
    BY <1>0, <1>4, <2>5 DEF Edge, Stopping
  <2>6. CASE t.at = "write"
    <3>1. k <= Width
      BY <1>1, <2>6 DEF Formed, k
    <3>2. k < Width \/ k = Width
      BY <1>1, <3>1
    <3> QED BY <1>0, <1>4, <2>6, <3>2 DEF Edge, Stopping, k
  <2>7. t.at \in Places /\ (t.at = "request" => k < 7 \/ k = 7)
    <3>1. t.at \in Places /\ (t.at = "request" => k \in 1..7)
      BY <1>1 DEF Formed, TargetType, k
    <3> QED BY <3>1
  <2> QED BY <2>1, <2>2, <2>3, <2>4, <2>5, <2>6, <2>7 DEF Places
<1> QED BY <1>3, <1>4

\* After its clocks nothing is left that ones could make answer.
LEMMA StoppingEnds ==
  ASSUME NEW t \in TargetType, Formed(t), Stopping(t, 0) PROVE Calm(t)
<1>1. Width \in Nat \ {0} /\ RecoveryCycles \in Nat /\ RecoveryCycles >= Width + 6
  BY Sizes
<1>2. t.at # "answer"
  <2> SUFFICES ASSUME t.at = "answer" PROVE FALSE
    OBVIOUS
  <2>1. t.word \in Words /\ t.n \in Nat /\ t.n <= Span(t)
    BY DEF Formed, TargetType
  <2>2. Span(t) \in 3..(Width + 4)
    BY <2>1, SpanSizes
  <2>3. Span(t) + 1 - t.n <= 0
    BY DEF Stopping
  <2> QED BY <1>1, <2>1, <2>2, <2>3
<1>3. t.at = "request" => AllOnes(t.bits, Taken(t))
  <2> HAVE t.at = "request"
  <2>1. Taken(t) \in 1..7
    BY DEF Formed
  <2>2. AllOnes(t.bits, Taken(t)) \/ Taken(t) > RecoveryCycles
    BY <1>1 DEF Stopping
  <2> QED BY <1>1, <2>1, <2>2
<1> QED BY <1>2, <1>3 DEF Calm

-----------------------------------------------------------------------------
(* What the probe has left to send of bits s. *)

Rest(s, out) == /\ Len(out) <= Len(s)
                /\ \A i \in 1..Len(out) : out[i] = s[Len(s) - Len(out) + i]
Sent(s, out) == Len(s) - Len(out)

\* Nothing is sent yet.
LEMMA RestBegins == ASSUME NEW s \in Seq(Bit) PROVE Rest(s, s) /\ Sent(s, s) = 0
<1>1. Len(s) \in Nat /\ Len(s) - Len(s) = 0
  BY SeqNat
<1> QED BY <1>1 DEF Rest, Sent

\* Everything is.
LEMMA RestEnds == ASSUME NEW s \in Seq(Bit) PROVE Sent(s, <<>>) = Len(s)
<1>1. Len(s) \in Nat
  BY SeqNat
<1> QED BY <1>1 DEF Sent

\* One bit more is.
LEMMA RestStep ==
  ASSUME NEW s \in Seq(Bit), NEW out \in Seq(Bit), Rest(s, out), out # <<>>
  PROVE  /\ Sent(s, out) \in 0..(Len(s) - 1) /\ Len(s) \in Nat
         /\ Head(out) = s[Sent(s, out) + 1]
         /\ Tail(out) \in Seq(Bit) /\ Rest(s, Tail(out)) /\ Sent(s, Tail(out)) = Sent(s, out) + 1
<1> DEFINE n == Len(s)
           k == Len(out)
           r == Tail(out)
<1>1. n \in Nat /\ k \in Nat
  BY SeqNat
<1>2. k # 0 /\ r \in Seq(Bit) /\ Len(r) = k - 1 /\ \A i \in 1..(k - 1) : r[i] = out[i + 1]
  BY HeadTailProperties, EmptySeq
<1>3. Head(out) = out[1]
  OBVIOUS
<1>4. k <= n /\ \A i \in 1..k : out[i] = s[n - k + i]
  BY DEF Rest
<1> HIDE DEF n, k, r
<1>5. \A i \in 1..(k - 1) : r[i] = s[n - (k - 1) + i]
  <2> TAKE i \in 1..(k - 1)
  <2>1. i + 1 \in 1..k /\ n - k + (i + 1) = n - (k - 1) + i
    BY <1>1
  <2> QED BY <1>2, <1>4, <2>1
<1>6. Rest(s, r)
  BY <1>1, <1>2, <1>4, <1>5 DEF Rest, n
<1>7. Sent(s, out) = n - k /\ Sent(s, r) = n - (k - 1)
  BY <1>2 DEF Sent, n, k
<1>8. 1 \in 1..k /\ out[1] = s[n - k + 1]
  BY <1>1, <1>2, <1>4
<1> QED BY <1>1, <1>2, <1>3, <1>4, <1>6, <1>7, <1>8 DEF n, r

-----------------------------------------------------------------------------
(* The phases of a transfer, each for a target that follows the probe and for *)
(* one that lost it; x is what troubles the line, z whether a bit flipped.     *)

\* A target no answer is to be expected from, between two transfers.
Lagging(t) == t.at = "lost" \/ (t.at = "request" /\ Taken(t) = 6 /\ AllOnes(t.bits, 6))
Resting(t, x) == /\ t.at = "idle" \/ (x # "none" /\ Lagging(t))
                 /\ t.ones <= Width + 10

Asking(t, q, j, z, x) == /\ (Aimed(t, q, j) /\ ~z) \/ (x # "none" /\ Astray(t, q, j, z))
                         /\ Quieted(t, q, j, z)

Hearing(t, m, got, o, p, z, x) ==
  /\ \/ Answered(t, m, got, o, p, z) /\ (m >= 2 => t.ones <= m)
     \/ x # "none" /\ Unanswered(t, m, got, z)
  /\ t.ones <= 6 + m

Refused(t, m, x) ==
  /\ \/ InStep(t, m) /\ ~Accepts(t)
     \/ x # "none" /\ (t.at = "lost" \/ Straggling(t, m))
  /\ t.ones <= 6 + m

Reading(t, m, got, z, x) ==
  /\ Returned(t, m, got, z) \/ (x # "none" /\ t.at = "lost")
  /\ t.ones <= m

Turning(t, m, x) ==
  /\ (InStep(t, m) /\ Accepts(t) /\ ~t.read) \/ (x # "none" /\ t.at = "lost")
  /\ t.ones <= m

Writing(t, w, j, z, x) ==
  /\ Written(t, w, j, z) \/ (x # "none" /\ t.at = "lost")
  /\ t.ones <= 5 + (IF j <= Width THEN j ELSE Width + 1)

\* A bit that may be flipped, once; and what that does to a target's place.
Noise(z, f, y) == /\ z \in BOOLEAN /\ f \in BOOLEAN /\ y \in BOOLEAN
                  /\ (y <=> z \/ f) /\ (f => ~z)
Worse(x, f, x2) == (f => x2 # "none") /\ (x # "none" => x2 # "none")

\* Another bit of the request.
LEMMA AskingStep ==
  ASSUME NEW t, NEW u, NEW q, NEW j \in 0..7, NEW z, NEW f, NEW y, Noise(z, f, y),
         NEW x, NEW x2, Worse(x, f, x2),
         IsPacket(q), Edge(t, Flip(q[j + 1], f), u), Asking(t, q, j, z, x)
  PROVE  Asking(u, q, j + 1, y, x2)
<1>0. z \in BOOLEAN /\ f \in BOOLEAN /\ y \in BOOLEAN /\ (y <=> z \/ f) /\ (f => ~z)
  BY DEF Noise
<1>1. Quieted(t, q, j, z)
  BY DEF Asking
<1>2. Counted(t, Flip(q[j + 1], f)) < ResetOnes
  BY <1>0, <1>1, QuietedCounts
<1>3. Quieted(u, q, j + 1, y)
  BY <1>0, <1>1, QuietedStep
<1>4. CASE Aimed(t, q, j) /\ ~z
  <2>1. y <=> f
    BY <1>0, <1>4
  <2>2. IF f THEN Astray(u, q, j + 1, y) ELSE Aimed(u, q, j + 1)
    BY <1>0, <1>2, <1>4, <2>1, AimedStep
  <2> QED BY <1>0, <1>3, <1>4, <2>1, <2>2 DEF Asking, Worse
<1>5. CASE x # "none" /\ Astray(t, q, j, z)
  <2>1. Astray(u, q, j + 1, y)
    BY <1>0, <1>2, <1>5, AstrayStep
  <2> QED BY <1>3, <1>5, <2>1 DEF Asking, Worse
<1> QED BY <1>4, <1>5 DEF Asking

\* Few ones are not a line reset.
LEMMA FewOnes ==
  ASSUME NEW t, NEW b, NEW u, Edge(t, b, u), t.ones <= Width + 16
  PROVE  Counted(t, b) < ResetOnes /\ u.ones \in Nat /\ t.ones \in Nat /\ u.ones <= t.ones + 1
<1>1. Counted(t, b) \in Nat /\ Counted(t, b) <= t.ones + 1 /\ t.ones \in Nat
  BY CountedIs, Sizes DEF Edge, TargetType
<1>2. Counted(t, b) < ResetOnes
  BY <1>1, Sizes
<1> QED BY <1>1, <1>2, EdgeOnes

\* A lost target hears nothing but a line reset.
LEMMA LostStays ==
  ASSUME NEW t, NEW b, NEW u, Edge(t, b, u), Counted(t, b) < ResetOnes, t.at = "lost"
  PROVE  u.at = "lost"
<1>1. ~(Counted(t, b) >= ResetOnes)
  BY EdgeOnes
<1> QED BY <1>1 DEF Edge

\* Another clock of the acknowledgement.
LEMMA HearingStep ==
  ASSUME NEW t, NEW u, NEW o \in {0, 1}, NEW m \in 0..3, m <= o + 2,
         NEW got \in Seq(Bit), NEW p,
         NEW z, NEW f, NEW y, Noise(z, f, y),
         Edge(t, Released(t), u),
         NEW v \in Bit, ~f => v = Sampled(o, t, u),
         f /\ Accepts(t) => m < o, NEW x,
         Hearing(t, m, got, o, p, z, x)
  PROVE  Hearing(u, m + 1, Append(got, v), o, p, y, x)
<1>0. z \in BOOLEAN /\ f \in BOOLEAN /\ y \in BOOLEAN /\ (y <=> z \/ f) /\ (f => ~z)
  BY DEF Noise
<1>1. t.ones <= 6 + m /\ Width \in Nat \ {0}
  BY Sizes DEF Hearing
<1>2. /\ Counted(t, Released(t)) < ResetOnes
      /\ u.ones \in Nat /\ t.ones \in Nat /\ u.ones <= t.ones + 1
  <2>1. t.ones \in Nat
    BY Sizes DEF Edge, TargetType
  <2>2. t.ones <= Width + 16
    BY <1>1, <2>1
  <2> QED BY <2>2, FewOnes
<1>3. u.ones <= 6 + (m + 1)
  BY <1>1, <1>2
<1>4. CASE Answered(t, m, got, o, p, z) /\ (m >= 2 => t.ones <= m)
  <2>1. Answered(u, m + 1, Append(got, v), o, p, y)
    BY <1>2, <1>4, <1>0, AnsweredStep
  <2>2. InStep(t, m) /\ t.word \in Words /\ t \in TargetType
    BY <1>4 DEF Answered, Edge
  <2>3. Span(t) \in 3..(Width + 4)
    BY <2>2, SpanSizes
  <2>4. Span(t) \in Nat /\ Span(t) >= 3
    BY <2>3, Sizes
  <2>5. m + 1 >= 2 => u.ones <= m + 1
    <3> HAVE m + 1 >= 2
    <3>1. m >= 1
      OBVIOUS
    <3> QED BY <1>2, <1>4, <2>2, <2>4, <3>1, InStepOnes
  <2> QED BY <1>3, <2>1, <2>5 DEF Hearing
<1>5. CASE x # "none" /\ Unanswered(t, m, got, z)
  <2>1. Unanswered(u, m + 1, Append(got, v), y)
    BY <1>2, <1>5, <1>0, UnansweredStep
  <2> QED BY <1>3, <1>5, <2>1 DEF Hearing
<1> QED BY <1>4, <1>5 DEF Hearing

\* Another turnaround clock after a refusal.
LEMMA RefusedStep ==
  ASSUME NEW t, NEW u, NEW m \in 3..4, Edge(t, Released(t), u), NEW x, Refused(t, m, x)
  PROVE  Refused(u, m + 1, x)
<1>1. t.ones <= 6 + m /\ Width \in Nat \ {0} /\ t.ones \in Nat
  BY Sizes DEF Refused, Edge, TargetType
<1>2. t.ones <= Width + 16
  BY <1>1
<1>3. Counted(t, Released(t)) < ResetOnes /\ u.ones \in Nat /\ u.ones <= t.ones + 1
  BY <1>2, FewOnes
<1>4. u.ones <= 6 + (m + 1)
  BY <1>1, <1>3
<1>5. t \in TargetType /\ Formed(t)
  BY DEF Edge
<1>6. CASE InStep(t, m) /\ ~Accepts(t)
  <2>1. Span(t) = 3
    BY <1>5, <1>6, SpanShort
  <2>2. Span(t) \in Nat /\ m <= Span(t) + 1
    BY <2>1
  <2>3. InStep(u, m + 1) /\ Kept(t, u)
    BY <1>3, <1>6, <2>2, InStepStep
  <2>4. ~Accepts(u)
    BY <1>6, <2>3, KeptSame
  <2> QED BY <1>4, <2>3, <2>4 DEF Refused
<1>7. CASE x # "none" /\ t.at = "lost"
  <2>1. u.at = "lost"
    BY <1>3, <1>7, LostStays
  <2> QED BY <1>4, <1>7, <2>1 DEF Refused
<1>8. CASE x # "none" /\ Straggling(t, m)
  <2>1. Released(t) = 1
    BY <1>5, <1>8, ReleasedIs DEF Straggling, Driving
  <2>2. u.at = "lost" \/ Straggling(u, m + 1)
    BY <1>3, <1>8, <2>1, StragglingStep
  <2> QED BY <1>4, <1>8, <2>2 DEF Refused
<1> QED BY <1>6, <1>7, <1>8 DEF Refused

\* Another clock of a read's data phase.
LEMMA ReadingStep ==
  ASSUME NEW t, NEW u, NEW o \in {0, 1}, NEW m \in Nat, m >= 3 + o, m <= Width + 5,
         NEW got \in Seq(Bit), Len(got) = m - 3 - o,
         NEW z, NEW f, NEW y, Noise(z, f, y),
         Edge(t, Released(t), u),
         NEW v \in Bit, ~f => v = Sampled(o, t, u),
         NEW x, Reading(t, m, got, z, x)
  PROVE  Reading(u, m + 1, Append(got, v), y, x)
<1>0. z \in BOOLEAN /\ f \in BOOLEAN /\ y \in BOOLEAN /\ (y <=> z \/ f) /\ (f => ~z)
  BY DEF Noise
<1>1. t.ones <= m /\ Width \in Nat \ {0} /\ t.ones \in Nat
  BY Sizes DEF Reading, Edge, TargetType
<1>2. t.ones <= Width + 16
  BY <1>1
<1>3. Counted(t, Released(t)) < ResetOnes /\ u.ones \in Nat /\ u.ones <= t.ones + 1
  BY <1>2, FewOnes
<1>4. u.ones <= m + 1
  BY <1>1, <1>3
<1>5. CASE Returned(t, m, got, z)
  <2>1. Returned(u, m + 1, Append(got, v), y)
    BY <1>3, <1>5, <1>0, ReturnedStep
  <2> QED BY <1>4, <2>1 DEF Reading
<1>6. CASE x # "none" /\ t.at = "lost"
  <2>1. u.at = "lost"
    BY <1>3, <1>6, LostStays
  <2> QED BY <1>4, <1>6, <2>1 DEF Reading
<1> QED BY <1>5, <1>6 DEF Reading

\* Another turnaround clock before a write's.
LEMMA TurningStep ==
  ASSUME NEW t, NEW u, NEW m \in 3..4, Edge(t, Released(t), u), NEW x, Turning(t, m, x)
  PROVE  Turning(u, m + 1, x)
<1>1. t.ones <= m /\ Width \in Nat \ {0} /\ t.ones \in Nat
  BY Sizes DEF Turning, Edge, TargetType
<1>2. t.ones <= Width + 16
  BY <1>1
<1>3. Counted(t, Released(t)) < ResetOnes /\ u.ones \in Nat /\ u.ones <= t.ones + 1
  BY <1>2, FewOnes
<1>4. u.ones <= m + 1
  BY <1>1, <1>3
<1>5. t \in TargetType /\ Formed(t)
  BY DEF Edge
<1>6. CASE InStep(t, m) /\ Accepts(t) /\ ~t.read
  <2>1. Span(t) = 3
    BY <1>5, <1>6, SpanShort
  <2>2. Span(t) \in Nat /\ m <= Span(t) + 1
    BY <2>1
  <2>3. InStep(u, m + 1) /\ Kept(t, u)
    BY <1>3, <1>6, <2>2, InStepStep
  <2>4. Accepts(u) /\ ~u.read
    BY <1>6, <2>3, KeptSame
  <2> QED BY <1>4, <2>3, <2>4 DEF Turning
<1>7. CASE x # "none" /\ t.at = "lost"
  <2>1. u.at = "lost"
    BY <1>3, <1>7, LostStays
  <2> QED BY <1>4, <1>7, <2>1 DEF Turning
<1> QED BY <1>6, <1>7 DEF Turning

\* Another bit of a write's data phase.
LEMMA WritingStep ==
  ASSUME NEW t, NEW u, NEW w \in [1..Width -> Bit], NEW j \in Nat, NEW b \in Bit,
         NEW z, NEW f, NEW y, Noise(z, f, y),
         j <= Width => (~f => b = Code(w)[j + 1]),
         j > Width => b = 0,
         Edge(t, b, u), NEW x, Writing(t, w, j, z, x)
  PROVE  Writing(u, w, j + 1, y, x)
<1>0. z \in BOOLEAN /\ f \in BOOLEAN /\ y \in BOOLEAN /\ (y <=> z \/ f) /\ (f => ~z)
  BY DEF Noise
<1>1. /\ Width \in Nat \ {0} /\ t.ones \in Nat
      /\ t.ones <= 5 + (IF j <= Width THEN j ELSE Width + 1)
  BY Sizes DEF Writing, Edge, TargetType
<1>2. t.ones <= Width + 16
  BY <1>1
<1>3. Counted(t, b) < ResetOnes /\ u.ones \in Nat /\ u.ones <= t.ones + 1
  BY <1>2, FewOnes
<1>4. b = 0 => u.ones = 0
  BY <1>3, EdgeOnes
<1>5. u.ones <= 5 + (IF j + 1 <= Width THEN j + 1 ELSE Width + 1)
  BY <1>1, <1>3, <1>4
<1>6. CASE Written(t, w, j, z)
  <2>1. Written(u, w, j + 1, y)
    BY <1>3, <1>6, <1>0, WrittenStep
  <2> QED BY <1>5, <2>1 DEF Writing
<1>7. CASE x # "none" /\ t.at = "lost"
  <2>1. u.at = "lost"
    BY <1>3, <1>7, LostStays
  <2> QED BY <1>5, <1>7, <2>1 DEF Writing
<1> QED BY <1>6, <1>7 DEF Writing

-----------------------------------------------------------------------------
(* The inductive invariant: at each place the probe may be, what it has left   *)
(* to do, what it drives and where the target is.                              *)

Stages == {"off", "idle", "request", "ack", "refused", "data", "turn", "write", "sequence",
           "recover"}
HostType == [at : Stages, out : Seq(Bit), clocks : Nat, got : Seq(Bit)]
Troubles == {"none", "deaf", "restarted", "crossed"}
Types ==
  /\ engine \in Engines /\ enabled \subseteq Lines /\ noisy \in BOOLEAN /\ trouble \in Troubles
  /\ host \in HostType /\ target \in TargetType /\ Formed(target)
  /\ job \in [payload : Payloads, word : Words] /\ result \in [ack : Acks, word : Held]

Following == trouble # "crossed"
Silent    == host.out = <<>> /\ host.got = <<>>
Sampling  == host.out = <<>> /\ enabled = {"SWCLK"}
Sending(s) == Rest(s, host.out) /\ host.clocks = 0 /\ host.got = <<>>
Progress(s) == Sent(s, host.out)

InOff == Silent /\ host.clocks = 0 /\ enabled = {} /\ (Following => Calm(target))
InIdle == Silent /\ host.clocks = 0 /\ (Following => Resting(target, trouble))
InRequest ==
  LET q == PacketRequest(job.payload) IN
  Sending(q) /\ (Following => Asking(target, q, Progress(q), noisy, trouble))
InAck ==
  /\ Sampling /\ host.clocks <= Leading + 3 /\ Len(host.got) = Leading + 3 - host.clocks
  /\ Following => Hearing(target, Leading + 3 - host.clocks, host.got, Leading, job.payload,
                          noisy, trouble)
InRefused ==
  /\ Sampling /\ Silent /\ host.clocks <= Trailing /\ result.ack # Ok
  /\ Following => Refused(target, 5 - host.clocks, trouble)
InData ==
  /\ Sampling /\ host.clocks <= ReadPhase /\ Len(host.got) = ReadPhase - host.clocks
  /\ result.ack = Ok /\ Reads(job.payload)
  /\ Following => Reading(target, Width + 6 - host.clocks, host.got, noisy, trouble)
InTurn ==
  /\ Sampling /\ Silent /\ host.clocks <= Trailing
  /\ result.ack = Ok /\ ~Reads(job.payload)
  /\ Following => Turning(target, 5 - host.clocks, trouble)
InWrite ==
  LET s == WritePhase(job.word) IN
  /\ Sending(s) /\ result.ack = Ok /\ ~Reads(job.payload)
  /\ Following => Writing(target, job.word, Progress(s), noisy, trouble)
InSequence ==
  /\ Sending(Sequence) /\ result.ack # Ok
  /\ Resetting(target, Progress(Sequence), trouble)
  /\ Following /\ Progress(Sequence) <= LineOnes => Harmless(target)
InRecover ==
  /\ Sampling /\ Silent /\ host.clocks <= RecoveryCycles
  /\ Stopping(target, host.clocks)

Placed ==
  /\ host.at = "off" => InOff
  /\ host.at = "idle" => InIdle
  /\ host.at = "request" => InRequest
  /\ host.at = "ack" => InAck
  /\ host.at = "refused" => InRefused
  /\ host.at = "data" => InData
  /\ host.at = "turn" => InTurn
  /\ host.at = "write" => InWrite
  /\ host.at = "sequence" => InSequence
  /\ host.at = "recover" => InRecover

Inv == Types /\ Placed /\ WordsIntact

-----------------------------------------------------------------------------
(* One clock. *)

\* The fields of the probe's place, as Quiet, Listen and Speak fill them.
LEMMA HostIs ==
  ASSUME NEW at \in Stages
  PROVE  /\ /\ Quiet(at) \in HostType /\ Quiet(at).at = at /\ Quiet(at).out = <<>>
            /\ Quiet(at).clocks = 0 /\ Quiet(at).got = <<>>
         /\ \A n \in Nat : /\ Listen(at, n) \in HostType /\ Listen(at, n).at = at
                           /\ Listen(at, n).out = <<>> /\ Listen(at, n).clocks = n
                           /\ Listen(at, n).got = <<>>
         /\ \A s \in Seq(Bit) : /\ Speak(at, s) \in HostType /\ Speak(at, s).at = at
                                /\ Speak(at, s).out = s /\ Speak(at, s).clocks = 0
                                /\ Speak(at, s).got = <<>>
<1> DEFINE h == Quiet(at)
<1>1. h \in HostType /\ h.at = at /\ h.out = <<>> /\ h.clocks = 0 /\ h.got = <<>>
  BY DEF Quiet, HostType
<1>2. \A n : Listen(at, n) = [h EXCEPT !.clocks = n]
  BY DEF Listen
<1>3. \A s : Speak(at, s) = [h EXCEPT !.out = s]
  BY DEF Speak
<1> HIDE DEF h
<1>4. ASSUME NEW n \in Nat
      PROVE  /\ Listen(at, n) \in HostType /\ Listen(at, n).at = at
             /\ Listen(at, n).out = <<>> /\ Listen(at, n).clocks = n
             /\ Listen(at, n).got = <<>>
  BY <1>1, <1>2 DEF HostType
<1>5. ASSUME NEW s \in Seq(Bit)
      PROVE  /\ Speak(at, s) \in HostType /\ Speak(at, s).at = at
             /\ Speak(at, s).out = s /\ Speak(at, s).clocks = 0
             /\ Speak(at, s).got = <<>>
  BY <1>1, <1>3 DEF HostType
<1> QED BY <1>1, <1>4, <1>5 DEF h

\* What DriveClock (write_bits of both engines) changes, whatever is being sent.
LEMMA DriveClockSteps ==
  ASSUME Inv, NEW f \in BOOLEAN, host.out # <<>>, MayFlip(f),
         target' \in Clocked(target, Flip(Head(host.out), f)),
         host' = [host EXCEPT !.out = Tail(@)], UNCHANGED <<engine, enabled, job, result>>,
         noisy' \in BOOLEAN, trouble' \in Troubles
  PROVE  /\ Types' /\ Edge(target, Flip(Head(host.out), f), target')
         /\ f => ~noisy
         /\ host'.at = host.at /\ host'.clocks = host.clocks /\ host'.got = host.got
         /\ host'.out = Tail(host.out) /\ host.out \in Seq(Bit)
         /\ host.at \in {"request", "write", "sequence"}
<1>1. Types /\ Placed
  BY DEF Inv
<1>2. host \in HostType /\ host.out \in Seq(Bit) /\ host.at \in Stages
  BY <1>1 DEF Types, HostType
<1>3. Tail(host.out) \in Seq(Bit) /\ Head(host.out) \in Bit
  BY <1>2, HeadTailProperties, EmptySeq
<1>4. host' \in HostType /\ host'.at = host.at /\ host'.clocks = host.clocks
      /\ host'.got = host.got /\ host'.out = Tail(host.out)
  BY <1>2, <1>3 DEF HostType
<1>5. Flip(Head(host.out), f) \in Bit
  BY <1>3, FlipIs
<1>6. Edge(target, Flip(Head(host.out), f), target')
  BY <1>1, <1>5, Edges DEF Types
<1>7. target' \in TargetType /\ Formed(target')
  BY <1>6 DEF Edge
<1>8. Types'
  BY <1>1, <1>4, <1>7 DEF Types
<1>9. f => ~noisy
  BY DEF MayFlip
<1>10. host.at \in {"request", "write", "sequence"}
  BY <1>1, <1>2 DEF Placed, Stages, InOff, InIdle, InAck, InRefused, InData, InTurn, InRecover,
            Silent, Sampling
<1> QED BY <1>2, <1>4, <1>6, <1>8, <1>9, <1>10


\* DriveClock in a request.
LEMMA RequestClock ==
  ASSUME Inv, NEW f \in BOOLEAN, host.out # <<>>, MayFlip(f), host.at = "request",
         target' \in Clocked(target, Flip(Head(host.out), f)),
         host' = [host EXCEPT !.out = Tail(@)], UNCHANGED <<engine, enabled, job, result>>,
         noisy' = (noisy \/ f),
         trouble' = IF f /\ trouble = "none" THEN "deaf" ELSE trouble
  PROVE  Inv'
<1> DEFINE q == PacketRequest(job.payload)
           b == Head(host.out)
           j == Sent(q, host.out)
           t == target
           u == target'
           z == noisy
           y == noisy'
           x == trouble
           x2 == trouble'
<1>1. Types /\ noisy \in BOOLEAN /\ trouble \in Troubles
  BY DEF Inv, Types
<1>2. noisy' \in BOOLEAN /\ trouble' \in Troubles
  BY <1>1 DEF Troubles
<1>3. /\ Types' /\ Edge(t, Flip(b, f), u)
      /\ f => ~noisy
      /\ host'.at = host.at /\ host'.clocks = host.clocks /\ host'.got = host.got
      /\ host'.out = Tail(host.out) /\ host.out \in Seq(Bit)
  BY <1>2, DriveClockSteps
<1>4. InRequest
  BY DEF Inv, Placed
<1>5. Rest(q, host.out) /\ host.clocks = 0 /\ host.got = <<>>
  BY <1>4 DEF InRequest, Sending
<1>6. job.payload \in Payloads
  BY <1>1 DEF Types
<1>7. IsPacket(q) /\ q \in Seq(Bit) /\ Len(q) = 8
  BY <1>6, PacketIs DEF IsPacket
<1>8. /\ j \in 0..7 /\ b = q[j + 1] /\ Tail(host.out) \in Seq(Bit)
      /\ Rest(q, Tail(host.out)) /\ Sent(q, Tail(host.out)) = j + 1
  BY <1>3, <1>5, <1>7, RestStep
<1>9. Following' => Asking(u, q, j + 1, y, x2)
  <2> HAVE Following'
  <2>1. Asking(t, q, j, z, x)
    BY <1>4 DEF InRequest, Following, Progress
  <2>2. Worse(x, f, x2)
    BY DEF Worse
  <2>3. Edge(t, Flip(q[j + 1], f), u)
    BY <1>3, <1>8
  <2>4. Noise(z, f, y)
    BY <1>1, <1>2, <1>3 DEF Noise
  <2> HIDE DEF q, j, t, u, z, y, x, x2
  <2> QED BY <1>7, <1>8, <2>1, <2>2, <2>3, <2>4, AskingStep
<1>10. PacketRequest(job'.payload) = q /\ Progress(q)' = j + 1
  BY <1>3, <1>8 DEF Progress
<1>11. Sending(q)'
  BY <1>3, <1>5, <1>8 DEF Sending
<1>12. InRequest'
  BY <1>9, <1>10, <1>11 DEF InRequest, Progress
<1>13. host'.at = "request"
  BY <1>3
<1>14. Placed'
  BY <1>12, <1>13 DEF Placed
<1>15. WordsIntact'
  BY <1>13 DEF WordsIntact
<1> QED BY <1>3, <1>14, <1>15 DEF Inv


\* DriveClock in a write's data phase.
LEMMA WriteClock ==
  ASSUME Inv, NEW f \in BOOLEAN, host.out # <<>>, MayFlip(f), host.at = "write",
         target' \in Clocked(target, Flip(Head(host.out), f)),
         host' = [host EXCEPT !.out = Tail(@)], UNCHANGED <<engine, enabled, job, result>>,
         noisy' = (noisy \/ f),
         trouble' = IF FalseStart(f) THEN "crossed" ELSE trouble
  PROVE  Inv'
<1> DEFINE w == job.word
           s == WritePhase(w)
           h == Head(host.out)
           b == Flip(h, f)
           j == Sent(s, host.out)
           t == target
           u == target'
           z == noisy
           y == noisy'
           x == trouble
<1>1. Types /\ noisy \in BOOLEAN /\ trouble \in Troubles
  BY DEF Inv, Types
<1>2. noisy' \in BOOLEAN /\ trouble' \in Troubles
  BY <1>1 DEF Troubles
<1>3. /\ Types' /\ Edge(t, b, u)
      /\ f => ~noisy
      /\ host'.at = host.at /\ host'.clocks = host.clocks /\ host'.got = host.got
      /\ host'.out = Tail(host.out) /\ host.out \in Seq(Bit)
  BY <1>2, DriveClockSteps
<1>4. InWrite
  BY DEF Inv, Placed
<1>5. /\ Rest(s, host.out) /\ host.clocks = 0 /\ host.got = <<>>
      /\ result.ack = Ok /\ ~Reads(job.payload)
  BY <1>4 DEF InWrite, Sending
<1>6. w \in [1..Width -> Bit]
  BY <1>1, WidthAssumption DEF Types
<1>7. /\ s \in Seq(Bit) /\ Len(s) \in Nat
      /\ \A i \in 1..(Width + 1) : s[i] = Code(w)[i]
      /\ \A i \in (Width + 2)..Len(s) : s[i] = 0
  BY <1>6, WritePhaseIs
<1>8. /\ j \in 0..(Len(s) - 1) /\ h = s[j + 1] /\ Tail(host.out) \in Seq(Bit)
      /\ Rest(s, Tail(host.out)) /\ Sent(s, Tail(host.out)) = j + 1
  BY <1>3, <1>5, <1>7, RestStep
<1>9. Following' => Writing(u, w, j + 1, y, x)
  <2> HAVE Following'
  <2>1. ~FalseStart(f) /\ trouble' = trouble
    BY DEF Following
  <2>2. Writing(t, w, j, z, x)
    BY <1>4, <2>1 DEF InWrite, Following, Progress
  <2>3. f => t.at = "write"
    BY <2>1 DEF FalseStart
  <2>4. Noise(z, f, y)
    BY <1>1, <1>2, <1>3 DEF Noise
  <2>5. Width \in Nat
    BY Sizes
  <2>6. b \in Bit /\ (~f => b = h)
    BY <1>3, FlipIs DEF Edge, Flip
  <2> HIDE DEF w, s, h, b, j, t, u, z, y, x
  <2>7. j <= Width => (~f => b = Code(w)[j + 1])
    <3> SUFFICES ASSUME j <= Width, ~f PROVE b = Code(w)[j + 1]
      OBVIOUS
    <3>1. j + 1 \in 1..(Width + 1)
      BY <1>7, <1>8, <2>5
    <3> QED BY <1>7, <1>8, <2>6, <3>1
  <2>8. j > Width => b = 0
    <3> HAVE j > Width
    <3>1. ~(j <= Width)
      BY <1>7, <1>8, <2>5
    <3>2. ~f
      BY <2>2, <2>3, <3>1 DEF Writing, Written
    <3>3. j + 1 \in (Width + 2)..Len(s)
      BY <1>7, <1>8, <2>5
    <3> QED BY <1>7, <1>8, <2>6, <3>2, <3>3
  <2>9. j \in Nat
    BY <1>7, <1>8
  <2> QED BY <1>3, <1>6, <2>2, <2>4, <2>6, <2>7, <2>8, <2>9, WritingStep
<1>10. WritePhase(w)' = s /\ Progress(s)' = j + 1 /\ job'.word = w
  BY <1>3, <1>8 DEF Progress, WritePhase, Zeros
<1>11. Sending(s)'
  BY <1>3, <1>5, <1>8, <1>10 DEF Sending
<1>12. Following' => trouble' = x
  BY DEF Following
<1>13. InWrite'
  <2>1. Following' => Writing(u, w, j + 1, y, trouble')
    BY <1>9, <1>12
  <2>2. result'.ack = Ok /\ ~Reads(job'.payload)
    BY <1>5
  <2> QED BY <1>10, <1>11, <2>1, <2>2 DEF InWrite, Progress, Reads
<1>14. host'.at = "write"
  BY <1>3
<1>15. Placed'
  BY <1>13, <1>14 DEF Placed
<1>16. WordsIntact'
  BY <1>14 DEF WordsIntact
<1> QED BY <1>3, <1>15, <1>16 DEF Inv

\* DriveClock in a line reset.
LEMMA SequenceClock ==
  ASSUME Inv, host.out # <<>>, host.at = "sequence",
         target' \in Clocked(target, Flip(Head(host.out), FALSE)), MayFlip(FALSE),
         host' = [host EXCEPT !.out = Tail(@)], UNCHANGED <<engine, enabled, job, result>>,
         noisy' \in BOOLEAN, trouble' = trouble
  PROVE  Inv'
<1> DEFINE s == Sequence
           h == Head(host.out)
           j == Sent(s, host.out)
           t == target
           u == target'
           x == trouble
<1>1. Types /\ trouble' \in Troubles
  BY DEF Inv, Types
<1>2. Flip(h, FALSE) = h
  BY DEF Flip
<1>3. /\ Types' /\ Edge(t, h, u)
      /\ host'.at = host.at /\ host'.clocks = host.clocks /\ host'.got = host.got
      /\ host'.out = Tail(host.out) /\ host.out \in Seq(Bit)
  BY <1>1, <1>2, DriveClockSteps
<1>4. InSequence
  BY DEF Inv, Placed
<1>5. /\ Rest(s, host.out) /\ host.clocks = 0 /\ host.got = <<>> /\ result.ack # Ok
      /\ Resetting(t, j, x) /\ (Following /\ j <= LineOnes => Harmless(t))
  BY <1>4 DEF InSequence, Sending, Progress
<1>6. /\ s \in Seq(Bit) /\ Len(s) = 2 * LineOnes + 24 /\ LineOnes \in Nat
      /\ \A i \in 1..LineOnes : s[i] = 1
  BY SequenceIs, Sizes
<1>7. /\ j \in 0..(Len(s) - 1) /\ h = s[j + 1] /\ Tail(host.out) \in Seq(Bit)
      /\ Rest(s, Tail(host.out)) /\ Sent(s, Tail(host.out)) = j + 1
  BY <1>3, <1>5, <1>6, RestStep
<1>8. Progress(s)' = j + 1
  BY <1>3, <1>7 DEF Progress
<1>9. Sending(s)'
  BY <1>3, <1>5, <1>7 DEF Sending
<1> HIDE DEF s, h, j, t, u, x
<1>10. j \in 0..(2 * LineOnes + 23)
  BY <1>6, <1>7
<1>11. Resetting(u, j + 1, x)
  BY <1>3, <1>5, <1>7, <1>10, ResettingStep DEF s
<1>12. Following /\ j + 1 <= LineOnes => Harmless(u)
  <2> HAVE Following /\ j + 1 <= LineOnes
  <2>1. j <= LineOnes /\ j + 1 \in 1..LineOnes
    BY <1>6, <1>10
  <2>2. h = 1
    BY <1>6, <1>7, <2>1
  <2> QED BY <1>3, <1>5, <2>1, <2>2, HarmlessStep
<1>13. Following' <=> Following
  BY DEF Following
<1>14. InSequence'
  BY <1>5, <1>8, <1>9, <1>11, <1>12, <1>13 DEF InSequence, s, u, x
<1>15. host'.at = "sequence"
  BY <1>3
<1>16. Placed'
  BY <1>14, <1>15 DEF Placed
<1>17. WordsIntact'
  BY <1>15 DEF WordsIntact
<1> QED BY <1>3, <1>16, <1>17 DEF Inv

\* DriveClock keeps the invariant.
LEMMA DriveClockInv == ASSUME Inv, DriveClock PROVE Inv'
<1>1. PICK f \in BOOLEAN :
        /\ MayFlip(f)
        /\ target' \in Clocked(target, Flip(Head(host.out), f))
        /\ noisy' = (noisy \/ f)
        /\ trouble' = IF FalseStart(f) THEN "crossed"
                      ELSE IF f /\ host.at = "request" /\ trouble = "none"
                      THEN "deaf" ELSE trouble
  BY DEF DriveClock
<1>2. /\ host.out # <<>> /\ host' = [host EXCEPT !.out = Tail(@)]
      /\ UNCHANGED <<engine, enabled, job, result>>
  BY DEF DriveClock
<1>3. noisy \in BOOLEAN /\ trouble \in Troubles
  BY DEF Inv, Types
<1>4. noisy' \in BOOLEAN /\ trouble' \in Troubles
  BY <1>1, <1>3 DEF Troubles
<1>5. host.at \in {"request", "write", "sequence"}
  BY <1>1, <1>2, <1>4, DriveClockSteps
<1>6. CASE host.at = "request"
  <2>1. trouble' = IF f /\ trouble = "none" THEN "deaf" ELSE trouble
    BY <1>1, <1>6 DEF FalseStart
  <2> QED BY <1>1, <1>2, <1>6, <2>1, RequestClock
<1>7. CASE host.at = "write"
  <2>1. trouble' = IF FalseStart(f) THEN "crossed" ELSE trouble
    BY <1>1, <1>7
  <2> QED BY <1>1, <1>2, <1>7, <2>1, WriteClock
<1>8. CASE host.at = "sequence"
  <2>1. f = FALSE
    BY <1>1, <1>8 DEF MayFlip
  <2>2. trouble' = trouble
    BY <1>1, <1>8, <2>1 DEF FalseStart
  <2> QED BY <1>1, <1>2, <1>4, <1>8, <2>1, <2>2, SequenceClock
<1> QED BY <1>5, <1>6, <1>7, <1>8


\* What leading_turnaround and trailing_turnaround come to: two clocks in all.
LEMMA EngineIs ==
  /\ Leading \in {0, 1} /\ Trailing = 2 - Leading /\ Trailing \in {1, 2}
  /\ ReadPhase = Width + 3 - Leading
<1>1. Width \in Nat
  BY Sizes
<1> QED BY <1>1 DEF Leading, Trailing, ReadPhase

\* What SampleClock (read_bits of both engines) changes, whatever is being read.
LEMMA SampleClockSteps ==
  ASSUME Inv, NEW f \in BOOLEAN, NEW next \in Clocked(target, Released(target)),
         host.clocks > 0, MayFlip(f), target' = next,
         host' = [host EXCEPT !.clocks = @ - 1,
                     !.got = IF host.at \in {"ack", "data"}
                             THEN Append(@, Flip(Sample(next), f)) ELSE @],
         noisy' = (noisy \/ f), UNCHANGED <<engine, enabled, job, result>>,
         trouble' = IF Crosses(f) THEN "crossed" ELSE trouble
  PROVE  LET v == Flip(Sample(next), f) IN
         /\ Types' /\ Edge(target, Released(target), target') /\ Noise(noisy, f, noisy')
         /\ v \in Bit /\ (~f => v = Sampled(Leading, target, target'))
         /\ host.at \in {"ack", "refused", "data", "turn", "recover"}
         /\ host'.at = host.at /\ host'.clocks = host.clocks - 1 /\ host'.out = host.out
         /\ host.at \in {"ack", "data"} => host'.got = Append(host.got, v)
         /\ host.at \notin {"ack", "data"} => host'.got = host.got /\ trouble' = trouble
         /\ host.at = "data" => trouble' = trouble
         /\ host.clocks \in Nat \ {0} /\ host.got \in Seq(Bit)
         /\ Following' => Following /\ trouble' = trouble /\ ~Crosses(f)
<1> DEFINE v == Flip(Sample(next), f)
<1>1. Types /\ Placed
  BY DEF Inv
<1>2. /\ host \in HostType /\ host.got \in Seq(Bit) /\ host.at \in Stages /\ host.clocks \in Nat
      /\ noisy \in BOOLEAN /\ trouble \in Troubles /\ target \in TargetType /\ Formed(target)
  BY <1>1 DEF Types, HostType
<1>3. Released(target) \in Bit
  BY <1>2, ReleasedIs
<1>4. Edge(target, Released(target), target')
  BY <1>2, <1>3, Edges
<1>5. target' \in TargetType /\ Formed(target')
  BY <1>4 DEF Edge
<1>6. Released(target') \in Bit
  BY <1>5, ReleasedIs
<1>7. Sample(next) = Sampled(Leading, target, target')
  BY DEF Sample, Sampled, Leading
<1>8. Sample(next) \in Bit
  BY <1>3, <1>6 DEF Sample
<1>9. v \in Bit /\ (~f => v = Sampled(Leading, target, target'))
  BY <1>7, <1>8, FlipIs
<1> HIDE DEF v
<1>10. host' = [host EXCEPT !.clocks = @ - 1,
                  !.got = IF host.at \in {"ack", "data"} THEN Append(@, v) ELSE @]
  BY DEF v
<1>11. Append(host.got, v) \in Seq(Bit) /\ host.clocks - 1 \in Nat /\ host.clocks \in Nat \ {0}
  BY <1>2, <1>9
<1>12. /\ host' \in HostType /\ host'.at = host.at /\ host'.clocks = host.clocks - 1
       /\ host'.out = host.out
       /\ host.at \in {"ack", "data"} => host'.got = Append(host.got, v)
       /\ host.at \notin {"ack", "data"} => host'.got = host.got
  BY <1>2, <1>10, <1>11 DEF HostType
<1>13. noisy' \in BOOLEAN /\ trouble' \in Troubles
  BY <1>2 DEF Troubles
<1>14. Types'
  BY <1>1, <1>5, <1>12, <1>13 DEF Types
<1>15. Noise(noisy, f, noisy')
  BY <1>2, <1>13 DEF Noise, MayFlip
<1>16. host.at \in {"ack", "refused", "data", "turn", "recover"}
  BY <1>1, <1>2, <1>11 DEF Placed, Stages, InOff, InIdle, InRequest, InWrite, InSequence, Sending
<1>17. host.at # "ack" => trouble' = trouble
  BY DEF Crosses
<1>18. Following' => Following /\ trouble' = trouble /\ ~Crosses(f)
  BY DEF Following
<1> QED BY <1>2, <1>4, <1>9, <1>11, <1>12, <1>14, <1>15, <1>16, <1>17, <1>18 DEF v

\* SampleClock keeps the invariant, in each place that samples.
LEMMA SampleClockInv == ASSUME Inv, SampleClock PROVE Inv'
<1>1. PICK f \in BOOLEAN, next \in Clocked(target, Released(target)) :
        /\ MayFlip(f) /\ target' = next /\ noisy' = (noisy \/ f)
        /\ host' = [host EXCEPT !.clocks = @ - 1,
                     !.got = IF host.at \in {"ack", "data"}
                             THEN Append(@, Flip(Sample(next), f)) ELSE @]
        /\ trouble' = IF Crosses(f) THEN "crossed" ELSE trouble
  BY DEF SampleClock
<1> DEFINE v == Flip(Sample(next), f)
           t == target
           u == target'
           z == noisy
           y == noisy'
           x == trouble
           c == host.clocks
           o == Leading
           p == job.payload
           g == host.got
<1>2. host.clocks > 0 /\ UNCHANGED <<engine, enabled, job, result>>
  BY DEF SampleClock
<1>3. /\ Types' /\ Edge(t, Released(t), u) /\ Noise(z, f, y)
      /\ v \in Bit /\ (~f => v = Sampled(o, t, u))
      /\ host.at \in {"ack", "refused", "data", "turn", "recover"}
      /\ host'.at = host.at /\ host'.clocks = c - 1 /\ host'.out = host.out
      /\ host.at \in {"ack", "data"} => host'.got = Append(g, v)
      /\ host.at \notin {"ack", "data"} => host'.got = g /\ trouble' = x
      /\ c \in Nat \ {0} /\ g \in Seq(Bit)
      /\ Following' => Following /\ trouble' = x /\ ~Crosses(f)
  BY <1>1, <1>2, SampleClockSteps
<1>4. Placed /\ o \in {0, 1} /\ o' = o /\ Trailing' = Trailing /\ ReadPhase' = ReadPhase
  BY <1>2 DEF Inv, Leading, Trailing, ReadPhase
<1>5. Trailing = 2 - o /\ ReadPhase = Width + 3 - o /\ Width \in Nat
  BY EngineIs, Sizes
<1>6. Sampling => Sampling'
  BY <1>2, <1>3 DEF Sampling
<1>7. WordsIntact'
  BY <1>3 DEF WordsIntact
<1>8. Crosses(f) <=> f /\ host.at = "ack" /\ c <= 3 /\ Accepts(t)
  BY DEF Crosses
<1>9. p' = p /\ result' = result /\ (Reads(p)' <=> Reads(p))
  BY <1>2 DEF Reads
<1> HIDE DEF v, t, u, z, y, x, c, o, p, g
<1>10. CASE host.at = "ack"
  <2> DEFINE m == o + 3 - c
  <2>1. InAck
    BY <1>4, <1>10 DEF Placed
  <2>2. Sampling /\ c <= o + 3 /\ Len(g) = m /\ (Following => Hearing(t, m, g, o, p, z, x))
    BY <2>1 DEF InAck, c, o, g, t, p, z, x
  <2>3. m \in 0..3 /\ m <= o + 2 /\ o + 3 - (c - 1) = m + 1 /\ c - 1 <= o + 3
    BY <1>3, <1>4, <2>2
  <2>4. Following' => Hearing(u, m + 1, Append(g, v), o, p, y, x)
    <3> HAVE Following'
    <3>1. f /\ Accepts(t) => m < o
      <4> HAVE f /\ Accepts(t)
      <4>1. ~(c <= 3)
        BY <1>3, <1>8, <1>10
      <4> QED BY <1>3, <1>4, <4>1
    <3>2. Hearing(t, m, g, o, p, z, x)
      BY <1>3, <2>2
    <3> HIDE DEF m
    <3> QED BY <1>3, <1>4, <2>3, <3>1, <3>2, HearingStep
  <2>5. Len(Append(g, v)) = m + 1
    BY <1>3, <2>2, AppendIs
  <2>6. host'.at = "ack" /\ host'.got = Append(g, v) /\ host'.clocks = c - 1
    BY <1>3, <1>10
  <2>7. InAck'
    <3>1. Leading' + 3 - host'.clocks = m + 1 /\ host'.clocks <= Leading' + 3
      BY <1>4, <2>3, <2>6 DEF o
    <3> HIDE DEF m
    <3>2. Following' => Hearing(target', m + 1, host'.got, Leading', job'.payload, noisy', trouble')
      BY <1>3, <1>4, <1>9, <2>4, <2>6 DEF u, o, p, y
    <3> QED BY <1>6, <2>2, <2>5, <2>6, <3>1, <3>2 DEF InAck
  <2>8. Placed'
    BY <2>6, <2>7 DEF Placed
  <2> QED BY <1>3, <1>7, <2>8 DEF Inv
<1>11. CASE host.at = "refused"
  <2>1. InRefused
    BY <1>4, <1>11 DEF Placed
  <2>2. /\ Sampling /\ Silent /\ c <= Trailing /\ result.ack # Ok
        /\ Following => Refused(t, 5 - c, x)
    BY <2>1 DEF InRefused, c, t, x
  <2>3. 5 - c \in 3..4 /\ 5 - (c - 1) = (5 - c) + 1 /\ c - 1 <= Trailing
    BY <1>3, <1>4, <1>5, <2>2
  <2>4. Following' => Refused(u, (5 - c) + 1, x)
    BY <1>3, <2>2, <2>3, RefusedStep
  <2>5. host'.at = "refused" /\ host'.clocks = c - 1 /\ Silent'
    BY <1>3, <1>11, <2>2 DEF Silent, g
  <2>6. InRefused'
    <3>1. Following' => Refused(target', 5 - host'.clocks, trouble')
      BY <1>3, <2>3, <2>4, <2>5 DEF u
    <3> QED BY <1>4, <1>6, <1>9, <2>2, <2>3, <2>5, <3>1 DEF InRefused
  <2>7. Placed'
    BY <2>5, <2>6 DEF Placed
  <2> QED BY <1>3, <1>7, <2>7 DEF Inv
<1>12. CASE host.at = "data"
  <2> DEFINE m == Width + 6 - c
  <2>1. InData
    BY <1>4, <1>12 DEF Placed
  <2>2. /\ Sampling /\ c <= ReadPhase /\ Len(g) = ReadPhase - c /\ result.ack = Ok /\ Reads(p)
        /\ Following => Reading(t, m, g, z, x)
    BY <2>1 DEF InData, c, g, t, p, z, x
  <2>3. /\ m \in Nat /\ m >= 3 + o /\ m <= Width + 5 /\ Len(g) = m - 3 - o
        /\ Width + 6 - (c - 1) = m + 1 /\ c - 1 <= ReadPhase /\ ReadPhase - (c - 1) = Len(g) + 1
    BY <1>3, <1>4, <1>5, <2>2
  <2>4. Following' => Reading(u, m + 1, Append(g, v), y, x)
    <3> HIDE DEF m
    <3> QED BY <1>3, <1>4, <2>2, <2>3, ReadingStep
  <2>5. Len(Append(g, v)) = Len(g) + 1
    BY <1>3, AppendIs
  <2>6. host'.at = "data" /\ host'.got = Append(g, v) /\ host'.clocks = c - 1
    BY <1>3, <1>12
  <2>7. InData'
    <3>1. Width + 6 - host'.clocks = m + 1
      BY <2>3, <2>6
    <3> HIDE DEF m
    <3>2. Following' => Reading(target', m + 1, host'.got, noisy', trouble')
      BY <1>3, <2>4, <2>6 DEF u, y
    <3>3. Reads(job'.payload)
      BY <1>9, <2>2 DEF p
    <3> QED BY <1>4, <1>6, <1>9, <2>2, <2>3, <2>5, <2>6, <3>1, <3>2, <3>3 DEF InData
  <2>8. Placed'
    BY <2>6, <2>7 DEF Placed
  <2> QED BY <1>3, <1>7, <2>8 DEF Inv
<1>13. CASE host.at = "turn"
  <2>1. InTurn
    BY <1>4, <1>13 DEF Placed
  <2>2. /\ Sampling /\ Silent /\ c <= Trailing /\ result.ack = Ok /\ ~Reads(p)
        /\ Following => Turning(t, 5 - c, x)
    BY <2>1 DEF InTurn, c, t, x, p
  <2>3. 5 - c \in 3..4 /\ 5 - (c - 1) = (5 - c) + 1 /\ c - 1 <= Trailing
    BY <1>3, <1>4, <1>5, <2>2
  <2>4. Following' => Turning(u, (5 - c) + 1, x)
    BY <1>3, <2>2, <2>3, TurningStep
  <2>5. host'.at = "turn" /\ host'.clocks = c - 1 /\ Silent'
    BY <1>3, <1>13, <2>2 DEF Silent, g
  <2>6. InTurn'
    <3>1. Following' => Turning(target', 5 - host'.clocks, trouble')
      BY <1>3, <2>3, <2>4, <2>5 DEF u
    <3>2. ~Reads(job'.payload)
      BY <1>9, <2>2 DEF p
    <3> QED BY <1>4, <1>6, <1>9, <2>2, <2>3, <2>5, <3>1, <3>2 DEF InTurn
  <2>7. Placed'
    BY <2>5, <2>6 DEF Placed
  <2> QED BY <1>3, <1>7, <2>7 DEF Inv
<1>14. CASE host.at = "recover"
  <2>1. InRecover
    BY <1>4, <1>14 DEF Placed
  <2>2. Sampling /\ Silent /\ c <= RecoveryCycles /\ Stopping(t, c)
    BY <2>1 DEF InRecover, c, t
  <2>3. c \in 1..RecoveryCycles /\ c - 1 <= RecoveryCycles
    BY <1>3, <2>2, Sizes
  <2>4. Stopping(u, c - 1)
    BY <1>3, <2>2, <2>3, StoppingStep
  <2>5. host'.at = "recover" /\ host'.clocks = c - 1 /\ Silent'
    BY <1>3, <1>14, <2>2 DEF Silent, g
  <2>6. InRecover'
    BY <1>6, <2>2, <2>3, <2>4, <2>5 DEF InRecover, u
  <2>7. Placed'
    BY <2>5, <2>6 DEF Placed
  <2> QED BY <1>3, <1>7, <2>7 DEF Inv
<1> QED BY <1>3, <1>10, <1>11, <1>12, <1>13, <1>14

-----------------------------------------------------------------------------
(* Where one phase ends and the next begins. *)

\* Between transfers a target is calm.
LEMMA RestingIsCalm == ASSUME NEW t, NEW x, Resting(t, x) PROVE Calm(t)
BY DEF Resting, Lagging, Calm

\* Lines driven again may be an edge, and that one a start bit.
LEMMA AskingBegins ==
  ASSUME NEW t \in TargetType, NEW u, NEW q, NEW x, NEW x2, Resting(t, x),
         \/ u = t /\ x2 = x
         \/ /\ \E b \in Bit : Edge(t, b, u)
            /\ x # "none" \/ u # t => x2 # "none"
  PROVE  Asking(u, q, 0, FALSE, x2)
<1>1. t.ones <= Width + 10 /\ Width \in Nat /\ t.ones \in Nat
  BY Sizes DEF Resting, TargetType
<1>2. t.at = "idle" \/ (x # "none" /\ Lagging(t))
  BY DEF Resting
<1>3. ASSUME u.ones <= Width + 11 PROVE Quieted(u, q, 0, FALSE)
  <2>1. \A i \in 2..0 : FALSE
    OBVIOUS
  <2>2. ~(0 >= 7)
    OBVIOUS
  <2>3. u.ones <= Width + 11 + 0
    BY <1>1, <1>3
  <2> QED BY <2>1, <2>2, <2>3 DEF Quieted
<1>4. CASE u = t /\ x2 = x
  <2>1. u.ones <= Width + 11
    BY <1>1, <1>4
  <2>2. CASE t.at = "idle"
    BY <1>3, <1>4, <2>1, <2>2 DEF Asking, Aimed
  <2>3. CASE x # "none" /\ Lagging(t)
    <3>1. Astray(u, q, 0, FALSE)
      <4>1. t.at = "lost" \/ SixOnes(t)
        BY <2>3 DEF Lagging, SixOnes
      <4> QED BY <1>4, <4>1 DEF Astray
    <3> QED BY <1>3, <1>4, <2>1, <2>3, <3>1 DEF Asking
  <2> QED BY <1>2, <2>2, <2>3
<1>5. CASE (\E b \in Bit : Edge(t, b, u)) /\ (x # "none" \/ u # t => x2 # "none")
  <2>1. PICK b \in Bit : Edge(t, b, u)
    BY <1>5
  <2>2. t.ones <= Width + 16
    BY <1>1
  <2>3. Counted(t, b) < ResetOnes /\ u.ones \in Nat /\ u.ones <= t.ones + 1
    BY <2>1, <2>2, FewOnes
  <2>4. ~(Counted(t, b) >= ResetOnes)
    BY <2>1, <2>3, EdgeOnes
  <2>5. Quieted(u, q, 0, FALSE)
    <3>1. u.ones <= Width + 11
      BY <1>1, <2>3
    <3> QED BY <1>3, <3>1
  <2>6. CASE t.at = "idle" /\ b = 0
    <3>1. u.at = "idle"
      BY <2>1, <2>4, <2>6 DEF Edge
    <3> QED BY <2>5, <3>1 DEF Asking, Aimed
  <2>7. CASE t.at = "idle" /\ b = 1
    <3>1. u.at = "request" /\ Taken(u) = 1 /\ u.bits[1] = 1
      BY <2>1, <2>4, <2>7 DEF Edge
    <3>2. x2 # "none"
      BY <1>5, <2>7, <3>1
    <3>3. Early(u, q, 0, FALSE)
      BY <3>1 DEF Early
    <3> QED BY <2>5, <3>2, <3>3 DEF Asking, Astray
  <2>8. CASE x # "none" /\ Lagging(t)
    <3>1. CASE t.at = "lost"
      <4>1. u.at = "lost"
        BY <2>1, <2>3, <3>1, LostStays
      <4> QED BY <1>5, <2>5, <2>8, <4>1 DEF Asking, Astray
    <3>2. CASE t.at = "request" /\ Taken(t) = 6 /\ AllOnes(t.bits, 6)
      <4>1. u.at = "request" /\ Longer(t, b, u)
        BY <2>1, <2>4, <3>2 DEF Edge
      <4>2. Taken(u) = 7 /\ \A i \in 1..6 : u.bits[i] = t.bits[i]
        BY <3>2, <4>1 DEF Longer
      <4>3. SixOnes(u)
        BY <3>2, <4>1, <4>2 DEF SixOnes, AllOnes
      <4> QED BY <1>5, <2>5, <2>8, <4>3 DEF Asking, Astray
    <3> QED BY <2>8, <3>1, <3>2 DEF Lagging
  <2> QED BY <1>2, <2>6, <2>7, <2>8 DEF Bit
<1> QED BY <1>4, <1>5

\* The whole request is out, and nothing is heard yet.
LEMMA HearingBegins ==
  ASSUME NEW t \in TargetType, Formed(t), NEW p \in Payloads, NEW z, NEW x,
         Asking(t, PacketRequest(p), 8, z, x), NEW o \in {0, 1}
  PROVE  Hearing(t, 0, <<>>, o, p, z, x)
<1> DEFINE q == PacketRequest(p)
           none == <<>>
           k == Taken(t)
<1>1. IsPacket(q) /\ q[3] = p[2]
  BY PacketIs DEF IsPacket
<1>2. q[1] = 1 /\ q[7] = 0 /\ q[8] = 1
  BY <1>1 DEF IsPacket
<1>3. Asking(t, q, 8, z, x)
  OBVIOUS
<1>4. none \in Seq(Bit) /\ Len(none) = 0 /\ k \in Nat
  BY TakenIs
<1> HIDE DEF q, none, k
<1>5. t.ones \in Nat /\ t.ones <= 6
  BY <1>3, Sizes DEF Asking, Quieted, TargetType
<1>6. Blank(none, z)
  BY <1>4 DEF Blank
<1>7. HeardAck(t, none, o, z)
  <2>1. \A i \in 1..3 : ~Misheard(t, none, o, i)
    BY <1>4 DEF Misheard
  <2> QED BY <2>1, Zenon DEF HeardAck
<1>8. CASE Aimed(t, q, 8)
  <2>1. t.at = "answer" /\ t.n = 0 /\ (t.read <=> q[3] = 1)
    BY <1>8 DEF Aimed
  <2>2. t.word \in Words
    BY <2>1 DEF Formed
  <2>3. Span(t) \in 3..(Width + 4)
    BY <2>2, SpanSizes
  <2>4. InStep(t, 0)
    BY <2>1, <2>3, Sizes DEF InStep
  <2>5. t.read <=> Reads(p)
    BY <1>1, <2>1 DEF Reads
  <2>6. Answered(t, 0, none, o, p, z)
    BY <1>4, <1>7, <2>2, <2>4, <2>5 DEF Answered
  <2> QED BY <1>5, <2>6 DEF Hearing, none
<1>9. CASE x # "none" /\ Astray(t, q, 8, z)
  <2>0. ASSUME t.at = "lost" \/ Straggling(t, 0) PROVE Hearing(t, 0, none, o, p, z, x)
    <3>1. Unanswered(t, 0, none, z)
      BY <1>6, <2>0 DEF Unanswered
    <3> QED BY <1>5, <1>9, <3>1 DEF Hearing
  <2>1. CASE SixOnes(t)
    <3>1. Straggling(t, 0)
      BY <1>4, <2>1 DEF SixOnes, Straggling, k
    <3> QED BY <2>0, <3>1 DEF none
  <2>2. CASE Late(t, q, 8, z)
    <3>1. /\ t.at = "request" /\ k < 8 /\ t.bits[1] = 1
          /\ \A i \in 1..k : t.bits[i] = q[8 - k + i]
      BY <2>2 DEF Late, k
    <3>2. k \in 1..7
      BY <3>1 DEF Formed, k
    <3>3. k # 2
      <4> SUFFICES ASSUME k = 2 PROVE FALSE
        OBVIOUS
      <4>1. t.bits[1] = q[7]
        BY <3>1
      <4> QED BY <1>2, <3>1, <4>1
    <3>4. k = 7 => t.bits[7] = 1
      <4> HAVE k = 7
      <4>1. t.bits[7] = q[8]
        BY <3>1
      <4> QED BY <1>2, <4>1
    <3>5. k = 1 => AllOnes(t.bits, k)
      BY <3>1 DEF AllOnes
    <3>6. Straggling(t, 0)
      BY <3>1, <3>2, <3>3, <3>4, <3>5 DEF Straggling, k
    <3> QED BY <2>0, <3>6 DEF none
  <2>3. ~Missed(t, 8, z)
    BY DEF Missed
  <2>4. ~Early(t, q, 8, z) /\ ~Bent(t, q, 8, z)
    BY DEF Early, Bent, Formed
  <2> QED BY <1>9, <2>0, <2>1, <2>2, <2>3, <2>4 DEF Astray, none
<1> QED BY <1>3, <1>8, <1>9 DEF Asking

\* The acknowledgement is in: a is the one the probe heard.
LEMMA HeardOk ==
  ASSUME NEW t \in TargetType, NEW o \in {0, 1}, NEW got \in Seq(Bit), NEW p, NEW z, NEW a,
         \A i \in 1..3 : a[i] = got[o + i], Answered(t, o + 3, got, o, p, z)
  PROVE  /\ Accepts(t) => \A i \in 1..3 : a[i] = Ok[i]
         /\ a = Ok => Accepts(t)
<1>1. HeardAck(t, got, o, z) /\ Len(got) = o + 3
  BY DEF Answered
<1>2. t.ack \in {Ok, Wait, Fault}
  BY DEF TargetType
<1>3. \A i \in 1..3 : Misheard(t, got, o, i) <=> a[i] # t.ack[i]
  BY <1>1 DEF Misheard
<1>4. Accepts(t) => \A i \in 1..3 : ~Misheard(t, got, o, i)
  BY <1>1, Zenon DEF HeardAck
<1>5. \A i, k \in 1..3 : Misheard(t, got, o, i) /\ Misheard(t, got, o, k) => i = k
  BY <1>1, Zenon DEF HeardAck
<1>6. Accepts(t) => \A i \in 1..3 : a[i] = Ok[i]
  BY <1>3, <1>4 DEF Accepts
<1>7. a = Ok => Accepts(t)
  <2> SUFFICES ASSUME a = Ok, ~Accepts(t) PROVE FALSE
    OBVIOUS
  <2>1. a[1] = 1 /\ a[2] = 0 /\ a[3] = 0
    BY DEF Ok
  <2>2. \/ t.ack[1] = 0 /\ t.ack[2] = 1
        \/ t.ack[1] = 0 /\ t.ack[3] = 1
    BY <1>2 DEF Accepts, Wait, Fault
  <2>3. 1 \in 1..3 /\ 2 \in 1..3 /\ 3 \in 1..3 /\ 1 # 2 /\ 1 # 3
    OBVIOUS
  <2>4. CASE t.ack[1] = 0 /\ t.ack[2] = 1
    <3>1. Misheard(t, got, o, 1) /\ Misheard(t, got, o, 2)
      BY <1>3, <2>1, <2>3, <2>4
    <3> QED BY <1>5, <2>3, <3>1, Zenon
  <2>5. CASE t.ack[1] = 0 /\ t.ack[3] = 1
    <3>1. Misheard(t, got, o, 1) /\ Misheard(t, got, o, 3)
      BY <1>3, <2>1, <2>3, <2>5
    <3> QED BY <1>5, <2>3, <3>1, Zenon
  <2> QED BY <2>2, <2>4, <2>5
<1> QED BY <1>6, <1>7

\* A silent target is not heard to accept.
LEMMA HeardNothing ==
  ASSUME NEW o \in {0, 1}, NEW got \in Seq(Bit), Len(got) >= o + 3, NEW z, Blank(got, z),
         \A i \in 1..3 : Ok[i] = got[o + i]
  PROVE  FALSE
<1>1. Ok[2] = 0 /\ Ok[3] = 0
  BY DEF Ok
<1>2. got[o + 2] = 0 /\ got[o + 3] = 0
  BY <1>1
<1>3. o + 2 \in 1..Len(got) /\ o + 3 \in 1..Len(got) /\ o + 2 # o + 3
  OBVIOUS
<1>4. \A i, k \in 1..Len(got) : got[i] = 0 /\ got[k] = 0 => i = k
  BY Zenon DEF Blank
<1> QED BY <1>2, <1>3, <1>4

\* An acknowledgement that is not OK: the target does not go on either.
LEMMA RefusedBegins ==
  ASSUME NEW t \in TargetType, NEW o \in {0, 1}, NEW got \in Seq(Bit), NEW p, NEW z, NEW x,
         NEW a \in Acks, \A i \in 1..3 : a[i] = got[o + i], a # Ok,
         Hearing(t, o + 3, got, o, p, z, x)
  PROVE  Refused(t, o + 3, x)
<1>1. CASE Answered(t, o + 3, got, o, p, z)
  <2>1. InStep(t, o + 3)
    BY <1>1 DEF Answered
  <2>2. ~Accepts(t)
    <3> SUFFICES ASSUME Accepts(t) PROVE FALSE
      OBVIOUS
    <3>1. \A i \in 1..3 : a[i] = Ok[i]
      BY <1>1, HeardOk
    <3>2. a = Ok
      BY <3>1 DEF Acks, Ok
    <3> QED BY <3>2
  <2> QED BY <2>1, <2>2 DEF Refused, Hearing
<1>2. CASE x # "none" /\ Unanswered(t, o + 3, got, z)
  BY <1>2 DEF Refused, Hearing, Unanswered
<1> QED BY <1>1, <1>2 DEF Hearing

\* One that is: the target goes on, with the word or for it.
LEMMA DataBegins ==
  ASSUME NEW t \in TargetType, NEW o \in {0, 1}, NEW got \in Seq(Bit), Len(got) >= o + 3,
         NEW p, NEW z, NEW x, \A i \in 1..3 : Ok[i] = got[o + i],
         Hearing(t, o + 3, got, o, p, z, x)
  PROVE  /\ Reads(p) => Reading(t, o + 3, <<>>, z, x)
         /\ ~Reads(p) => Turning(t, o + 3, x)
<1>1. CASE Answered(t, o + 3, got, o, p, z) /\ (o + 3 >= 2 => t.ones <= o + 3)
  <2>1. InStep(t, o + 3) /\ (t.read <=> Reads(p)) /\ t.word \in Words /\ t.ones <= o + 3
    BY <1>1 DEF Answered
  <2>2. Accepts(t)
    BY <1>1, HeardOk
  <2>3. NearCode(<<>>, t.word, Len(<<>>), z)
    BY DEF NearCode
  <2> QED BY <2>1, <2>2, <2>3 DEF Reading, Returned, Turning
<1>2. CASE x # "none" /\ Unanswered(t, o + 3, got, z)
  <2>1. ~Blank(got, z)
    BY HeardNothing
  <2> QED BY <1>2, <2>1 DEF Unanswered, Reading, Turning
<1> QED BY <1>1, <1>2 DEF Hearing

\* The last turnaround clock before a write finds the target waiting for its word.
LEMMA WriteBegins ==
  ASSUME NEW t \in TargetType, Formed(t), NEW w, NEW z, NEW x, Turning(t, 5, x)
  PROVE  Writing(t, w, 0, z, x)
<1>1. Width \in Nat \ {0} /\ t.ones <= 5
  BY Sizes DEF Turning
<1>2. CASE InStep(t, 5) /\ Accepts(t) /\ ~t.read
  <2>1. Span(t) = 3
    BY <1>2, SpanShort
  <2>2. t.at = "write" /\ Taken(t) = 0
    BY <1>2, <2>1 DEF InStep
  <2>3. NearCode(t.bits, w, 0, z)
    BY DEF NearCode
  <2>4. Written(t, w, 0, z)
    BY <1>1, <2>2, <2>3 DEF Written
  <2> QED BY <1>1, <2>4 DEF Writing
<1>3. CASE x # "none" /\ t.at = "lost"
  BY <1>1, <1>3 DEF Writing
<1> QED BY <1>2, <1>3 DEF Turning

\* The last one after a refusal finds it waiting for a start bit.
LEMMA RefusedEnds ==
  ASSUME NEW t \in TargetType, Formed(t), NEW x, Refused(t, 5, x) PROVE Resting(t, x)
<1>1. Width \in Nat \ {0} /\ t.ones <= 11 /\ t.ones \in Nat /\ Taken(t) \in Nat
  BY Sizes, TakenIs DEF Refused, TargetType
<1>2. t.ones <= Width + 10
  BY <1>1
<1>3. CASE InStep(t, 5) /\ ~Accepts(t)
  <2>1. Span(t) = 3
    BY <1>3, SpanShort
  <2>2. t.at = "idle"
    BY <1>3, <2>1 DEF InStep
  <2> QED BY <1>2, <2>2 DEF Resting
<1>4. CASE x # "none" /\ t.at = "lost"
  BY <1>2, <1>4 DEF Resting, Lagging
<1>5. CASE x # "none" /\ Straggling(t, 5)
  <2>1. t.at = "request" /\ Taken(t) \in 1..7 /\ Taken(t) > 5
    BY <1>5 DEF Straggling, Formed
  <2>2. Taken(t) <= 7
    BY <2>1
  <2>3. Taken(t) = 6 /\ AllOnes(t.bits, 6)
    BY <1>5, <2>2 DEF Straggling
  <2> QED BY <1>2, <1>5, <2>1, <2>3 DEF Resting, Lagging
<1> QED BY <1>3, <1>4, <1>5 DEF Refused

\* So does the last bit of a write.
LEMMA WriteEnds ==
  ASSUME NEW t \in TargetType, NEW w, NEW z, NEW x, NEW j \in Nat, j > Width, Writing(t, w, j, z, x)
  PROVE  Resting(t, x) /\ (x = "none" => t.word \in {w, <<>>})
<1>1. Width \in Nat /\ ~(j <= Width) /\ t.ones \in Nat
  BY Sizes DEF TargetType
<1>2. t.ones <= Width + 10
  BY <1>1 DEF Writing
<1> QED BY <1>1, <1>2 DEF Writing, Written, Resting, Lagging

\* So does the last clock of a read, whose word is right if its parity is.
LEMMA ReadEnds ==
  ASSUME NEW t \in TargetType, NEW got \in Seq(Bit), Len(got) >= Width + 1, NEW z, NEW x,
         Reading(t, Width + 6, got, z, x)
  PROVE  /\ Resting(t, x)
         /\ x = "none" /\ ParityHolds(got) => SubSeq(got, 1, Width) = t.word
<1>1. Width \in Nat /\ t.ones \in Nat /\ t.ones <= Width + 6 /\ Len(got) \in Nat
  BY Sizes DEF TargetType, Reading
<1>2. t.ones <= Width + 10
  BY <1>1
<1>3. CASE Returned(t, Width + 6, got, z)
  <2>1. InStep(t, Width + 6) /\ Accepts(t) /\ t.read /\ t.word \in Words
    BY <1>3 DEF Returned
  <2>2. Span(t) = Width + 4
    BY <2>1, SpanIs
  <2>3. t.at = "idle"
    BY <1>1, <2>1, <2>2 DEF InStep
  <2>4. t.word \in [1..Width -> Bit]
    BY <2>1, WidthAssumption
  <2>5. NearCode(got, t.word, Len(got), z)
    BY <1>3 DEF Returned
  <2>6. ParityHolds(got) => SubSeq(got, 1, Width) = t.word
    BY <1>1, <2>4, <2>5, NearDetected DEF ParityHolds
  <2> QED BY <1>2, <2>3, <2>6 DEF Resting
<1>4. CASE x # "none" /\ t.at = "lost"
  BY <1>2, <1>4 DEF Resting, Lagging
<1> QED BY <1>3, <1>4 DEF Reading

-----------------------------------------------------------------------------
(* A transfer. *)

\* A transfer that has no acknowledgement yet.
LEMMA NoResultIs == NoResult \in [ack : Acks, word : Held] /\ NoResult.ack # Ok
BY DEF NoResult, Acks, Held, Wait, Ok, Bit

\* Lines that are driven again may give the target an edge (set_swdio_output).
LEMMA DriveIs ==
  ASSUME Types, Drive
  PROVE  /\ enabled' = Lines /\ target' \in TargetType /\ Formed(target')
         /\ target' = target \/ \E b \in Bit : Edge(target, b, target')
<1>1. target \in TargetType /\ Formed(target)
  BY DEF Types
<1>2. target' = target \/ \E b \in Bit : target' \in Clocked(target, b)
  BY DEF Drive, Bit
<1>3. \A b \in Bit : target' \in Clocked(target, b) => Edge(target, b, target')
  BY <1>1, Edges
<1>4. target' = target \/ \E b \in Bit : Edge(target, b, target')
  BY <1>2, <1>3
<1>5. target' \in TargetType /\ Formed(target')
  BY <1>1, <1>4 DEF Edge
<1> QED BY <1>4, <1>5 DEF Drive

\* Transfer keeps the invariant.
LEMMA TransferInv == ASSUME Inv, Transfer PROVE Inv'
<1>1. PICK p \in Payloads, w \in Words :
        /\ job' = [payload |-> p, word |-> w]
        /\ host' = Speak("request", PacketRequest(p))
  BY DEF Transfer
<1>2. /\ host.at = "idle" /\ Drive /\ noisy' = FALSE /\ result' = NoResult /\ engine' = engine
      /\ trouble' = IF target' # target /\ trouble = "none" THEN "deaf" ELSE trouble
  BY DEF Transfer
<1>3. Types /\ InIdle
  BY <1>2 DEF Inv, Placed
<1>4. /\ enabled' = Lines /\ target' \in TargetType /\ Formed(target')
      /\ target' = target \/ \E b \in Bit : Edge(target, b, target')
  BY <1>2, <1>3, DriveIs
<1> DEFINE q == PacketRequest(p)
<1>5. q \in Seq(Bit)
  BY PacketIs
<1>6. "request" \in Stages
  BY DEF Stages
<1>7. /\ host' \in HostType /\ host'.at = "request" /\ host'.out = q
      /\ host'.clocks = 0 /\ host'.got = <<>>
  BY <1>1, <1>5, <1>6, HostIs
<1>8. job' \in [payload : Payloads, word : Words] /\ job'.payload = p
  BY <1>1
<1>9. Types'
  BY <1>2, <1>3, <1>4, <1>7, <1>8, NoResultIs DEF Types, Troubles
<1>10. Following' => Asking(target', q, 0, FALSE, trouble')
  <2> HAVE Following'
  <2>1. Following
    BY <1>2 DEF Following
  <2>2. Resting(target, trouble)
    BY <1>3, <2>1 DEF InIdle
  <2>3. \/ target' = target /\ trouble' = trouble
        \/ /\ \E b \in Bit : Edge(target, b, target')
           /\ trouble # "none" \/ target' # target => trouble' # "none"
    BY <1>2, <1>4
  <2>4. target \in TargetType
    BY <1>3 DEF Types
  <2> HIDE DEF q
  <2> QED BY <2>2, <2>3, <2>4, AskingBegins
<1>11. Rest(q, q) /\ Sent(q, q) = 0
  BY <1>5, RestBegins
<1>12. InRequest'
  <2>1. PacketRequest(job'.payload) = q
    BY <1>8
  <2>2. Sending(q)' /\ Progress(q)' = 0
    BY <1>7, <1>11 DEF Sending, Progress
  <2> HIDE DEF q
  <2> QED BY <1>2, <1>10, <2>1, <2>2 DEF InRequest, Sending, Progress
<1>13. Placed'
  BY <1>7, <1>12 DEF Placed
<1>14. WordsIntact'
  BY <1>7 DEF WordsIntact
<1> QED BY <1>9, <1>13, <1>14 DEF Inv

\* Release keeps it: the line is handed over where the target begins its answer.
LEMMA ReleaseInv == ASSUME Inv, Release PROVE Inv'
<1> DEFINE p == job.payload
           q == PacketRequest(p)
<1>1. /\ host.at = "request" /\ host.out = <<>> /\ enabled' = {"SWCLK"}
      /\ host' = Listen("ack", Leading + 3)
      /\ UNCHANGED <<engine, job, result, target, noisy, trouble>>
  BY DEF Release, Finished
<1>2. Types /\ InRequest
  BY <1>1 DEF Inv, Placed
<1>3. Leading \in {0, 1} /\ Leading + 3 \in Nat /\ Leading' = Leading
  BY <1>1, EngineIs DEF Leading
<1>4. "ack" \in Stages
  BY DEF Stages
<1>5. /\ host' \in HostType /\ host'.at = "ack" /\ host'.out = <<>>
      /\ host'.clocks = Leading + 3 /\ host'.got = <<>>
  BY <1>1, <1>3, <1>4, HostIs
<1>6. Types'
  BY <1>1, <1>2, <1>5 DEF Types, Lines
<1>7. p \in Payloads /\ target \in TargetType /\ Formed(target)
  BY <1>2 DEF Types
<1>8. q \in Seq(Bit) /\ Len(q) = 8
  BY <1>7, PacketIs
<1>9. Progress(q) = 8
  BY <1>1, <1>8, RestEnds DEF Progress
<1>10. Following => Hearing(target, 0, <<>>, Leading, p, noisy, trouble)
  <2> HAVE Following
  <2>1. Asking(target, q, 8, noisy, trouble)
    BY <1>2, <1>9 DEF InRequest
  <2> QED BY <1>3, <1>7, <2>1, HearingBegins
<1>11. InAck'
  <2>1. Leading + 3 - (Leading + 3) = 0 /\ Leading + 3 <= Leading + 3
    BY <1>3
  <2>2. Following' <=> Following
    BY <1>1 DEF Following
  <2>3. Len(host'.got) = 0
    BY <1>5
  <2>4. Sampling'
    BY <1>1, <1>5 DEF Sampling
  <2>5. Following' => Hearing(target', 0, host'.got, Leading', job'.payload, noisy', trouble')
    BY <1>1, <1>3, <1>5, <1>10, <2>2
  <2> QED BY <1>3, <1>5, <2>1, <2>3, <2>4, <2>5 DEF InAck
<1>12. Placed'
  BY <1>5, <1>11 DEF Placed
<1>13. WordsIntact'
  BY <1>5 DEF WordsIntact
<1> QED BY <1>6, <1>12, <1>13 DEF Inv

\* The acknowledgement is the last three samples.
LEMMA AckIsHeard ==
  ASSUME NEW o \in {0, 1}, NEW got \in Seq(Bit), Len(got) = o + 3
  PROVE  LET a == SubSeq(got, o + 1, o + 3) IN a \in Acks /\ \A i \in 1..3 : a[i] = got[o + i]
<1> DEFINE a == SubSeq(got, o + 1, o + 3)
<1>1. o + 1 \in 1..(Len(got) + 1) /\ o + 3 \in (o + 1 - 1)..Len(got)
  OBVIOUS
<1>2. /\ a \in Seq(Bit) /\ Len(a) = (o + 3) - (o + 1) + 1
      /\ \A i \in 1..((o + 3) - (o + 1) + 1) : a[i] = got[o + 1 + i - 1]
  BY <1>1, SubSeqIs
<1> HIDE DEF a
<1>3. Len(a) = 3
  BY <1>2
<1>4. \A i \in 1..3 : a[i] = got[o + i]
  <2> TAKE i \in 1..3
  <2>1. i \in 1..((o + 3) - (o + 1) + 1) /\ o + 1 + i - 1 = o + i
    OBVIOUS
  <2>2. a[i] = got[o + 1 + i - 1]
    BY <1>2, <2>1
  <2> QED BY <2>1, <2>2
<1>5. a \in Acks
  BY <1>2, <1>3 DEF Acks
<1> QED BY <1>4, <1>5 DEF a

\* Acknowledged keeps it, whichever phase follows.
LEMMA AcknowledgedInv == ASSUME Inv, Acknowledged PROVE Inv'
<1> DEFINE p == job.payload
           o == Leading
           a == Ack
           g == host.got
           m == o + 3
           next == IF a # Ok THEN "refused" ELSE IF Reads(p) THEN "data" ELSE "turn"
           n == IF a = Ok /\ Reads(p) THEN ReadPhase ELSE Trailing
<1>1. /\ host.at = "ack" /\ host.out = <<>> /\ host.clocks = 0
      /\ host' = Listen(next, n) /\ result' = [ack |-> a, word |-> <<>>]
      /\ UNCHANGED <<engine, enabled, job, target, noisy, trouble>>
  BY DEF Acknowledged, Finished
<1>2. Types /\ InAck
  BY <1>1 DEF Inv, Placed
<1>3. o \in {0, 1} /\ Trailing = 2 - o /\ ReadPhase = Width + 3 - o /\ Width \in Nat
  BY EngineIs, Sizes
<1>4. n \in Nat /\ next \in Stages
  BY <1>3 DEF Stages
<1>5. g \in Seq(Bit) /\ target \in TargetType
  BY <1>2 DEF Types, HostType
<1>6. Len(g) = m /\ enabled = {"SWCLK"}
      /\ (Following => Hearing(target, m, g, o, p, noisy, trouble))
  <2>1. o + 3 - host.clocks = m
    BY <1>1, <1>3
  <2> HIDE DEF m
  <2> QED BY <1>2, <2>1 DEF InAck, Sampling
<1>7. a \in Acks /\ \A i \in 1..3 : a[i] = g[o + i]
  BY <1>3, <1>5, <1>6, AckIsHeard DEF Ack
<1> HIDE DEF a
<1>8. result' \in [ack : Acks, word : Held] /\ result'.ack = a
  BY <1>1, <1>7 DEF Held
<1> HIDE DEF next, n, p
<1>9. /\ host' \in HostType /\ host'.at = next /\ host'.out = <<>>
      /\ host'.clocks = n /\ host'.got = <<>>
  BY <1>1, <1>4, HostIs
<1>10. Types'
  BY <1>1, <1>2, <1>8, <1>9 DEF Types
<1>11. /\ Sampling' /\ Silent' /\ (Following' <=> Following) /\ (Reads(job'.payload) <=> Reads(p))
       /\ Trailing' = Trailing /\ ReadPhase' = ReadPhase
  BY <1>1, <1>6, <1>9 DEF Sampling, Silent, Following, Trailing, ReadPhase, p
<1>12. CASE a # Ok
  <2>1. next = "refused" /\ n = Trailing
    BY <1>12 DEF next, n
  <2>2. Following => Refused(target, m, trouble)
    BY <1>3, <1>5, <1>6, <1>7, <1>12, RefusedBegins
  <2>3. 5 - Trailing = m /\ Trailing <= Trailing
    BY <1>3
  <2> HIDE DEF m
  <2>4. InRefused'
    BY <1>1, <1>8, <1>9, <1>11, <1>12, <2>1, <2>2, <2>3 DEF InRefused
  <2>5. Placed'
    BY <1>9, <2>1, <2>4 DEF Placed
  <2>6. WordsIntact'
    BY <1>9, <2>1 DEF WordsIntact
  <2> QED BY <1>10, <2>5, <2>6 DEF Inv
<1>13. CASE a = Ok /\ Reads(p)
  <2>1. next = "data" /\ n = ReadPhase
    BY <1>13 DEF next, n
  <2>2. Following => Reading(target, m, <<>>, noisy, trouble)
    <3>1. Len(g) >= m /\ \A i \in 1..3 : Ok[i] = g[o + i]
      BY <1>3, <1>6, <1>7, <1>13
    <3> HIDE DEF o, g
    <3> QED BY <1>3, <1>5, <1>6, <1>13, <3>1, DataBegins
  <2>3. Width + 6 - ReadPhase = m /\ ReadPhase <= ReadPhase /\ ReadPhase - ReadPhase = 0
    BY <1>3
  <2>4. Len(<<>>) = 0
    OBVIOUS
  <2> HIDE DEF m
  <2>5. InData'
    BY <1>1, <1>8, <1>9, <1>11, <1>13, <2>1, <2>2, <2>3, <2>4 DEF InData
  <2>6. Placed'
    BY <1>9, <2>1, <2>5 DEF Placed
  <2>7. WordsIntact'
    BY <1>9, <2>1 DEF WordsIntact
  <2> QED BY <1>10, <2>6, <2>7 DEF Inv
<1>14. CASE a = Ok /\ ~Reads(p)
  <2>1. next = "turn" /\ n = Trailing
    BY <1>14 DEF next, n
  <2>2. Following => Turning(target, m, trouble)
    <3>1. Len(g) >= m /\ \A i \in 1..3 : Ok[i] = g[o + i]
      BY <1>3, <1>6, <1>7, <1>14
    <3> HIDE DEF o, g
    <3> QED BY <1>3, <1>5, <1>6, <1>14, <3>1, DataBegins
  <2>3. 5 - Trailing = m /\ Trailing <= Trailing
    BY <1>3
  <2> HIDE DEF m
  <2>4. InTurn'
    BY <1>1, <1>8, <1>9, <1>11, <1>14, <2>1, <2>2, <2>3 DEF InTurn
  <2>5. Placed'
    BY <1>9, <2>1, <2>4 DEF Placed
  <2>6. WordsIntact'
    BY <1>9, <2>1 DEF WordsIntact
  <2> QED BY <1>10, <2>5, <2>6 DEF Inv
<1> QED BY <1>12, <1>13, <1>14

\* WriteData keeps it: the line is taken back where the target listens.
LEMMA WriteDataInv == ASSUME Inv, WriteData PROVE Inv'
<1> DEFINE w == job.word
           s == WritePhase(w)
<1>1. /\ host.at = "turn" /\ host.clocks = 0 /\ enabled' = Lines /\ host' = Speak("write", s)
      /\ UNCHANGED <<engine, job, result, target, noisy, trouble>>
  BY DEF WriteData, Finished
<1>2. Types /\ InTurn
  BY <1>1 DEF Inv, Placed
<1>3. w \in [1..Width -> Bit] /\ target \in TargetType /\ Formed(target)
  BY <1>2, WidthAssumption DEF Types
<1>4. s \in Seq(Bit)
  BY <1>3, WritePhaseIs
<1>5. "write" \in Stages
  BY DEF Stages
<1>6. WritePhase(job'.word) = s /\ (WritePhase(w))' = s
  BY <1>1 DEF WritePhase, Zeros
<1> HIDE DEF w, s
<1>7. /\ host' \in HostType /\ host'.at = "write" /\ host'.out = s
      /\ host'.clocks = 0 /\ host'.got = <<>>
  BY <1>1, <1>4, <1>5, HostIs
<1>8. Types'
  BY <1>1, <1>2, <1>7 DEF Types
<1>9. Following => Writing(target, w, 0, noisy, trouble)
  <2> HAVE Following
  <2>1. 5 - host.clocks = 5
    BY <1>1
  <2>2. Turning(target, 5, trouble)
    BY <1>2, <2>1 DEF InTurn
  <2> QED BY <1>3, <2>2, WriteBegins
<1>10. Rest(s, s) /\ Sent(s, s) = 0
  BY <1>4, RestBegins
<1>11. result.ack = Ok /\ ~Reads(job.payload)
  BY <1>2 DEF InTurn
<1>12. InWrite'
  <2>1. Sent(s, host'.out) = 0 /\ Rest(s, host'.out)
    BY <1>7, <1>10
  <2>2. Following' => Writing(target', job'.word, 0, noisy', trouble')
    BY <1>1, <1>9 DEF Following, w
  <2>3. result'.ack = Ok /\ ~Reads(job'.payload)
    BY <1>1, <1>11
  <2>4. Sending(WritePhase(job.word))' /\ Progress(WritePhase(job.word))' = 0
    BY <1>6, <1>7, <2>1 DEF Sending, Progress, w
  <2> QED BY <2>2, <2>3, <2>4 DEF InWrite
<1>13. Placed'
  BY <1>7, <1>12 DEF Placed
<1>14. WordsIntact'
  BY <1>7 DEF WordsIntact
<1> QED BY <1>8, <1>13, <1>14 DEF Inv


\* EndRefused keeps it.
LEMMA EndRefusedInv == ASSUME Inv, EndRefused PROVE Inv'
<1>1. /\ host.at = "refused" /\ host.out = <<>> /\ host.clocks = 0 /\ host' = Quiet("idle")
      /\ enabled' = IF engine = "BitBang" THEN Lines ELSE enabled
      /\ UNCHANGED <<engine, job, target, noisy, trouble, result>>
  BY DEF EndRefused, EndTransfer, Finished
<1>2. Types /\ InRefused
  BY <1>1 DEF Inv, Placed
<1>3. target \in TargetType /\ Formed(target)
  BY <1>2 DEF Types
<1>4. "idle" \in Stages
  BY DEF Stages
<1>5. /\ host' \in HostType /\ host'.at = "idle" /\ host'.out = <<>>
      /\ host'.clocks = 0 /\ host'.got = <<>>
  BY <1>1, <1>4, HostIs
<1>6. Types'
  BY <1>1, <1>2, <1>5 DEF Types
<1>7. Following => Resting(target, trouble)
  <2> HAVE Following
  <2>1. 5 - host.clocks = 5
    BY <1>1
  <2>2. Refused(target, 5, trouble)
    BY <1>2, <2>1 DEF InRefused
  <2> QED BY <1>3, <2>2, RefusedEnds
<1>8. InIdle'
  BY <1>1, <1>5, <1>7 DEF InIdle, Silent, Following
<1>9. Placed'
  BY <1>5, <1>8 DEF Placed
<1>10. result'.ack # Ok
  BY <1>1, <1>2 DEF InRefused
<1>11. WordsIntact'
  BY <1>10 DEF WordsIntact
<1> QED BY <1>6, <1>9, <1>11 DEF Inv

\* EndWrite keeps it: the word is in the target, or a parity error.
LEMMA EndWriteInv == ASSUME Inv, EndWrite PROVE Inv'
<1> DEFINE w == job.word
           s == WritePhase(w)
<1>1. /\ host.at = "write" /\ host.out = <<>> /\ host' = Quiet("idle")
      /\ enabled' = IF engine = "BitBang" THEN Lines ELSE enabled
      /\ UNCHANGED <<engine, job, target, noisy, trouble, result>>
  BY DEF EndWrite, EndTransfer, Finished
<1>2. Types /\ InWrite
  BY <1>1 DEF Inv, Placed
<1>3. target \in TargetType /\ w \in [1..Width -> Bit] /\ Width \in Nat
  BY <1>2, WidthAssumption, Sizes DEF Types
<1>4. s \in Seq(Bit) /\ Len(s) \in Nat /\ Len(s) > Width
  BY <1>3, WritePhaseIs
<1>5. Progress(s) = Len(s)
  BY <1>1, <1>4, RestEnds DEF Progress
<1>6. "idle" \in Stages
  BY DEF Stages
<1>7. /\ host' \in HostType /\ host'.at = "idle" /\ host'.out = <<>>
      /\ host'.clocks = 0 /\ host'.got = <<>>
  BY <1>1, <1>6, HostIs
<1>8. Types'
  BY <1>1, <1>2, <1>7 DEF Types
<1>9. Following => Resting(target, trouble) /\ (trouble = "none" => target.word \in {w, <<>>})
  <2> HAVE Following
  <2>1. Writing(target, w, Len(s), noisy, trouble)
    BY <1>2, <1>5 DEF InWrite
  <2> HIDE DEF s
  <2> QED BY <1>3, <1>4, <2>1, WriteEnds
<1>10. InIdle'
  BY <1>1, <1>7, <1>9 DEF InIdle, Silent, Following
<1>11. Placed'
  BY <1>7, <1>10 DEF Placed
<1>12. ~Reads(job'.payload)
  BY <1>1, <1>2 DEF InWrite
<1>13. trouble' = "none" => target'.word \in {job'.word, <<>>}
  BY <1>1, <1>9 DEF Following
<1>14. WordsIntact'
  BY <1>12, <1>13 DEF WordsIntact, Reads
<1> QED BY <1>8, <1>11, <1>14 DEF Inv

\* EndRead keeps it: the word is the target's, or a parity error.
LEMMA EndReadInv == ASSUME Inv, EndRead PROVE Inv'
<1> DEFINE g == host.got
           w == IF ParityHolds(g) THEN SubSeq(g, 1, Width) ELSE <<>>
<1>1. /\ host.at = "data" /\ host.clocks = 0 /\ host' = Quiet("idle")
      /\ enabled' = IF engine = "BitBang" THEN Lines ELSE enabled
      /\ result' = [result EXCEPT !.word = w]
      /\ UNCHANGED <<engine, job, target, noisy, trouble>>
  BY DEF EndRead, EndTransfer, Finished
<1>2. Types /\ InData
  BY <1>1 DEF Inv, Placed
<1>3. target \in TargetType /\ g \in Seq(Bit) /\ Width \in Nat /\ Len(g) \in Nat
  BY <1>2, Sizes, SeqNat DEF Types, HostType
<1>4. Len(g) >= Width + 1
  <2>1. ReadPhase = Width + 3 - Leading /\ Leading \in {0, 1}
    BY EngineIs
  <2>2. Len(g) = ReadPhase - host.clocks
    BY <1>2 DEF InData
  <2> QED BY <1>1, <1>3, <2>1, <2>2
<1>5. "idle" \in Stages
  BY DEF Stages
<1>6. /\ host' \in HostType /\ host'.at = "idle" /\ host'.out = <<>>
      /\ host'.clocks = 0 /\ host'.got = <<>>
  BY <1>1, <1>5, HostIs
<1>7. SubSeq(g, 1, Width) \in Held
  <2> DEFINE r == SubSeq(g, 1, Width)
  <2>1. 1 \in 1..(Len(g) + 1) /\ Width \in (1 - 1)..Len(g)
    BY <1>3, <1>4
  <2>2. r \in Seq(Bit) /\ Len(r) = Width - 1 + 1
    BY <1>3, <2>1, SubSeqIs
  <2> HIDE DEF r
  <2>3. r \in [1..Width -> Bit]
    BY <1>3, <2>2
  <2> QED BY <2>3 DEF Held, r
<1>8. w \in Held
  BY <1>7 DEF Held
<1>9. Following =>
        /\ Resting(target, trouble)
        /\ trouble = "none" /\ ParityHolds(g) => SubSeq(g, 1, Width) = target.word
  <2> HAVE Following
  <2>1. Width + 6 - host.clocks = Width + 6
    BY <1>1, <1>3
  <2>2. Reading(target, Width + 6, g, noisy, trouble)
    BY <1>2, <2>1 DEF InData
  <2> HIDE DEF g, w
  <2> QED BY <1>3, <1>4, <2>2, ReadEnds
<1>10. trouble = "none" => w \in {target.word, <<>>}
  BY <1>9 DEF Following
<1> HIDE DEF w
<1>11. result' \in [ack : Acks, word : Held] /\ result'.word = w
  BY <1>1, <1>2, <1>8 DEF Types
<1>12. Types'
  BY <1>1, <1>2, <1>6, <1>11 DEF Types
<1>13. InIdle'
  BY <1>1, <1>6, <1>9 DEF InIdle, Silent, Following
<1>14. Placed'
  BY <1>6, <1>13 DEF Placed
<1>15. Reads(job.payload)
  BY <1>2 DEF InData
<1>16. WordsIntact'
  BY <1>1, <1>10, <1>11, <1>15 DEF WordsIntact, Reads
<1> QED BY <1>12, <1>14, <1>16 DEF Inv

-----------------------------------------------------------------------------
(* Between transfers. *)

\* Released or idle, the probe has nothing to do and the target is calm.
LEMMA RestIsCalm ==
  ASSUME Placed, host.at \in {"off", "idle"}
  PROVE  host.out = <<>> /\ host.got = <<>> /\ host.clocks = 0 /\ (Following => Calm(target))
<1>1. CASE host.at = "off"
  BY <1>1 DEF Placed, InOff, Silent
<1>2. CASE host.at = "idle"
  <2>1. InIdle
    BY <1>2 DEF Placed
  <2> QED BY <2>1, RestingIsCalm DEF InIdle, Silent
<1> QED BY <1>1, <1>2

\* LineReset keeps the invariant.
LEMMA LineResetInv == ASSUME Inv, LineReset PROVE Inv'
<1> DEFINE s == Sequence
<1>1. /\ host.at \in {"off", "idle"} /\ host' = Speak("sequence", s) /\ Drive
      /\ result' = NoResult /\ UNCHANGED <<engine, job, noisy, trouble>>
  BY DEF LineReset, Sequence
<1>2. Types /\ Placed
  BY DEF Inv
<1>3. /\ enabled' = Lines /\ target' \in TargetType /\ Formed(target')
      /\ target' = target \/ \E b \in Bit : Edge(target, b, target')
  BY <1>1, <1>2, DriveIs
<1>4. s \in Seq(Bit) /\ "sequence" \in Stages
  BY SequenceIs DEF Stages
<1>5. Sequence' = s
  BY DEF Sequence, Ones, Zeros, SwitchWord
<1> HIDE DEF s
<1>6. /\ host' \in HostType /\ host'.at = "sequence" /\ host'.out = s
      /\ host'.clocks = 0 /\ host'.got = <<>>
  BY <1>1, <1>4, HostIs
<1>7. Types'
  BY <1>1, <1>2, <1>3, <1>6, NoResultIs DEF Types
<1>8. Rest(s, s) /\ Sent(s, s) = 0
  BY <1>4, RestBegins
<1>9. Resetting(target', 0, trouble')
  BY <1>3, ResettingBegins
<1>10. Following => Harmless(target')
  <2> HAVE Following
  <2>1. Calm(target)
    BY <1>1, <1>2, RestIsCalm
  <2>2. CASE target' = target
    BY <2>1, <2>2, CalmIsHarmless
  <2>3. CASE \E b \in Bit : Edge(target, b, target')
    BY <2>1, <2>3, CalmStep
  <2> QED BY <1>3, <2>2, <2>3
<1>11. InSequence'
  <2>1. Sending(Sequence)' /\ Progress(Sequence)' = 0
    BY <1>5, <1>6, <1>8 DEF Sending, Progress
  <2>2. result'.ack # Ok
    BY <1>1, NoResultIs
  <2>3. Following' => Harmless(target')
    BY <1>1, <1>10 DEF Following
  <2> QED BY <1>9, <2>1, <2>2, <2>3 DEF InSequence
<1>12. Placed'
  BY <1>6, <1>11 DEF Placed
<1>13. WordsIntact'
  BY <1>6 DEF WordsIntact
<1> QED BY <1>7, <1>12, <1>13 DEF Inv

\* LineResetEnds keeps it: the target is idle again.
LEMMA LineResetEndsInv == ASSUME Inv, LineResetEnds PROVE Inv'
<1>1. /\ host.at = "sequence" /\ host.out = <<>> /\ host' = Quiet("idle")
      /\ trouble' = IF trouble = "restarted" THEN "deaf" ELSE "none"
      /\ UNCHANGED <<engine, enabled, job, result, target, noisy>>
  BY DEF LineResetEnds, Finished
<1>2. Types /\ InSequence
  BY <1>1 DEF Inv, Placed
<1>3. Sequence \in Seq(Bit) /\ Len(Sequence) = 2 * LineOnes + 24
  BY SequenceIs
<1>4. Progress(Sequence) = 2 * LineOnes + 24
  BY <1>1, <1>3, RestEnds DEF Progress
<1>5. Resetting(target, 2 * LineOnes + 24, trouble)
  BY <1>2, <1>4 DEF InSequence
<1>6. target.ones = 0 /\ (target.at = "idle" \/ (target.at = "lost" /\ trouble = "restarted"))
  BY <1>5, ResettingEnds
<1>7. 0 <= Width + 10
  BY Sizes
<1>8. Resting(target', trouble')
  BY <1>1, <1>6, <1>7 DEF Resting, Lagging
<1>9. "idle" \in Stages
  BY DEF Stages
<1>10. /\ host' \in HostType /\ host'.at = "idle" /\ host'.out = <<>>
       /\ host'.clocks = 0 /\ host'.got = <<>>
  BY <1>1, <1>9, HostIs
<1>11. Types'
  BY <1>1, <1>2, <1>10 DEF Types, Troubles
<1>12. InIdle'
  BY <1>8, <1>10 DEF InIdle, Silent
<1>13. Placed'
  BY <1>10, <1>12 DEF Placed
<1>14. result'.ack # Ok
  BY <1>1, <1>2 DEF InSequence
<1>15. WordsIntact'
  BY <1>14 DEF WordsIntact
<1> QED BY <1>11, <1>13, <1>15 DEF Inv

\* RecoverLine keeps it.
LEMMA RecoverLineInv == ASSUME Inv, RecoverLine PROVE Inv'
<1>1. /\ host' = Listen("recover", RecoveryCycles) /\ enabled' = {"SWCLK"}
      /\ target' \in {target} \cup Clocked(target, Released(target))
      /\ UNCHANGED <<engine, job, result, noisy, trouble>>
  BY DEF RecoverLine
<1>2. Types /\ target \in TargetType /\ Formed(target)
  BY DEF Inv, Types
<1>3. target' \in TargetType /\ Formed(target')
  <2>1. CASE target' = target
    BY <1>2, <2>1
  <2>2. CASE target' \in Clocked(target, Released(target))
    <3>1. Released(target) \in Bit
      BY <1>2, ReleasedIs
    <3>2. Edge(target, Released(target), target')
      BY <1>2, <2>2, <3>1, Edges
    <3> QED BY <3>2 DEF Edge
  <2> QED BY <1>1, <2>1, <2>2
<1>4. RecoveryCycles \in Nat /\ RecoveryCycles <= RecoveryCycles /\ "recover" \in Stages
  BY Sizes DEF Stages
<1>5. /\ host' \in HostType /\ host'.at = "recover" /\ host'.out = <<>>
      /\ host'.clocks = RecoveryCycles /\ host'.got = <<>>
  BY <1>1, <1>4, HostIs
<1>6. Types'
  BY <1>1, <1>2, <1>3, <1>5 DEF Types, Lines
<1>7. Stopping(target', RecoveryCycles)
  BY <1>3, StoppingBegins
<1>8. InRecover'
  BY <1>1, <1>4, <1>5, <1>7 DEF InRecover, Sampling, Silent
<1>9. Placed'
  BY <1>5, <1>8 DEF Placed
<1>10. WordsIntact'
  BY <1>5 DEF WordsIntact
<1> QED BY <1>6, <1>9, <1>10 DEF Inv

\* The probe with its lines released, and a target that makes nothing of it.
LEMMA OffInv ==
  ASSUME Inv, host' = Quiet("off"), enabled' = {}, UNCHANGED <<job, result, target, noisy>>,
         engine' \in Engines, trouble' \in Troubles, Following' => Calm(target)
  PROVE  Inv'
<1>1. Types
  BY DEF Inv
<1>2. "off" \in Stages
  BY DEF Stages
<1>3. /\ host' \in HostType /\ host'.at = "off" /\ host'.out = <<>>
      /\ host'.clocks = 0 /\ host'.got = <<>>
  BY <1>2, HostIs
<1>4. Types'
  BY <1>1, <1>3 DEF Types
<1>5. InOff'
  BY <1>3 DEF InOff, Silent
<1>6. Placed'
  BY <1>3, <1>5 DEF Placed
<1>7. WordsIntact'
  BY <1>3 DEF WordsIntact
<1> QED BY <1>4, <1>6, <1>7 DEF Inv

\* RecoverEnds keeps it.
LEMMA RecoverEndsInv == ASSUME Inv, RecoverEnds PROVE Inv'
<1>1. /\ host.at = "recover" /\ host.clocks = 0 /\ host' = Quiet("off") /\ enabled' = {}
      /\ trouble' = "deaf" /\ UNCHANGED <<engine, job, result, target, noisy>>
  BY DEF RecoverEnds, Finished
<1>2. Types /\ InRecover
  BY <1>1 DEF Inv, Placed
<1>3. target \in TargetType /\ Formed(target) /\ engine' \in Engines /\ trouble' \in Troubles
  BY <1>1, <1>2 DEF Types, Troubles
<1>4. Stopping(target, 0)
  BY <1>1, <1>2 DEF InRecover
<1>5. Calm(target)
  BY <1>3, <1>4, StoppingEnds
<1> QED BY <1>1, <1>3, <1>5, OffInv

\* Disconnect keeps it.
LEMMA DisconnectInv == ASSUME Inv, Disconnect PROVE Inv'
<1>1. /\ host.at \in {"off", "idle"} /\ host' = Quiet("off") /\ enabled' = {}
      /\ engine' \in Engines /\ UNCHANGED <<job, result, target, noisy, trouble>>
  BY DEF Disconnect
<1>2. Types /\ Placed
  BY DEF Inv
<1>3. trouble' \in Troubles /\ (Following' <=> Following)
  BY <1>1, <1>2 DEF Types, Following
<1>4. Following' => Calm(target)
  BY <1>1, <1>2, <1>3, RestIsCalm
<1> QED BY <1>1, <1>3, <1>4, OffInv

\* ProbeRestarts keeps it: what it was in the middle of is crossed.
LEMMA ProbeRestartsInv == ASSUME Inv, ProbeRestarts PROVE Inv'
<1>1. /\ host' = Quiet("off") /\ enabled' = {} /\ engine' = "Hardware"
      /\ trouble' = IF host.at \in {"off", "idle"} THEN trouble ELSE "crossed"
      /\ UNCHANGED <<job, result, target, noisy>>
  BY DEF ProbeRestarts
<1>2. Types /\ Placed
  BY DEF Inv
<1>3. trouble' \in Troubles /\ engine' \in Engines
  BY <1>1, <1>2 DEF Types, Troubles, Engines
<1>4. Following' => Calm(target)
  <2> HAVE Following'
  <2>1. host.at \in {"off", "idle"} /\ Following
    BY <1>1 DEF Following
  <2> QED BY <1>2, <2>1, RestIsCalm
<1> QED BY <1>1, <1>3, <1>4, OffInv

\* SetSpeed keeps it.
LEMMA SetSpeedInv == ASSUME Inv, SetSpeed PROVE Inv'
<1>1. /\ host.at \in {"off", "idle"} /\ enabled' = {}
      /\ UNCHANGED <<engine, host, job, result, target, noisy, trouble>>
  BY DEF SetSpeed
<1>2. Types /\ Placed /\ WordsIntact
  BY DEF Inv
<1>3. Types'
  BY <1>1, <1>2 DEF Types
<1>4. host'.at = host.at
  BY <1>1
<1>5. host.at = "off" => Placed'
  <2> HAVE host.at = "off"
  <2>1. InOff
    BY <1>2 DEF Placed
  <2>2. InOff'
    BY <1>1, <2>1 DEF InOff, Silent, Following
  <2> QED BY <1>4, <2>2 DEF Placed
<1>6. host.at = "idle" => Placed'
  <2> HAVE host.at = "idle"
  <2>1. InIdle
    BY <1>2 DEF Placed
  <2>2. InIdle'
    BY <1>1, <2>1 DEF InIdle, Silent, Following
  <2> QED BY <1>4, <2>2 DEF Placed
<1>7. WordsIntact'
  BY <1>1, <1>2 DEF WordsIntact, Reads
<1>8. Placed'
  BY <1>1, <1>5, <1>6
<1> QED BY <1>3, <1>7, <1>8 DEF Inv


\* A target that has just restarted, wherever the probe is.
LEMMA UnheardIs ==
  /\ Unheard \in TargetType /\ Formed(Unheard) /\ Unheard.at = "lost" /\ Unheard.ones = 0
  /\ Calm(Unheard) /\ Harmless(Unheard)
<1>1. /\ Unheard.at = "lost" /\ Unheard.n = 0 /\ Unheard.bits = <<>> /\ Unheard.ack = Wait
      /\ Unheard.word = <<>> /\ Unheard.read = FALSE /\ Unheard.ones = 0
      /\ Unheard = [at |-> "lost", n |-> 0, bits |-> <<>>, ack |-> Wait, word |-> <<>>,
                    read |-> FALSE, ones |-> 0]
  BY DEF Unheard
<1>2. 0 \in 0..(Width + 4) /\ 0 \in 0..ResetOnes /\ 0 < ResetOnes
  BY Sizes
<1>3. Unheard \in TargetType
  BY <1>1, <1>2 DEF TargetType, Places, Held
<1>4. Formed(Unheard)
  BY <1>1, <1>2 DEF Formed
<1>5. Calm(Unheard)
  BY <1>1 DEF Calm
<1> QED BY <1>1, <1>3, <1>4, <1>5, CalmIsHarmless

\* A target that is lost with nothing heard fits every phase.
LEMMA LostAnywhere ==
  ASSUME NEW t, t.at = "lost", t.ones = 0, NEW x, x # "none", NEW z, NEW q, NEW w, NEW p,
         NEW got, NEW o, NEW j \in Nat, NEW m \in Nat
  PROVE  /\ Calm(t) /\ Resting(t, x)
         /\ Asking(t, q, j, z, x) /\ Writing(t, w, j, z, x)
         /\ Hearing(t, m, got, o, p, z, x) /\ Refused(t, m, x)
         /\ Reading(t, m, got, z, x) /\ Turning(t, m, x)
<1>1. Width \in Nat
  BY Sizes
<1>2. Calm(t)
  BY DEF Calm
<1>3. Resting(t, x)
  BY <1>1 DEF Resting, Lagging
<1>4. Quieted(t, q, j, z)
  <2>1. j <= 6 => 0 <= Width + 11 + j
    BY <1>1
  <2>2. \A i \in 2..j : 0 <= j - i
    OBVIOUS
  <2>3. j >= 7 => 0 <= j - 2
    OBVIOUS
  <2> QED BY <2>1, <2>2, <2>3 DEF Quieted
<1>5. Asking(t, q, j, z, x)
  BY <1>4 DEF Asking, Astray
<1>6. Writing(t, w, j, z, x)
  BY <1>1 DEF Writing
<1>7. Hearing(t, m, got, o, p, z, x)
  BY DEF Hearing, Unanswered
<1> QED BY <1>2, <1>3, <1>5, <1>6, <1>7 DEF Refused, Reading, Turning

\* TargetRestarts keeps the invariant, in the middle of whatever it happens.
LEMMA TargetRestartsInv == ASSUME Inv, TargetRestarts PROVE Inv'
<1> DEFINE t == Unheard
           x == trouble'
           at == host.at
           c == host.clocks
           p == job.payload
           w == job.word
           q == PacketRequest(p)
           s == WritePhase(w)
           z == noisy
<1>1. /\ target' = t /\ x = IF at = "sequence" THEN "restarted" ELSE "deaf"
      /\ UNCHANGED <<engine, enabled, host, job, result, noisy>>
  BY DEF TargetRestarts
<1>2. Types /\ Placed
  BY DEF Inv
<1>3. t \in TargetType /\ Formed(t) /\ t.at = "lost" /\ t.ones = 0 /\ Calm(t) /\ Harmless(t)
  BY UnheardIs
<1>4. x \in Troubles /\ x # "none" /\ Following'
  BY <1>1 DEF Troubles, Following
<1>5. Types'
  BY <1>1, <1>2, <1>3, <1>4 DEF Types
<1>6. /\ host.out \in Seq(Bit) /\ c \in Nat /\ p \in Payloads /\ w \in [1..Width -> Bit]
      /\ at \in Stages
  BY <1>2, WidthAssumption DEF Types, HostType
<1>7. q \in Seq(Bit) /\ s \in Seq(Bit) /\ Sequence \in Seq(Bit)
  BY <1>6, PacketIs, WritePhaseIs, SequenceIs
<1>8. \A r \in Seq(Bit) : Sending(r) => Progress(r) \in 0..Len(r)
  <2> SUFFICES ASSUME NEW r \in Seq(Bit), Sending(r) PROVE Progress(r) \in 0..Len(r)
    OBVIOUS
  <2>1. Len(r) \in Nat /\ Len(host.out) \in Nat
    BY <1>6, SeqNat
  <2>2. Len(host.out) <= Len(r)
    BY DEF Sending, Rest
  <2> QED BY <2>1, <2>2 DEF Progress, Sent
<1>9. /\ Width \in Nat /\ Leading \in {0, 1} /\ Trailing = 2 - Leading
      /\ ReadPhase = Width + 3 - Leading
  BY EngineIs, Sizes
<1>10. /\ host' = host /\ enabled' = enabled /\ job' = job /\ result' = result /\ noisy' = z
       /\ target' = t /\ trouble' = x
       /\ Leading' = Leading /\ Trailing' = Trailing /\ ReadPhase' = ReadPhase
  BY <1>1 DEF Leading, Trailing, ReadPhase
<1>11. (Silent' <=> Silent) /\ (Sampling' <=> Sampling)
  BY <1>10 DEF Silent, Sampling
<1>12. WritePhase(job.word)' = s
  BY <1>1 DEF WritePhase, Zeros
<1> HIDE DEF t, x, q, s, z
<1>13. at = "off" => InOff'
  BY <1>2, <1>3, <1>10, <1>11 DEF Placed, InOff
<1>14. Resting(t, x)
  BY <1>3, <1>4, LostAnywhere
<1>15. at = "idle" => InIdle'
  BY <1>2, <1>10, <1>11, <1>14 DEF Placed, InIdle
<1>16. at = "request" => InRequest'
  <2> HAVE at = "request"
  <2>1. Sending(q)
    BY <1>2 DEF Placed, InRequest, q
  <2>2. Progress(q) \in Nat
    BY <1>7, <1>8, <2>1, SeqNat
  <2>3. Asking(t, q, Progress(q), z, x)
    BY <1>3, <1>4, <2>2, LostAnywhere
  <2>4. Sending(q)' /\ Progress(q)' = Progress(q) /\ PacketRequest(job'.payload) = q
    BY <1>10, <2>1 DEF Sending, Progress, q
  <2> QED BY <1>10, <2>3, <2>4 DEF InRequest, q
<1>17. at = "ack" => InAck'
  <2> HAVE at = "ack"
  <2>1. Sampling /\ c <= Leading + 3 /\ Len(host.got) = Leading + 3 - c
    BY <1>2 DEF Placed, InAck
  <2>2. Leading + 3 - c \in Nat
    BY <1>6, <1>9, <2>1
  <2>3. Hearing(t, Leading + 3 - c, host.got, Leading, p, z, x)
    BY <1>3, <1>4, <2>2, LostAnywhere
  <2> QED BY <1>10, <1>11, <2>1, <2>3 DEF InAck
<1>18. at = "refused" => InRefused'
  <2> HAVE at = "refused"
  <2>1. Sampling /\ Silent /\ c <= Trailing /\ result.ack # Ok
    BY <1>2 DEF Placed, InRefused
  <2>2. 5 - c \in Nat
    BY <1>6, <1>9, <2>1
  <2>3. Refused(t, 5 - c, x)
    BY <1>3, <1>4, <2>2, LostAnywhere
  <2> QED BY <1>10, <1>11, <2>1, <2>3 DEF InRefused
<1>19. at = "data" => InData'
  <2> HAVE at = "data"
  <2>1. /\ Sampling /\ c <= ReadPhase /\ Len(host.got) = ReadPhase - c /\ result.ack = Ok
        /\ Reads(p)
    BY <1>2 DEF Placed, InData
  <2>2. Width + 6 - c \in Nat
    BY <1>6, <1>9, <2>1
  <2>3. Reading(t, Width + 6 - c, host.got, z, x)
    BY <1>3, <1>4, <2>2, LostAnywhere
  <2> QED BY <1>10, <1>11, <2>1, <2>3 DEF InData
<1>20. at = "turn" => InTurn'
  <2> HAVE at = "turn"
  <2>1. Sampling /\ Silent /\ c <= Trailing /\ result.ack = Ok /\ ~Reads(p)
    BY <1>2 DEF Placed, InTurn
  <2>2. 5 - c \in Nat
    BY <1>6, <1>9, <2>1
  <2>3. Turning(t, 5 - c, x)
    BY <1>3, <1>4, <2>2, LostAnywhere
  <2> QED BY <1>10, <1>11, <2>1, <2>3 DEF InTurn
<1>21. at = "write" => InWrite'
  <2> HAVE at = "write"
  <2>1. Sending(s) /\ result.ack = Ok /\ ~Reads(p)
    BY <1>2 DEF Placed, InWrite, s
  <2>2. Progress(s) \in Nat
    BY <1>7, <1>8, <2>1, SeqNat
  <2>3. Writing(t, w, Progress(s), z, x)
    BY <1>3, <1>4, <2>2, LostAnywhere
  <2>4. Sending(WritePhase(job.word))' /\ Progress(WritePhase(job.word))' = Progress(s)
    BY <1>10, <1>12, <2>1 DEF Sending, Progress
  <2> QED BY <1>10, <2>1, <2>3, <2>4 DEF InWrite
<1>22. at = "sequence" => InSequence'
  <2> HAVE at = "sequence"
  <2>1. Sending(Sequence) /\ result.ack # Ok
    BY <1>2 DEF Placed, InSequence
  <2>2. Progress(Sequence) \in 0..(2 * LineOnes + 24)
    BY <1>7, <1>8, <2>1, SequenceIs
  <2>3. x = "restarted"
    BY <1>1
  <2>4. Resetting(t, Progress(Sequence), x)
    BY <1>3, <2>2, <2>3, ResettingRestarts
  <2>5. Sending(Sequence)' /\ Progress(Sequence)' = Progress(Sequence)
    BY <1>10, <2>1 DEF Sending, Progress, Sequence, Ones, Zeros, SwitchWord
  <2> QED BY <1>3, <1>10, <2>1, <2>4, <2>5 DEF InSequence
<1>23. at = "recover" => InRecover'
  <2> HAVE at = "recover"
  <2>1. Sampling /\ Silent /\ c <= RecoveryCycles
    BY <1>2 DEF Placed, InRecover
  <2>2. Stopping(t, c)
    BY <1>3 DEF Stopping
  <2> QED BY <1>10, <1>11, <2>1, <2>2 DEF InRecover
<1>24. Placed'
  BY <1>10, <1>13, <1>15, <1>16, <1>17, <1>18, <1>19, <1>20, <1>21, <1>22, <1>23 DEF Placed
<1>25. WordsIntact'
  BY <1>4, <1>10 DEF WordsIntact
<1> QED BY <1>5, <1>24, <1>25 DEF Inv

-----------------------------------------------------------------------------
(* The invariant holds, and with it what it was made for. *)

\* It holds at first,
LEMMA InitInv == Init => Inv
<1> HAVE Init
<1>1. /\ engine = "Hardware" /\ enabled = {} /\ host = Quiet("off") /\ target = Unheard
      /\ job \in [payload : Payloads, word : Words] /\ result = NoResult
      /\ noisy = FALSE /\ trouble = "deaf"
  BY DEF Init
<1>2. "off" \in Stages
  BY DEF Stages
<1>3. /\ host \in HostType /\ host.at = "off" /\ host.out = <<>>
      /\ host.clocks = 0 /\ host.got = <<>>
  BY <1>1, <1>2, HostIs
<1>4. Types
  BY <1>1, <1>3, UnheardIs, NoResultIs DEF Types, Engines, Troubles
<1>5. InOff
  BY <1>1, <1>3, UnheardIs DEF InOff, Silent
<1>6. Placed
  BY <1>3, <1>5 DEF Placed
<1>7. WordsIntact
  BY <1>3 DEF WordsIntact
<1> QED BY <1>4, <1>6, <1>7 DEF Inv

\* and every step keeps it.
LEMMA NextInv == Inv /\ [Next]_vars => Inv'
<1> SUFFICES ASSUME Inv, [Next]_vars PROVE Inv'
  OBVIOUS
<1>1. CASE UNCHANGED vars
  <2>1. /\ engine' = engine /\ enabled' = enabled /\ host' = host /\ job' = job
        /\ result' = result /\ target' = target /\ noisy' = noisy /\ trouble' = trouble
    BY <1>1 DEF vars
  <2> QED BY <2>1 DEF Inv, Types, Placed, WordsIntact, InOff, InIdle, InRequest, InAck,
            InRefused, InData, InTurn, InWrite, InSequence, InRecover, Following, Silent,
            Sampling, Sending, Progress, Leading, Trailing, ReadPhase, WritePhase, Reads
<1>2. CASE Next
  BY <1>2, DriveClockInv, SampleClockInv, TransferInv, ReleaseInv, AcknowledgedInv, WriteDataInv,
     EndRefusedInv, EndWriteInv, EndReadInv, LineResetInv, LineResetEndsInv, RecoverLineInv,
     RecoverEndsInv, DisconnectInv, SetSpeedInv, ProbeRestartsInv, TargetRestartsInv DEF Next
<1> QED BY <1>1, <1>2


\* It bounds what is sent and what was heard,
LEMMA InvTypeOK == Inv => TypeOK
<1> SUFFICES ASSUME Inv PROVE TypeOK
  OBVIOUS
<1>1. Types /\ Placed
  BY DEF Inv
<1>2. /\ host.at \in Stages /\ host.out \in Seq(Bit) /\ host.got \in Seq(Bit)
      /\ host.clocks \in Nat /\ job.payload \in Payloads /\ job.word \in [1..Width -> Bit]
      /\ target \in TargetType /\ Formed(target)
  BY <1>1, WidthAssumption DEF Types, HostType
<1>3. /\ Width \in Nat \ {0} /\ Padding \in Nat /\ LineOnes \in Nat /\ RecoveryCycles \in Nat
      /\ Leading \in {0, 1} /\ Trailing = 2 - Leading /\ ReadPhase = Width + 3 - Leading
  BY Sizes, EngineIs
<1>4. Longest = 2 * LineOnes + 16 + 8 + RecoveryCycles + Width + Padding
  BY SwitchIs DEF Longest
<1>5. /\ Len(PacketRequest(job.payload)) = 8 /\ Len(Sequence) = 2 * LineOnes + 24
      /\ Len(WritePhase(job.word)) \in Nat /\ Len(WritePhase(job.word)) <= Width + 1 + Padding
  BY <1>2, PacketIs, SequenceIs, WritePhaseIs
<1>6. /\ Len(host.out) \in Nat /\ \A i \in DOMAIN host.out : host.out[i] \in Bit
      /\ Len(host.got) \in Nat /\ \A i \in DOMAIN host.got : host.got[i] \in Bit
  <2>1. /\ DOMAIN host.out = 1..Len(host.out) /\ DOMAIN host.got = 1..Len(host.got)
        /\ Len(host.out) \in Nat /\ Len(host.got) \in Nat
    BY <1>2
  <2>2. /\ \A i \in 1..Len(host.out) : host.out[i] \in Bit
        /\ \A i \in 1..Len(host.got) : host.got[i] \in Bit
    BY <1>2, Elements
  <2> QED BY <2>1, <2>2
<1>7. Len(<<>>) = 0
  OBVIOUS
<1>8. Len(host.out) <= Longest /\ host.clocks <= Longest /\ Len(host.got) <= Width + 4
  <2>1. CASE host.at \in {"off", "idle"}
    <3>1. host.out = <<>> /\ host.got = <<>> /\ host.clocks = 0
      BY <1>1, <2>1, RestIsCalm
    <3>2. Len(host.out) = 0 /\ Len(host.got) = 0
      BY <1>7, <3>1
    <3> QED BY <1>3, <1>4, <3>1, <3>2
  <2>2. CASE host.at \in {"request", "write", "sequence"}
    <3>1. /\ host.clocks = 0 /\ host.got = <<>>
          /\ \/ Len(host.out) <= Len(PacketRequest(job.payload))
             \/ Len(host.out) <= Len(WritePhase(job.word))
             \/ Len(host.out) <= Len(Sequence)
      BY <1>1, <2>2 DEF Placed, InRequest, InWrite, InSequence, Sending, Rest
    <3>2. Len(host.got) = 0
      BY <1>7, <3>1
    <3> HIDE <1>7
    <3>3. Len(host.out) <= Longest
      BY <1>3, <1>4, <1>5, <1>6, <3>1
    <3> QED BY <1>3, <1>4, <3>1, <3>2, <3>3
  <2>3. CASE host.at \in {"ack", "refused", "data", "turn", "recover"}
    <3>1. /\ host.out = <<>>
          /\ \/ host.clocks <= Leading + 3 /\ Len(host.got) = Leading + 3 - host.clocks
             \/ host.clocks <= ReadPhase /\ Len(host.got) = ReadPhase - host.clocks
             \/ host.clocks <= Trailing /\ host.got = <<>>
             \/ host.clocks <= RecoveryCycles /\ host.got = <<>>
      BY <1>1, <2>3 DEF Placed, InAck, InRefused, InData, InTurn, InRecover, Sampling, Silent
    <3>2. Len(host.out) = 0
      BY <1>7, <3>1
    <3>3. host.got = <<>> => Len(host.got) = 0
      BY <1>7
    <3> DEFINE c == host.clocks
               g == Len(host.got)
    <3>4. c \in Nat /\ g \in Nat
      BY <1>2, <1>6
    <3>5. \/ c <= Leading + 3 /\ g = Leading + 3 - c
          \/ c <= ReadPhase /\ g = ReadPhase - c
          \/ c <= Trailing /\ g = 0
          \/ c <= RecoveryCycles /\ g = 0
      BY <3>1, <3>3
    <3>6. 0 <= Longest
      BY <1>3, <1>4
    <3> HIDE DEF c, g
    <3>7. c <= Longest /\ g <= Width + 4
      BY <1>3, <1>4, <3>4, <3>5
    <3> QED BY <3>2, <3>6, <3>7 DEF c, g
  <2> QED BY <1>2, <2>1, <2>2, <2>3 DEF Stages
<1>9. Len(target.bits) <= Width + 8
  <2>1. Taken(target) = Len(target.bits) /\ Taken(target) \in Nat
    BY <1>2, TakenIs
  <2>2. CASE target.at \in {"request", "write"}
    <3>1. Taken(target) \in 1..7 \/ Taken(target) <= Width
      BY <1>2, <2>2 DEF Formed
    <3>2. Taken(target) \in Nat
      BY <2>1
    <3> DEFINE k == Taken(target)
    <3> HIDE DEF k
    <3>3. k <= Width + 8
      <4>1. k \in Nat /\ (k \in 1..7 \/ k <= Width)
        BY <3>1, <3>2 DEF k
      <4> QED BY <1>3, <4>1
    <3> QED BY <2>1, <3>3 DEF k
  <2>3. CASE target.at \notin {"request", "write"}
    <3>1. target.bits = <<>>
      BY <1>2, <2>3 DEF Formed
    <3>2. Len(target.bits) = 0
      BY <1>7, <3>1
    <3> QED BY <1>3, <3>2
  <2> QED BY <2>2, <2>3
<1>10. host.clocks \in 0..Longest
  BY <1>2, <1>3, <1>4, <1>8
<1> QED BY <1>1, <1>2, <1>6, <1>8, <1>9, <1>10 DEF TypeOK, Types, Stages, TargetType,
                                                     Places, Troubles

\* has nobody drive SWDIO against the probe,
LEMMA InvNoContention == Inv => NoContention
<1> SUFFICES ASSUME Inv, Following, "SWDIO" \in enabled, Driving(target) PROVE FALSE
  BY DEF NoContention, Following
<1>1. Types /\ Placed
  BY DEF Inv
<1>2. target.at = "answer" /\ target.n > 0
  BY DEF Driving
<1>3. enabled # {"SWCLK"} /\ enabled # {}
  OBVIOUS
<1>4. host.at \in {"idle", "request", "write", "sequence"}
  BY <1>1, <1>3 DEF Types, HostType, Stages, Placed, InOff, InAck, InRefused, InData, InTurn,
                    InRecover, Sampling
<1>5. CASE host.at = "idle"
  <2>1. Calm(target)
    BY <1>1, <1>5, RestIsCalm
  <2> QED BY <1>2, <2>1 DEF Calm
<1>6. CASE host.at = "request"
  <2> DEFINE q == PacketRequest(job.payload)
             j == Progress(q)
  <2>1. Asking(target, q, j, noisy, trouble)
    BY <1>1, <1>6 DEF Placed, InRequest
  <2> HIDE DEF q, j
  <2> QED BY <1>2, <2>1 DEF Asking, Aimed, Astray, SixOnes, Missed, Late, Early, Bent
<1>7. CASE host.at = "write"
  <2> DEFINE s == WritePhase(job.word)
             j == Progress(s)
  <2>1. Writing(target, job.word, j, noisy, trouble) /\ Sending(s)
    BY <1>1, <1>7 DEF Placed, InWrite
  <2> HIDE DEF s, j
  <2>2. target.at \in {"write", "idle", "lost"}
    <3>1. CASE Written(target, job.word, j, noisy)
      <4>1. j <= Width \/ j > Width
        <5>1. job.word \in [1..Width -> Bit] /\ host.out \in Seq(Bit) /\ Width \in Nat
          BY <1>1, WidthAssumption DEF Types, HostType
        <5>2. s \in Seq(Bit)
          BY <5>1, WritePhaseIs DEF s
        <5>3. j \in Int
          BY <5>1, <5>2, SeqNat DEF j, Progress, Sent
        <5> QED BY <5>1, <5>3
      <4> QED BY <3>1, <4>1 DEF Written
    <3> QED BY <2>1, <3>1 DEF Writing
  <2> QED BY <1>2, <2>2
<1>8. CASE host.at = "sequence"
  <2> DEFINE j == Progress(Sequence)
  <2>1. /\ Sending(Sequence) /\ Resetting(target, j, trouble)
        /\ j <= LineOnes => Harmless(target)
    BY <1>1, <1>8 DEF Placed, InSequence
  <2>2. target \in TargetType /\ Formed(target) /\ host.out \in Seq(Bit)
    BY <1>1 DEF Types, HostType
  <2>3. j \in Int
    BY <2>2, SeqNat, SequenceIs DEF Progress, Sent
  <2> HIDE DEF j
  <2>4. CASE j <= LineOnes
    BY <1>2, <2>1, <2>4 DEF Harmless
  <2>5. CASE j > LineOnes
    <3>1. j \in Nat
      BY <2>3, <2>5, Sizes
    <3>2. target.at # "answer"
      BY <2>1, <2>2, <2>5, <3>1, ResettingSilent
    <3> QED BY <1>2, <3>2
  <2> QED BY <2>3, <2>4, <2>5, Sizes
<1> QED BY <1>4, <1>5, <1>6, <1>7, <1>8

\* and leaves an untroubled target idle.
LEMMA InvAligned == Inv => Aligned
<1> SUFFICES ASSUME Inv, host.at = "idle", trouble = "none" PROVE target.at = "idle"
  BY DEF Aligned
<1>1. InIdle /\ Following
  BY DEF Inv, Placed, Following
<1> QED BY <1>1 DEF InIdle, Resting

\* It holds in every behaviour.
LEMMA InvHolds == Spec => []Inv
BY InitInv, NextInv, PTL DEF Spec

\* Every variable keeps its type, whatever the words, the engine and the flips:
\* what is still to be sent and what was heard never outgrow the longest script.
THEOREM TypeCorrect == Spec => []TypeOK
BY InvHolds, InvTypeOK, PTL

\* Whichever engine runs and whatever the target answers, wire_transfer, the line
\* reset and recover_line never leave the probe driving SWDIO while a target that
\* the probe has not crossed drives it too.
THEOREM NoTwoDrivers == Spec => []NoContention
BY InvHolds, InvNoContention, PTL

\* With its leading and trailing turnaround each engine gives the target just the
\* clocks it needs: between transfers it waits for a start bit, unless it lost its
\* place, and a line reset finds it again.
THEOREM AlwaysAligned == Spec => []Aligned
BY InvHolds, InvAligned, PTL

\* No bit of an accepted word is shifted, and one flipped on the wire does not pass
\* the parity: what a read returned is the target's word, and what a write left is
\* the probe's, or nothing.
THEOREM WordsRight == Spec => []WordsIntact
<1>1. Inv => WordsIntact
  BY DEF Inv
<1> QED BY <1>1, InvHolds, PTL
=============================================================================
