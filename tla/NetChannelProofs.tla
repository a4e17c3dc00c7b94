--------------------------- MODULE NetChannelProofs ---------------------------
(***************************************************************************)
(* Proofs about vital chunks, for any number of sequence numbers, any      *)
(* window of less than half of them, buffers of any size and a network     *)
(* that loses, repeats and reorders packets: the counters stand for what   *)
(* they count, a chunk is kept until it is received, and each chunk is     *)
(* received once and in order.                                             *)
(***************************************************************************)
EXTENDS NetChannel, SequenceTheorems, WellFoundedInduction, TLAPS

Chunk == [seq : SeqNumbers, id : Nat]
Construct == [resend : BOOLEAN, chunks : Seq(Chunk)]
Packet == [ack : SeqNumbers, ackId : Nat, resend : BOOLEAN, chunks : Seq(Chunk)]

CounterType ==
  /\ m_Sequence \in [Peers -> SeqNumbers] /\ m_Ack \in [Peers -> SeqNumbers]
  /\ m_PeerAck \in [Peers -> SeqNumbers]
  /\ sent \in [Peers -> Nat] /\ received \in [Peers -> Nat]

ChunkType ==
  /\ m_Buffer \in [Peers -> Seq(Chunk)] /\ unpacker \in [Peers -> Seq(Chunk)]
  /\ m_Construct \in [Peers -> Construct]
  /\ net \in [Peers -> SUBSET Packet]
  /\ DOMAIN unsaved = Peers

\* Types of the state the proofs are about.
TypeOK == CounterType /\ ChunkType

\* The counters are those of the chunks, and less than half of the numbers are
\* used by chunks that are not acknowledged.
Counters(e) ==
  /\ m_Sequence[e] = sent[e] % NET_MAX_SEQUENCE
  /\ m_Ack[e] = received[e] % NET_MAX_SEQUENCE
  /\ received[Other(e)] <= sent[e]
  /\ Unacked(e) <= MaxUnacked
  /\ sent[e] <= received[Other(e)] + Unacked(e)

\* Chunks of end e: their numbers are those of chunks it queued, and no two lie
\* further apart than a window before and a window after one that was queued.
ChunksOf(e, chs) ==
  /\ \A c \in Range(chs) : c.id <= sent[e] /\ c.seq = c.id % NET_MAX_SEQUENCE
  /\ \A c, d \in Range(chs) : d.id < c.id + 2 * MaxUnacked

\* The resend buffer: chunks that are not acknowledged, oldest first.
Kept(e) ==
  /\ \A i \in 1..Len(m_Buffer[e]) :
       /\ m_Buffer[e][i].seq = m_Buffer[e][i].id % NET_MAX_SEQUENCE
       /\ m_Buffer[e][i].id <= sent[e]
       /\ m_Buffer[e][i].id + Unacked(e) > sent[e]
  /\ \A i, j \in 1..Len(m_Buffer[e]) : i < j => m_Buffer[e][i].id < m_Buffer[e][j].id
  /\ \A id \in (received[Other(e)] + 1)..sent[e] :
       id \in unsaved[e] \/ \E i \in 1..Len(m_Buffer[e]) : m_Buffer[e][i].id = id

\* The chunks of e the other end may have seen, or may come to see before those of
\* the packet under construction.
UnderWay(e) ==
  Range(unpacker[Other(e)]) \cup UNION {Range(p.chunks) : p \in net[e]}

\* The packet under construction.  What was sent before its chunks were queued is not
\* a window ahead of them, and what was sent later is in the packet behind them.
Constructed(e) ==
  /\ Len(m_Construct[e].chunks) <= ConstructCap
  /\ ChunksOf(e, m_Construct[e].chunks)
  /\ \A c \in Range(m_Construct[e].chunks) :
       /\ received[Other(e)] < c.id + MaxUnacked
       /\ \A d \in UnderWay(e) : d.id < c.id + MaxUnacked

\* Packets in transit.
InNet(e) ==
  \A p \in net[e] :
    /\ ChunksOf(e, p.chunks)
    /\ p.ack = p.ackId % NET_MAX_SEQUENCE /\ p.ackId <= received[e]

\* The packet being unpacked: none of its numbers was used twice since.
Unpacking(e) ==
  /\ ChunksOf(Other(e), unpacker[e])
  /\ \A c \in Range(unpacker[e]) : c.id + NET_MAX_SEQUENCE > received[e] + 1

EndInv(e) == Counters(e) /\ Kept(e) /\ Constructed(e) /\ InNet(e) /\ Unpacking(e)

IInv == TypeOK /\ \A e \in Peers : EndInv(e)

-----------------------------------------------------------------------------
(* Sequence numbers.                                                       *)

\* Half of the numbers, and a window of less than half.
LEMMA Half ==
  /\ NET_MAX_SEQUENCE \in Nat /\ NET_MAX_SEQUENCE >= 4
  /\ NET_MAX_SEQUENCE \div 2 \in Nat /\ 2 * (NET_MAX_SEQUENCE \div 2) = NET_MAX_SEQUENCE
  /\ MaxUnacked \in Nat /\ MaxUnacked < NET_MAX_SEQUENCE \div 2
  /\ 2 * MaxUnacked <= NET_MAX_SEQUENCE - 2
<1>1. /\ NET_MAX_SEQUENCE \in Nat /\ NET_MAX_SEQUENCE >= 4
      /\ MaxUnacked \in Nat /\ MaxUnacked < NET_MAX_SEQUENCE \div 2
  BY SequenceAssumption, ChannelAssumption
<1>2. NET_MAX_SEQUENCE \div 2 \in Nat /\ 2 * (NET_MAX_SEQUENCE \div 2) = NET_MAX_SEQUENCE
  BY SequenceAssumption
<1> QED BY <1>1, <1>2

\* A number is determined by a quotient and a remainder.
LEMMA ModUnique ==
  ASSUME NEW n \in Nat \ {0}, NEW q \in Int, NEW r \in 0..n - 1
  PROVE  (n * q + r) % n = r
OBVIOUS

\* The number that is d behind x.
LEMMA ModShift ==
  ASSUME NEW n \in Nat \ {0}, NEW x \in Nat, NEW d \in 0..n - 1
  PROVE  /\ x % n \in 0..n - 1
         /\ (x + d) % n = IF (x % n) + d < n THEN (x % n) + d ELSE (x % n) + d - n
<1> DEFINE q == x \div n
           r == x % n
<1>1. q \in Int /\ r \in 0..n - 1 /\ x = n * q + r
  OBVIOUS
<1> HIDE DEF q, r
<1>2. CASE r + d < n
  <2>1. r + d \in 0..n - 1 /\ x + d = n * q + (r + d)
    BY <1>1, <1>2
  <2>2. (x + d) % n = r + d
    BY <1>1, <2>1, ModUnique
  <2> QED BY <1>1, <1>2, <2>2 DEF r
<1>3. CASE ~(r + d < n)
  <2>1. r + d - n \in 0..n - 1 /\ x + d = n * (q + 1) + (r + d - n) /\ q + 1 \in Int
    BY <1>1, <1>3
  <2>2. (x + d) % n = r + d - n
    BY <1>1, <2>1, ModUnique
  <2> QED BY <1>1, <1>3, <2>2 DEF r
<1> QED BY <1>2, <1>3

\* The distance from t to s, two remainders.
LEMMA ModDistance ==
  ASSUME NEW n \in Nat \ {0}, NEW s \in 0..n - 1, NEW t \in 0..n - 1
  PROVE  (s - t) % n = IF t <= s THEN s - t ELSE s - t + n
<1>1. CASE t <= s
  <2>1. s - t \in 0..n - 1 /\ s - t = n * 0 + (s - t)
    BY <1>1
  <2>2. (s - t) % n = s - t
    BY <2>1, ModUnique
  <2> QED BY <1>1, <2>2
<1>2. CASE ~(t <= s)
  <2>1. s - t + n \in 0..n - 1 /\ s - t = n * (-1) + (s - t + n) /\ -1 \in Int
    BY <1>2
  <2>2. (s - t) % n = s - t + n
    BY <2>1, ModUnique
  <2> QED BY <1>2, <2>2
<1> QED BY <1>1, <1>2

Mod(x) == x % NET_MAX_SEQUENCE

\* Remainders are sequence numbers.
LEMMA ModType ==
  ASSUME NEW x \in Nat
  PROVE  Mod(x) \in SeqNumbers /\ SeqNumbers = 0..NET_MAX_SEQUENCE - 1
BY ModShift, Half DEF Mod, SeqNumbers

\* The number of a chunk less than NET_MAX_SEQUENCE later.
LEMMA ModLater ==
  ASSUME NEW x \in Nat, NEW y \in Nat, x <= y, y < x + NET_MAX_SEQUENCE
  PROVE  Mod(y) = IF Mod(x) + (y - x) < NET_MAX_SEQUENCE
                  THEN Mod(x) + (y - x) ELSE Mod(x) + (y - x) - NET_MAX_SEQUENCE
<1>1. y - x \in 0..NET_MAX_SEQUENCE - 1 /\ x + (y - x) = y /\ NET_MAX_SEQUENCE \in Nat \ {0}
  BY Half
<1>2. (x + (y - x)) % NET_MAX_SEQUENCE
        = IF (x % NET_MAX_SEQUENCE) + (y - x) < NET_MAX_SEQUENCE
          THEN (x % NET_MAX_SEQUENCE) + (y - x)
          ELSE (x % NET_MAX_SEQUENCE) + (y - x) - NET_MAX_SEQUENCE
  BY <1>1, ModShift
<1> QED BY <1>1, <1>2 DEF Mod

\* NextSequence counts.
LEMMA NextCounts ==
  ASSUME NEW x \in Nat
  PROVE  NextSequence(Mod(x)) = Mod(x + 1)
<1>1. Mod(x) \in 0..NET_MAX_SEQUENCE - 1
  BY ModType
<1>2. Mod(x + 1) = IF Mod(x) + 1 < NET_MAX_SEQUENCE
                   THEN Mod(x) + 1 ELSE Mod(x) + 1 - NET_MAX_SEQUENCE
  BY ModLater, Half
<1> DEFINE m == Mod(x)
<1> HIDE DEF m
<1>3. m \in Nat /\ 1 \in 0..NET_MAX_SEQUENCE - 1 /\ NET_MAX_SEQUENCE \in Nat \ {0}
  BY <1>1, Half DEF m
<1>4. (m + 1) % NET_MAX_SEQUENCE = IF m + 1 < NET_MAX_SEQUENCE
                                   THEN m + 1 ELSE m + 1 - NET_MAX_SEQUENCE
  <2>1. CASE m + 1 < NET_MAX_SEQUENCE
    <3>1. m + 1 = NET_MAX_SEQUENCE * 0 + (m + 1) /\ m + 1 \in 0..NET_MAX_SEQUENCE - 1
      BY <1>3, <2>1
    <3>2. (m + 1) % NET_MAX_SEQUENCE = m + 1
      BY <1>3, <3>1, ModUnique
    <3> QED BY <2>1, <3>2
  <2>2. CASE ~(m + 1 < NET_MAX_SEQUENCE)
    <3>1. /\ m + 1 = NET_MAX_SEQUENCE * 1 + 0 /\ 0 \in 0..NET_MAX_SEQUENCE - 1
          /\ m + 1 - NET_MAX_SEQUENCE = 0
      BY <1>1, <1>3, <2>2 DEF m
    <3>2. (m + 1) % NET_MAX_SEQUENCE = 0
      BY <1>3, <3>1, ModUnique
    <3> QED BY <2>2, <3>1, <3>2
  <2> QED BY <2>1, <2>2
<1> QED BY <1>2, <1>4 DEF m, NextSequence

\* Two chunks with one number are far apart.
LEMMA ModEqual ==
  ASSUME NEW x \in Nat, NEW y \in Nat, Mod(x) = Mod(y),
         x < y + NET_MAX_SEQUENCE, y < x + NET_MAX_SEQUENCE
  PROVE  x = y
<1>0. Mod(x) \in 0..NET_MAX_SEQUENCE - 1 /\ NET_MAX_SEQUENCE \in Nat
  BY ModType, Half
<1>1. CASE x <= y
  <2>1. Mod(y) = IF Mod(x) + (y - x) < NET_MAX_SEQUENCE
                 THEN Mod(x) + (y - x) ELSE Mod(x) + (y - x) - NET_MAX_SEQUENCE
    BY <1>1, ModLater
  <2> QED BY <1>0, <1>1, <2>1
<1>2. CASE ~(x <= y)
  <2>1. y <= x
    BY <1>2
  <2>2. Mod(x) = IF Mod(y) + (x - y) < NET_MAX_SEQUENCE
                 THEN Mod(y) + (x - y) ELSE Mod(y) + (x - y) - NET_MAX_SEQUENCE
    BY <2>1, ModLater
  <2> QED BY <1>0, <1>2, <2>2
<1> QED BY <1>1, <1>2

\* The backroom of an ack, for numbers less than half of them apart.
LEMMA Backroom ==
  ASSUME NEW x \in Nat, NEW a \in Nat,
         x < a + NET_MAX_SEQUENCE \div 2, a <= x + NET_MAX_SEQUENCE \div 2
  PROVE  IsSeqInBackroom(Mod(x), Mod(a)) <=> x <= a
<1> DEFINE h == NET_MAX_SEQUENCE \div 2
<1>1. /\ h \in Nat /\ NET_MAX_SEQUENCE = 2 * h /\ h >= 2
      /\ Mod(x) \in 0..2 * h - 1 /\ Mod(a) \in 0..2 * h - 1
  BY Half, ModType
<1>2. CASE x <= a
  <2>1. Mod(a) = IF Mod(x) + (a - x) < 2 * h THEN Mod(x) + (a - x) ELSE Mod(x) + (a - x) - 2 * h
    BY <1>1, <1>2, ModLater
  <2> HIDE DEF h
  <2>2. IF Mod(a) - h < 0 THEN Mod(x) <= Mod(a) \/ Mod(x) >= Mod(a) - h + 2 * h
                          ELSE Mod(x) <= Mod(a) /\ Mod(x) >= Mod(a) - h
    BY <1>1, <1>2, <2>1 DEF h
  <2> QED BY <1>1, <1>2, <2>2 DEF IsSeqInBackroom, h
<1>3. CASE ~(x <= a)
  <2>1. Mod(x) = IF Mod(a) + (x - a) < 2 * h THEN Mod(a) + (x - a) ELSE Mod(a) + (x - a) - 2 * h
    BY <1>1, <1>3, ModLater
  <2>2. ~ IF Mod(a) - h < 0 THEN Mod(x) <= Mod(a) \/ Mod(x) >= Mod(a) - h + 2 * h
                            ELSE Mod(x) <= Mod(a) /\ Mod(x) >= Mod(a) - h
    BY <1>1, <1>3, <2>1
  <2> QED BY <1>1, <1>3, <2>2 DEF IsSeqInBackroom
<1> QED BY <1>2, <1>3

\* Chunks between a, that the ack p stands for, and s, of the sequence number.
Distance(s, p) == (Mod(s) - p) % NET_MAX_SEQUENCE

\* It is a number, by cases on whether the numbers between wrapped.
LEMMA DistanceIs ==
  ASSUME NEW s \in Nat, NEW p \in SeqNumbers
  PROVE  /\ Distance(s, p) \in 0..NET_MAX_SEQUENCE - 1
         /\ Distance(s, p) = IF p <= Mod(s) THEN Mod(s) - p ELSE Mod(s) - p + NET_MAX_SEQUENCE
<1>1. /\ Mod(s) \in 0..NET_MAX_SEQUENCE - 1 /\ p \in 0..NET_MAX_SEQUENCE - 1
      /\ NET_MAX_SEQUENCE \in Nat \ {0}
  BY ModType, Half
<1>2. Distance(s, p) = IF p <= Mod(s) THEN Mod(s) - p ELSE Mod(s) - p + NET_MAX_SEQUENCE
  BY <1>1, ModDistance DEF Distance
<1> QED BY <1>1, <1>2

\* It grows with s,
LEMMA DistanceGrows ==
  ASSUME NEW s \in Nat, NEW p \in SeqNumbers, Distance(s, p) < NET_MAX_SEQUENCE - 1
  PROVE  Distance(s + 1, p) = Distance(s, p) + 1
<1>1. /\ Mod(s) \in 0..NET_MAX_SEQUENCE - 1 /\ p \in 0..NET_MAX_SEQUENCE - 1
      /\ Mod(s + 1) = IF Mod(s) + 1 < NET_MAX_SEQUENCE THEN Mod(s) + 1
                                                       ELSE Mod(s) + 1 - NET_MAX_SEQUENCE
  <2>1. PICK t \in Nat : t = s + 1 /\ s <= t /\ t < s + NET_MAX_SEQUENCE /\ t - s = 1
    BY Half
  <2>2. Mod(t) = IF Mod(s) + (t - s) < NET_MAX_SEQUENCE
                 THEN Mod(s) + (t - s) ELSE Mod(s) + (t - s) - NET_MAX_SEQUENCE
    BY <2>1, ModLater
  <2> QED BY <2>1, <2>2, ModType
<1>2. s + 1 \in Nat
  OBVIOUS
<1>3. /\ Distance(s, p) = IF p <= Mod(s) THEN Mod(s) - p ELSE Mod(s) - p + NET_MAX_SEQUENCE
      /\ Distance(s + 1, p)
           = IF p <= Mod(s + 1) THEN Mod(s + 1) - p ELSE Mod(s + 1) - p + NET_MAX_SEQUENCE
  BY <1>2, DistanceIs
<1> QED BY <1>1, <1>3, Half

\* and is s - a for the ack of a.
LEMMA DistanceOfAck ==
  ASSUME NEW s \in Nat, NEW a \in Nat, a <= s, s < a + NET_MAX_SEQUENCE
  PROVE  Distance(s, Mod(a)) = s - a
<1>1. /\ Mod(a) \in 0..NET_MAX_SEQUENCE - 1 /\ Mod(a) \in SeqNumbers
      /\ Mod(s) = IF Mod(a) + (s - a) < NET_MAX_SEQUENCE THEN Mod(a) + (s - a)
                                                       ELSE Mod(a) + (s - a) - NET_MAX_SEQUENCE
  BY ModType, ModLater
<1> QED BY <1>1, DistanceIs, Half

\* Feed takes no ack that is older than the one it has.
LEMMA WindowIs ==
  ASSUME NEW s \in Nat, NEW p \in SeqNumbers, NEW a \in Nat, a <= s, s < a + NET_MAX_SEQUENCE,
         AckInWindow(Mod(s), p, Mod(a))
  PROVE  s - a <= Distance(s, p)
<1>1. /\ Mod(a) \in 0..NET_MAX_SEQUENCE - 1 /\ p \in 0..NET_MAX_SEQUENCE - 1
      /\ Mod(s) = IF Mod(a) + (s - a) < NET_MAX_SEQUENCE THEN Mod(a) + (s - a)
                                                       ELSE Mod(a) + (s - a) - NET_MAX_SEQUENCE
  BY ModType, ModLater
<1> QED BY <1>1, DistanceIs, Half DEF AckInWindow

-----------------------------------------------------------------------------
(* Sequences and packets.                                                  *)

\* The other end.
LEMMA PeersAre ==
  /\ Other("client") = "server" /\ Other("server") = "client"
  /\ \A e \in Peers : Other(e) \in Peers /\ Other(e) # e /\ Other(Other(e)) = e
  /\ \A e, f \in Peers : f = e \/ f = Other(e)
BY DEF Peers, Other

\* The largest of numbers that are at most n.
LEMMA MaxIs ==
  ASSUME NEW n \in Nat, NEW S, S \subseteq 0..n, S # {}
  PROVE  Max(S) \in S /\ \A y \in S : Max(S) >= y
<1> DEFINE T == {k \in 0..n : n - k \in S}
<1>1. T \subseteq Nat /\ T # {}
  <2>1. PICK i \in S : i \in 0..n
    OBVIOUS
  <2>2. n - i \in 0..n /\ n - (n - i) = i
    BY <2>1
  <2>3. n - i \in T
    BY <2>1, <2>2
  <2>4. T \subseteq Nat
    OBVIOUS
  <2> HIDE DEF T
  <2> QED BY <2>3, <2>4
<1>2. \E x \in T : \A y \in T : ~ (<<y, x>> \in OpToRel(<, Nat))
  <2> HIDE DEF T
  <2> QED BY <1>1, NatLessThanWellFounded, WFMin
<1>3. PICK x \in T : \A y \in T : ~ (y < x)
  BY <1>1, <1>2 DEF OpToRel
<1>4. n - x \in S /\ \A y \in S : n - x >= y
  <2>1. n - x \in S
    BY <1>3
  <2>2. ASSUME NEW y \in S PROVE n - x >= y
    <3>1. n - y \in T /\ y \in Nat
      <4>1. y \in 0..n
        OBVIOUS
      <4>2. n - y \in 0..n /\ n - (n - y) = y
        BY <4>1
      <4> QED BY <4>1, <4>2
    <3>2. ~ (n - y < x) /\ x \in Nat
      BY <1>1, <1>3, <3>1
    <3> QED BY <3>1, <3>2
  <2> QED BY <2>1, <2>2
<1> QED BY <1>4 DEF Max

\* The elements of a part of a sequence,
LEMMA RangeSubSeq ==
  ASSUME NEW S, NEW s \in Seq(S), NEW m \in Nat \ {0}, NEW n \in Nat, n <= Len(s)
  PROVE  /\ SubSeq(s, m, n) \in Seq(S)
         /\ Len(SubSeq(s, m, n)) = IF m <= n THEN n - m + 1 ELSE 0
         /\ \A c \in Range(SubSeq(s, m, n)) : \E i \in m..n : c = s[i]
         /\ Range(SubSeq(s, m, n)) \subseteq Range(s)
<1>1. Len(s) \in Nat /\ DOMAIN s = 1..Len(s) /\ \A i \in 1..Len(s) : s[i] \in S
  BY LenProperties
<1>2. \A i \in m..n : i \in 1..Len(s) /\ s[i] \in S
  BY <1>1
<1> DEFINE t == SubSeq(s, m, n)
<1>3. /\ t \in Seq(S) /\ Len(t) = IF m <= n THEN n - m + 1 ELSE 0
      /\ \A i \in 1..n - m + 1 : t[i] = s[m + i - 1]
  BY <1>2, SubSeqProperties
<1> HIDE DEF t
<1>4. ASSUME NEW c \in Range(t) PROVE \E i \in m..n : c = s[i]
  <2>1. PICK i \in 1..Len(t) : c = t[i]
    BY <1>3, LenProperties DEF Range
  <2>2. i \in 1..n - m + 1 /\ m + i - 1 \in m..n
    BY <1>3, <2>1
  <2> QED BY <1>3, <2>1, <2>2
<1>5. Range(t) \subseteq Range(s)
  BY <1>1, <1>2, <1>4 DEF Range
<1> QED BY <1>3, <1>4, <1>5 DEF t

\* and of two sequences in a row.
LEMMA RangeConcat ==
  ASSUME NEW S, NEW s \in Seq(S), NEW t \in Seq(S)
  PROVE  /\ s \o t \in Seq(S) /\ Len(s \o t) = Len(s) + Len(t)
         /\ \A i \in 1..Len(s) + Len(t) : i > Len(s) => (s \o t)[i] \in Range(t)
         /\ Range(s \o t) \subseteq Range(s) \cup Range(t)
<1>1. /\ Len(s) \in Nat /\ DOMAIN s = 1..Len(s) /\ Len(t) \in Nat /\ DOMAIN t = 1..Len(t)
  BY LenProperties
<1> DEFINE u == s \o t
<1>2. /\ u \in Seq(S) /\ Len(u) = Len(s) + Len(t)
      /\ \A i \in 1..Len(s) + Len(t) : u[i] = IF i <= Len(s) THEN s[i] ELSE t[i - Len(s)]
  BY ConcatProperties
<1>3. DOMAIN u = 1..Len(s) + Len(t)
  BY <1>2, LenProperties
<1> HIDE DEF u
<1>4. ASSUME NEW i \in 1..Len(s) + Len(t), i > Len(s) PROVE u[i] \in Range(t)
  <2>1. i - Len(s) \in 1..Len(t) /\ ~(i <= Len(s))
    BY <1>1, <1>4
  <2> QED BY <1>1, <1>2, <2>1 DEF Range
<1>5. ASSUME NEW i \in 1..Len(s) + Len(t), ~(i > Len(s)) PROVE u[i] \in Range(s)
  <2>1. i \in 1..Len(s) /\ i <= Len(s)
    BY <1>1, <1>5
  <2> QED BY <1>1, <1>2, <2>1 DEF Range
<1>6. Range(u) \subseteq Range(s) \cup Range(t)
  BY <1>3, <1>4, <1>5 DEF Range
<1> QED BY <1>2, <1>4, <1>6 DEF u

\* Full packets take chunks from the front.
LEMMA Quotient ==
  ASSUME NEW l \in Nat, l > 0
  PROVE  LET n == (l - 1) \div ConstructCap IN
         /\ n \in Nat /\ n * ConstructCap < l /\ l - n * ConstructCap <= ConstructCap
         /\ \A i \in 1..n : /\ i * ConstructCap < l /\ (i - 1) * ConstructCap + 1 \in Nat \ {0}
                            /\ i * ConstructCap \in Nat
         /\ n > 0 => n * ConstructCap >= ConstructCap
<1> DEFINE n == (l - 1) \div ConstructCap
<1>0. ConstructCap \in Nat \ {0}
  BY ChannelAssumption
<1>1. n \in Nat /\ n * ConstructCap < l /\ l - n * ConstructCap <= ConstructCap
  BY <1>0
<1> HIDE DEF n
<1>2. ASSUME NEW i \in 1..n
      PROVE  /\ i * ConstructCap < l /\ (i - 1) * ConstructCap + 1 \in Nat \ {0}
             /\ i * ConstructCap \in Nat
  <2>1. PICK d \in Nat : n = i + d
    BY <1>1
  <2>2. n * ConstructCap = i * ConstructCap + d * ConstructCap /\ d * ConstructCap \in Nat
    BY <1>0, <2>1
  <2>3. i * ConstructCap \in Nat /\ (i - 1) * ConstructCap \in Nat
    BY <1>0, <1>1
  <2> QED BY <1>1, <2>2, <2>3
<1>3. n > 0 => n * ConstructCap >= ConstructCap
  <2>1. ASSUME n > 0 PROVE n * ConstructCap >= ConstructCap
    <3>1. PICK d \in Nat : n = 1 + d
      BY <1>1, <2>1
    <3>2. n * ConstructCap = ConstructCap + d * ConstructCap /\ d * ConstructCap \in Nat
      BY <1>0, <3>1
    <3> QED BY <1>0, <3>2
  <2> QED BY <2>1
<1> QED BY <1>1, <1>2, <1>3 DEF n

\* QueueChunkEx, for chunks of which some fill packets: no chunk comes from anywhere
\* else, and when a packet was filled, what was in the construct is in that packet.
LEMMA QueueChunk ==
  ASSUME ChunkType, CounterType, NEW e \in Peers, NEW chs \in Seq(Chunk),
         Len(m_Construct[e].chunks) <= ConstructCap
  PROVE  /\ QueueChunkEx(e, chs) \in Construct
         /\ Len(QueueChunkEx(e, chs).chunks) <= ConstructCap
         /\ Range(QueueChunkEx(e, chs).chunks)
              \subseteq Range(m_Construct[e].chunks) \cup Range(chs)
         /\ \/ FullPackets(e, chs) = {}
            \/ Range(QueueChunkEx(e, chs).chunks) \subseteq Range(chs)
         /\ \A p \in FullPackets(e, chs) :
              /\ p \in Packet /\ p.ack = m_Ack[e] /\ p.ackId = received[e]
              /\ Range(p.chunks) \subseteq Range(m_Construct[e].chunks) \cup Range(chs)
<1> DEFINE old == m_Construct[e].chunks
           q == Queued(e, chs)
           l == Len(q)
           n == NumFull(e, chs)
           all == Range(old) \cup Range(chs)
<1>1. old \in Seq(Chunk) /\ Len(old) \in Nat /\ m_Construct[e].resend \in BOOLEAN
  BY LenProperties DEF ChunkType, Construct
<1>2. /\ q \in Seq(Chunk) /\ l \in Nat /\ Range(q) \subseteq all
      /\ \A i \in 1..l : i > Len(old) => q[i] \in Range(chs)
  <2> HIDE DEF old
  <2>1. /\ old \o chs \in Seq(Chunk) /\ Len(old \o chs) = Len(old) + Len(chs)
        /\ \A i \in 1..Len(old) + Len(chs) : i > Len(old) => (old \o chs)[i] \in Range(chs)
        /\ Range(old \o chs) \subseteq Range(old) \cup Range(chs)
    BY <1>1, RangeConcat
  <2>2. Len(old \o chs) \in Nat
    BY <2>1, LenProperties
  <2> QED BY <2>1, <2>2 DEF Queued, old
<1> HIDE DEF old, q, all
<1>3. /\ n \in Nat /\ n * ConstructCap <= l /\ l - n * ConstructCap <= ConstructCap
      /\ n * ConstructCap + 1 \in Nat \ {0}
      /\ \A i \in 1..n : /\ i * ConstructCap <= l /\ (i - 1) * ConstructCap + 1 \in Nat \ {0}
                         /\ i * ConstructCap \in Nat
      /\ n > 0 => n * ConstructCap >= ConstructCap
  <2>1. CASE q = <<>>
    <3>1. n = 0 /\ l = 0
      BY <2>1 DEF NumFull, q
    <3> QED BY <3>1, ChannelAssumption
  <2>2. CASE q # <<>>
    <3>1. l > 0
      BY <1>2, <2>2
    <3>2. n = (l - 1) \div ConstructCap
      BY <2>2 DEF NumFull, q
    <3> HIDE DEF l, n
    <3>3. /\ n \in Nat /\ n * ConstructCap < l /\ l - n * ConstructCap <= ConstructCap
          /\ \A i \in 1..n : /\ i * ConstructCap < l
                             /\ (i - 1) * ConstructCap + 1 \in Nat \ {0}
                             /\ i * ConstructCap \in Nat
          /\ n > 0 => n * ConstructCap >= ConstructCap
      BY <1>2, <3>1, <3>2, Quotient
    <3>4. n * ConstructCap \in Nat
      BY <3>3, ChannelAssumption
    <3> QED BY <1>2, <3>3, <3>4
  <2> QED BY <2>1, <2>2
<1> HIDE DEF l, n
<1> DEFINE rest == SubSeq(q, n * ConstructCap + 1, l)
<1>4. /\ rest \in Seq(Chunk)
      /\ Len(rest) = IF n * ConstructCap + 1 <= l THEN l - (n * ConstructCap + 1) + 1 ELSE 0
      /\ \A c \in Range(rest) : \E i \in n * ConstructCap + 1..l : c = q[i]
      /\ Range(rest) \subseteq Range(q)
  BY <1>2, <1>3, RangeSubSeq DEF l
<1> HIDE DEF rest
<1>5. QueueChunkEx(e, chs) = [resend |-> n = 0 /\ m_Construct[e].resend, chunks |-> rest]
  BY DEF QueueChunkEx, rest, n, q, l
<1>6. QueueChunkEx(e, chs) \in Construct /\ QueueChunkEx(e, chs).chunks = rest
  BY <1>1, <1>4, <1>5 DEF Construct
<1>7. Len(rest) <= ConstructCap
  <2>1. ConstructCap \in Nat /\ n * ConstructCap \in Nat
    BY <1>3, ChannelAssumption
  <2> QED BY <1>2, <1>3, <1>4, <2>1
<1>8. ASSUME n > 0 PROVE Range(rest) \subseteq Range(chs)
  <2>1. SUFFICES ASSUME NEW c \in Range(rest) PROVE c \in Range(chs)
    OBVIOUS
  <2>2. PICK i \in n * ConstructCap + 1..l : c = q[i]
    BY <1>4
  <2>3. Len(old) <= ConstructCap /\ ConstructCap \in Nat
    BY ChannelAssumption DEF old
  <2>4. i \in 1..l /\ i > Len(old)
    <3>1. n * ConstructCap \in Nat /\ n * ConstructCap >= ConstructCap
      BY <1>3, <1>8, ChannelAssumption
    <3> QED BY <1>1, <1>2, <2>2, <2>3, <3>1
  <2> QED BY <1>2, <2>2, <2>4
<1>9. n = 0 => FullPackets(e, chs) = {}
  BY DEF FullPackets, n
<1>10. ASSUME NEW p \in FullPackets(e, chs)
       PROVE  /\ p \in Packet /\ p.ack = m_Ack[e] /\ p.ackId = received[e]
              /\ Range(p.chunks) \subseteq all
  <2>1. PICK i \in 1..n :
          p = PacketOf(e, [resend |-> i = 1 /\ m_Construct[e].resend,
                           chunks |-> SubSeq(q, (i - 1) * ConstructCap + 1, i * ConstructCap)])
    BY DEF FullPackets, n, q
  <2> DEFINE part == SubSeq(q, (i - 1) * ConstructCap + 1, i * ConstructCap)
  <2>2. part \in Seq(Chunk) /\ Range(part) \subseteq Range(q)
    <3>1. /\ (i - 1) * ConstructCap + 1 \in Nat \ {0} /\ i * ConstructCap \in Nat
          /\ i * ConstructCap <= Len(q)
      BY <1>3 DEF l
    <3> QED BY <1>2, <3>1, RangeSubSeq
  <2> HIDE DEF part
  <2>3. p = [ack |-> m_Ack[e], ackId |-> received[e],
             resend |-> (i = 1 /\ m_Construct[e].resend), chunks |-> part]
    BY <2>1 DEF PacketOf, part
  <2>4. m_Ack[e] \in SeqNumbers /\ received[e] \in Nat
    BY DEF CounterType
  <2>5. (i = 1 /\ m_Construct[e].resend) \in BOOLEAN
    BY <1>1
  <2>6. p \in Packet
    BY <2>2, <2>3, <2>4, <2>5 DEF Packet
  <2> QED BY <1>2, <2>2, <2>3, <2>6
<1>11. n = 0 \/ n > 0
  BY <1>3
<1> QED BY <1>2, <1>4, <1>6, <1>7, <1>8, <1>9, <1>10, <1>11 DEF old, all

\* What Transmit does to the network.
LEMMA TransmitNet ==
  ASSUME ChunkType, NEW e \in Peers, NEW ps \in SUBSET Packet, Transmit(e, ps)
  PROVE  /\ net' \in [Peers -> SUBSET Packet]
         /\ net'[e] \subseteq net[e] \cup ps
         /\ net'[Other(e)] = net[Other(e)]
<1>1. CASE ps = {}
  BY <1>1 DEF Transmit, ChunkType
<1>2. CASE ps # {}
  <2>1. PICK keep \in SUBSET net[e] : net' = [net EXCEPT ![e] = keep \cup ps]
    BY <1>2 DEF Transmit
  <2>2. Other(e) # e /\ Other(e) \in Peers
    BY PeersAre
  <2> QED BY <2>1, <2>2 DEF ChunkType
<1> QED BY <1>1, <1>2

\* A packet made of a construct.
LEMMA PacketIs ==
  ASSUME CounterType, NEW e \in Peers, NEW c \in Construct
  PROVE  /\ PacketOf(e, c) \in Packet
         /\ PacketOf(e, c).ack = m_Ack[e] /\ PacketOf(e, c).ackId = received[e]
         /\ PacketOf(e, c).chunks = c.chunks
BY DEF CounterType, PacketOf, Packet, Construct

\* The empty construct.
LEMMA EmptyIs ==
  EmptyConstruct \in Construct /\ EmptyConstruct.chunks = <<>>
  /\ Range(<<>>) = {} /\ Len(<<>>) = 0
BY DEF EmptyConstruct, Construct, Range

\* AckChunks drops the chunks that are acknowledged, and no others.
LEMMA AckChunksDrops ==
  ASSUME NEW b \in Seq(Chunk), NEW a \in Nat,
         \A i \in 1..Len(b) : /\ b[i].seq = Mod(b[i].id)
                              /\ b[i].id < a + NET_MAX_SEQUENCE \div 2
                              /\ a <= b[i].id + NET_MAX_SEQUENCE \div 2,
         \A i, j \in 1..Len(b) : i < j => b[i].id < b[j].id
  PROVE  \E k \in 0..Len(b) :
           /\ AckChunks(b, Mod(a)) = SubSeq(b, k + 1, Len(b))
           /\ \A i \in 1..Len(b) : b[i].id <= a <=> i <= k
<1> DEFINE S == {i \in 0..Len(b) : \A l \in 1..i : IsSeqInBackroom(b[l].seq, Mod(a))}
           k == Max(S)
<1>1. Len(b) \in Nat /\ \A i \in 1..Len(b) : b[i].id \in Nat
  <2>1. Len(b) \in Nat /\ \A i \in 1..Len(b) : b[i] \in Chunk
    BY LenProperties
  <2>2. \A c \in Chunk : c.id \in Nat
    BY DEF Chunk
  <2> QED BY <2>1, <2>2
<1>2. k \in S /\ \A i \in S : k >= i
  <2>1. S \subseteq 0..Len(b) /\ 0 \in S
    BY <1>1
  <2> HIDE DEF S
  <2> QED BY <1>1, <2>1, MaxIs
<1>3. \A i \in 1..Len(b) : IsSeqInBackroom(b[i].seq, Mod(a)) <=> b[i].id <= a
  BY <1>1, Backroom
<1>4. AckChunks(b, Mod(a)) = SubSeq(b, k + 1, Len(b))
  BY DEF AckChunks
<1> HIDE DEF k
<1>5. ASSUME NEW i \in 1..Len(b), i <= k PROVE b[i].id <= a
  BY <1>2, <1>3, <1>5
<1>6. ASSUME NEW i \in 1..Len(b), ~(i <= k) PROVE ~(b[i].id <= a)
  <2>1. SUFFICES ASSUME b[i].id <= a PROVE FALSE
    OBVIOUS
  <2>2. k \in 0..Len(b) /\ k + 1 \in 0..Len(b) /\ k + 1 <= i
    BY <1>1, <1>2, <1>6
  <2>3. b[k + 1].id <= a
    <3>1. k + 1 \in 1..Len(b) /\ (k + 1 = i \/ k + 1 < i)
      BY <1>1, <2>2
    <3>2. CASE k + 1 = i
      BY <2>1, <3>2
    <3>3. CASE k + 1 < i
      <4>1. b[k + 1].id < b[i].id
        BY <3>1, <3>3
      <4> QED BY <1>1, <2>1, <3>1, <4>1
    <3> QED BY <3>1, <3>2, <3>3
  <2>4. \A l \in 1..k + 1 : IsSeqInBackroom(b[l].seq, Mod(a))
    <3>1. SUFFICES ASSUME NEW l \in 1..k + 1 PROVE IsSeqInBackroom(b[l].seq, Mod(a))
      OBVIOUS
    <3>2. l \in 1..Len(b) /\ (l \in 1..k \/ l = k + 1)
      BY <1>1, <2>2
    <3>3. CASE l = k + 1
      BY <1>3, <2>3, <3>2, <3>3
    <3> QED BY <1>2, <3>2, <3>3
  <2>5. k + 1 \in S
    BY <2>2, <2>4
  <2>6. ~(k >= k + 1)
    BY <2>2
  <2> QED BY <1>2, <2>5, <2>6
<1>7. k \in 0..Len(b)
  BY <1>2
<1> QED BY <1>4, <1>5, <1>6, <1>7

-----------------------------------------------------------------------------
(* The invariant.                                                          *)

\* An end whose state, and what the other end has of it, is the same.
Untouched(f) ==
  /\ m_Sequence'[f] = m_Sequence[f] /\ m_Ack'[f] = m_Ack[f] /\ m_PeerAck'[f] = m_PeerAck[f]
  /\ m_Buffer'[f] = m_Buffer[f] /\ m_Construct'[f] = m_Construct[f]
  /\ net'[f] = net[f] /\ sent'[f] = sent[f] /\ unsaved'[f] = unsaved[f]

\* What it means that a chunk is under way, before and after a step.
LEMMA UnderWayIs ==
  ASSUME NEW e
  PROVE  /\ \A c : c \in UnderWay(e) <=> \/ c \in Range(unpacker[Other(e)])
                                         \/ \E p \in net[e] : c \in Range(p.chunks)
         /\ \A c : c \in UnderWay(e)' <=> \/ c \in Range(unpacker'[Other(e)])
                                          \/ \E p \in net'[e] : c \in Range(p.chunks)
<1> DEFINE A == {Range(p.chunks) : p \in net[e]}
           B == {Range(p.chunks) : p \in net'[e]}
<1>1. \A c : c \in UNION A <=> \E p \in net[e] : c \in Range(p.chunks)
  BY Zenon
<1>2. \A c : c \in UNION B <=> \E p \in net'[e] : c \in Range(p.chunks)
  BY Zenon
<1>3. UnderWay(e) = Range(unpacker[Other(e)]) \cup (UNION A)
  BY DEF UnderWay
<1>4. UnderWay(e)' = Range(unpacker'[Other(e)]) \cup (UNION B)
  BY DEF UnderWay
<1> HIDE DEF A, B
<1> QED BY <1>1, <1>2, <1>3, <1>4

\* What is known of the chunks of an end, as numbers.
LEMMA ChunkNumbers ==
  ASSUME TypeOK, NEW e \in Peers
  PROVE  /\ sent[e] \in Nat /\ received[e] \in Nat /\ received[Other(e)] \in Nat
         /\ m_PeerAck[e] \in SeqNumbers
         /\ \A c \in Range(m_Construct[e].chunks) : c \in Chunk /\ c.id \in Nat
         /\ \A c \in Range(unpacker[e]) : c \in Chunk /\ c.id \in Nat
         /\ \A p \in net[e] : \A c \in Range(p.chunks) : c \in Chunk /\ c.id \in Nat
         /\ \A c \in UnderWay(e) : c.id \in Nat
         /\ \A i \in 1..Len(m_Buffer[e]) : m_Buffer[e][i] \in Chunk /\ m_Buffer[e][i].id \in Nat
<1>1. \A s \in Seq(Chunk) : \A c \in Range(s) : c \in Chunk
  BY LenProperties DEF Range
<1>2. \A c \in Chunk : c.id \in Nat
  BY DEF Chunk
<1>3. /\ m_Construct[e].chunks \in Seq(Chunk) /\ unpacker[e] \in Seq(Chunk)
      /\ unpacker[Other(e)] \in Seq(Chunk) /\ m_Buffer[e] \in Seq(Chunk)
      /\ \A p \in net[e] : p.chunks \in Seq(Chunk)
  BY PeersAre DEF TypeOK, ChunkType, Construct, Packet
<1>4. \A i \in 1..Len(m_Buffer[e]) : m_Buffer[e][i] \in Chunk
  BY <1>3, LenProperties
<1>5. \A c \in UnderWay(e) : c \in Chunk
  <2>1. SUFFICES ASSUME NEW c \in UnderWay(e) PROVE c \in Chunk
    OBVIOUS
  <2>2. CASE c \in Range(unpacker[Other(e)])
    BY <1>1, <1>3, <2>2
  <2>3. CASE \E p \in net[e] : c \in Range(p.chunks)
    BY <1>1, <1>3, <2>3
  <2> QED BY <2>2, <2>3, UnderWayIs
<1>6. /\ sent[e] \in Nat /\ received[e] \in Nat /\ received[Other(e)] \in Nat
      /\ m_PeerAck[e] \in SeqNumbers
  BY PeersAre DEF TypeOK, CounterType
<1> QED BY <1>1, <1>2, <1>3, <1>4, <1>5, <1>6

\* Unacked is a distance.
LEMMA UnackedIs ==
  ASSUME TypeOK, NEW e \in Peers, Counters(e)
  PROVE  /\ Unacked(e) = Distance(sent[e], m_PeerAck[e]) /\ Unacked(e) \in Nat
         /\ sent[e] <= received[Other(e)] + MaxUnacked
<1>1. sent[e] \in Nat /\ m_PeerAck[e] \in SeqNumbers /\ received[Other(e)] \in Nat
  BY ChunkNumbers
<1>2. Unacked(e) = Distance(sent[e], m_PeerAck[e])
  BY DEF Counters, Unacked, Distance, Mod
<1>3. Unacked(e) \in Nat
  BY <1>1, <1>2, DistanceIs, Half
<1>4. sent[e] <= received[Other(e)] + Unacked(e) /\ Unacked(e) <= MaxUnacked
  BY DEF Counters
<1> QED BY <1>1, <1>2, <1>3, <1>4, Half

\* End e has queued the chunks cs, and packets of what was in the construct and of cs
\* went out: when there were such packets, none of the old construct is left.
Emitted(e, cs) ==
  /\ net' \in [Peers -> SUBSET Packet] /\ m_Construct' \in [Peers -> Construct]
  /\ net'[Other(e)] = net[Other(e)] /\ m_Construct'[Other(e)] = m_Construct[Other(e)]
  /\ Len(m_Construct'[e].chunks) <= ConstructCap
  /\ Range(m_Construct'[e].chunks) \subseteq Range(m_Construct[e].chunks) \cup cs
  /\ \E ps \in SUBSET Packet :
       /\ net'[e] \subseteq net[e] \cup ps
       /\ \A p \in ps : /\ p.ack = m_Ack[e] /\ p.ackId = received[e]
                        /\ Range(p.chunks) \subseteq Range(m_Construct[e].chunks) \cup cs
       /\ Range(m_Construct'[e].chunks) \subseteq cs \/ ps = {}

\* The packets ps went out, and c is the construct now.
LEMMA Emits ==
  ASSUME TypeOK, NEW e \in Peers, NEW cs, NEW ps \in SUBSET Packet,
         \A p \in ps : /\ p.ack = m_Ack[e] /\ p.ackId = received[e]
                       /\ Range(p.chunks) \subseteq Range(m_Construct[e].chunks) \cup cs,
         NEW c \in Construct, Len(c.chunks) <= ConstructCap,
         Range(c.chunks) \subseteq Range(m_Construct[e].chunks) \cup cs,
         Range(c.chunks) \subseteq cs \/ ps = {},
         m_Construct' = [m_Construct EXCEPT ![e] = c], Transmit(e, ps)
  PROVE  Emitted(e, cs)
<1>1. /\ net' \in [Peers -> SUBSET Packet] /\ net'[e] \subseteq net[e] \cup ps
      /\ net'[Other(e)] = net[Other(e)]
  BY TransmitNet DEF TypeOK
<1>2. /\ m_Construct' \in [Peers -> Construct] /\ m_Construct'[e] = c
      /\ m_Construct'[Other(e)] = m_Construct[Other(e)]
  BY PeersAre DEF TypeOK, ChunkType
<1> QED BY <1>1, <1>2 DEF Emitted

\* The packets of QueueChunkEx, and those of more, which leave an empty construct.
LEMMA EmitsQueued ==
  ASSUME TypeOK, NEW e \in Peers, Constructed(e), NEW chs \in Seq(Chunk),
         NEW more \in SUBSET {PacketOf(e, QueueChunkEx(e, chs)), PacketOf(e, EmptyConstruct)},
         NEW c \in {QueueChunkEx(e, chs), EmptyConstruct}, more # {} => c = EmptyConstruct,
         m_Construct' = [m_Construct EXCEPT ![e] = c],
         Transmit(e, FullPackets(e, chs) \cup more)
  PROVE  Emitted(e, Range(chs))
<1> DEFINE all == Range(m_Construct[e].chunks) \cup Range(chs)
           q == QueueChunkEx(e, chs)
           full == FullPackets(e, chs)
<1>1. /\ q \in Construct /\ Len(q.chunks) <= ConstructCap /\ Range(q.chunks) \subseteq all
      /\ full = {} \/ Range(q.chunks) \subseteq Range(chs)
      /\ \A p \in full : /\ p \in Packet /\ p.ack = m_Ack[e] /\ p.ackId = received[e]
                         /\ Range(p.chunks) \subseteq all
  BY QueueChunk DEF TypeOK, Constructed
<1>2. /\ EmptyConstruct \in Construct /\ EmptyConstruct.chunks = <<>>
      /\ Range(EmptyConstruct.chunks) = {} /\ Len(EmptyConstruct.chunks) <= ConstructCap
  BY EmptyIs, ChannelAssumption
<1> HIDE DEF q, full, all
<1>3. \A d \in {q, EmptyConstruct} :
        /\ PacketOf(e, d) \in Packet /\ PacketOf(e, d).ack = m_Ack[e]
        /\ PacketOf(e, d).ackId = received[e] /\ Range(PacketOf(e, d).chunks) \subseteq all
  BY <1>1, <1>2, PacketIs DEF TypeOK
<1>4. \A p \in full \cup more : /\ p \in Packet /\ p.ack = m_Ack[e] /\ p.ackId = received[e]
                                /\ Range(p.chunks) \subseteq all
  BY <1>1, <1>3 DEF q
<1>5. /\ c \in Construct /\ Len(c.chunks) <= ConstructCap /\ Range(c.chunks) \subseteq all
      /\ Range(c.chunks) \subseteq Range(chs) \/ full \cup more = {}
  BY <1>1, <1>2 DEF q
<1> QED BY <1>4, <1>5, Emits DEF all, full

\* Sending: the chunks cs are queued, and full packets or the construct go out.
LEMMA Sending ==
  ASSUME TypeOK, TypeOK', NEW e \in Peers, EndInv(e), EndInv(Other(e)), Counters(e)',
         received' = received, unpacker'[Other(e)] = unpacker[Other(e)], sent[e] <= sent'[e],
         NEW cs, \A c \in cs : /\ c.id \in Nat /\ c.seq = c.id % NET_MAX_SEQUENCE
                               /\ c.id <= sent'[e] /\ sent'[e] < c.id + MaxUnacked,
         Emitted(e, cs)
  PROVE  Constructed(e)' /\ InNet(e)'
<1> DEFINE old == Range(m_Construct[e].chunks)
           r == received[Other(e)]
           U == MaxUnacked
<1>0. /\ Len(m_Construct'[e].chunks) <= ConstructCap
      /\ Range(m_Construct'[e].chunks) \subseteq old \cup cs
  BY DEF Emitted
<1>11. PICK ps \in SUBSET Packet :
        /\ net'[e] \subseteq net[e] \cup ps
        /\ \A p \in ps : /\ p.ack = m_Ack[e] /\ p.ackId = received[e]
                         /\ Range(p.chunks) \subseteq old \cup cs
        /\ Range(m_Construct'[e].chunks) \subseteq cs \/ ps = {}
  BY DEF Emitted
<1>1. /\ sent[e] \in Nat /\ sent'[e] \in Nat /\ r \in Nat /\ U \in Nat
      /\ \A c \in old : c.id \in Nat
      /\ \A c \in UnderWay(e) : c.id \in Nat
  BY ChunkNumbers, Half DEF TypeOK, CounterType
<1>2. sent'[e] <= r + U /\ r <= sent'[e]
  <2>1. /\ sent'[e] \in Nat /\ Unacked(e)' \in Nat /\ Unacked(e)' <= U
        /\ sent'[e] <= r + Unacked(e)' /\ r <= sent'[e]
    <3>1. Unacked(e)' \in Nat
      <4>1. /\ m_Sequence'[e] \in 0..NET_MAX_SEQUENCE - 1
            /\ m_PeerAck'[e] \in 0..NET_MAX_SEQUENCE - 1
        BY DEF TypeOK, CounterType, SeqNumbers
      <4> QED BY <4>1, ModDistance, Half DEF Unacked
    <3> QED BY <1>1, <3>1 DEF Counters
  <2> QED BY <1>1, <2>1
<1>3. /\ \A c \in old : /\ c.id <= sent[e] /\ c.seq = c.id % NET_MAX_SEQUENCE
                        /\ r < c.id + U
                        /\ \A d \in UnderWay(e) : d.id < c.id + U
      /\ \A c, d \in old : d.id < c.id + 2 * U
  BY DEF EndInv, Constructed, ChunksOf
<1>4. \A d \in UnderWay(e) : d.id <= sent[e]
  <2>1. \A p \in net[e] : \A d \in Range(p.chunks) : d.id <= sent[e]
    BY DEF EndInv, InNet, ChunksOf
  <2>2. \A d \in Range(unpacker[Other(e)]) : d.id <= sent[e]
    <3>1. Unpacking(Other(e)) /\ Other(Other(e)) = e
      BY PeersAre DEF EndInv
    <3> QED BY <3>1 DEF Unpacking, ChunksOf
  <2> QED BY <2>1, <2>2, UnderWayIs
<1> HIDE DEF old, r, U
<1>5. /\ \A c \in old \cup cs : /\ c.id \in Nat /\ c.seq = c.id % NET_MAX_SEQUENCE
                                /\ c.id <= sent'[e] /\ r < c.id + U
      /\ \A c, d \in old \cup cs : d.id < c.id + 2 * U
  <2>1. \A c \in cs : c.id \in Nat /\ c.id <= sent'[e] /\ sent'[e] < c.id + U
    BY DEF U
  <2>2. \A c \in old \cup cs : c.id \in Nat /\ c.id <= sent'[e] /\ r < c.id + U
    BY <1>1, <1>2, <1>3, <2>1
  <2>3. \A c, d \in old \cup cs : d.id < c.id + 2 * U
    BY <1>1, <1>2, <2>2
  <2> QED BY <1>3, <2>2, <2>3
<1>6. \A p \in ps : Range(p.chunks) \subseteq old \cup cs
  BY <1>11
<1>7. \A d \in UnderWay(e)' : d \in UnderWay(e) \/ (ps # {} /\ d \in old \cup cs)
  BY <1>11, <1>6, UnderWayIs
<1>8. ASSUME NEW c \in Range(m_Construct'[e].chunks), NEW d \in UnderWay(e)'
      PROVE  d.id < c.id + U
  <2>1. c \in old \cup cs
    BY <1>0
  <2>2. CASE c \in cs
    <3>1. d.id \in Nat /\ d.id <= sent'[e]
      <4>1. CASE d \in UnderWay(e)
        BY <1>1, <1>4, <4>1
      <4>2. CASE d \in old \cup cs
        BY <1>5, <4>2
      <4> QED BY <1>7, <4>1, <4>2
    <3>2. c.id \in Nat /\ sent'[e] < c.id + U
      BY <2>2 DEF U
    <3> QED BY <1>1, <3>1, <3>2
  <2>3. CASE c \in old /\ c \notin cs
    <3>1. ps = {}
      BY <1>11, <2>3
    <3>2. d \in UnderWay(e)
      BY <1>7, <3>1
    <3> QED BY <1>3, <2>3, <3>2
  <2> QED BY <2>1, <2>2, <2>3
<1>9. Constructed(e)'
  <2>1. \A c \in Range(m_Construct'[e].chunks) : c \in old \cup cs
    BY <1>0
  <2>2. ChunksOf(e, m_Construct[e].chunks)'
    BY <1>5, <2>1 DEF ChunksOf, U
  <2>3. \A c \in Range(m_Construct'[e].chunks) : received'[Other(e)] < c.id + MaxUnacked
    BY <1>5, <2>1 DEF r, U
  <2> QED BY <1>0, <1>8, <2>2, <2>3 DEF Constructed, U
<1>10. InNet(e)'
  <2>1. SUFFICES ASSUME NEW p \in net'[e]
                 PROVE  /\ ChunksOf(e, p.chunks)'
                        /\ p.ack = p.ackId % NET_MAX_SEQUENCE /\ p.ackId <= received'[e]
    BY DEF InNet
  <2>2. CASE p \in net[e]
    <3>1. /\ ChunksOf(e, p.chunks) /\ p.ack = p.ackId % NET_MAX_SEQUENCE
          /\ p.ackId <= received[e]
      BY <2>2 DEF EndInv, InNet
    <3>2. \A c \in Range(p.chunks) : c.id \in Nat
      BY <2>2, ChunkNumbers
    <3> QED BY <1>1, <3>1, <3>2 DEF ChunksOf
  <2>3. CASE p \in ps
    <3>1. \A c \in Range(p.chunks) : c \in old \cup cs
      BY <1>6, <2>3
    <3>2. p.ack = m_Ack[e] /\ p.ackId = received[e] /\ received[e] \in Nat
      BY <1>11, <2>3 DEF TypeOK, CounterType
    <3>3. m_Ack[e] = received[e] % NET_MAX_SEQUENCE
      BY DEF EndInv, Counters
    <3>4. ChunksOf(e, p.chunks)'
      BY <1>5, <3>1 DEF ChunksOf, U
    <3> QED BY <3>2, <3>3, <3>4
  <2> QED BY <1>11, <2>2, <2>3
<1> QED BY <1>9, <1>10

\* An end that does nothing, of which nothing more is under way.
LEMMA OtherStays ==
  ASSUME TypeOK, TypeOK', NEW e \in Peers, EndInv(Other(e)), Untouched(Other(e)),
         received' = received, sent[e] <= sent'[e],
         unpacker'[Other(e)] = unpacker[Other(e)],
         \A c : c \in UnderWay(Other(e))' => c \in UnderWay(Other(e))
  PROVE  EndInv(Other(e))'
<1> DEFINE o == Other(e)
<1>1. o \in Peers /\ Other(o) = e
  BY PeersAre
<1> HIDE DEF o
<1>2. /\ m_Sequence'[o] = m_Sequence[o] /\ m_Ack'[o] = m_Ack[o] /\ m_PeerAck'[o] = m_PeerAck[o]
      /\ m_Buffer'[o] = m_Buffer[o] /\ m_Construct'[o] = m_Construct[o]
      /\ net'[o] = net[o] /\ sent'[o] = sent[o] /\ unsaved'[o] = unsaved[o]
      /\ unpacker'[o] = unpacker[o]
      /\ \A c : c \in UnderWay(o)' => c \in UnderWay(o)
  BY DEF Untouched, o
<1>3. EndInv(o)
  BY DEF o
<1>4. Unacked(o)' = Unacked(o)
  BY <1>2 DEF Unacked
<1>5. Counters(o)'
  BY <1>2, <1>3, <1>4 DEF EndInv, Counters
<1>6. Kept(o)'
  BY <1>2, <1>3, <1>4 DEF EndInv, Kept
<1>7. Constructed(o)' /\ InNet(o)'
  BY <1>2, <1>3 DEF EndInv, Constructed, InNet, ChunksOf
<1>8. Unpacking(o)'
  <2>1. \A c \in Range(unpacker[o]) : c.id \in Nat
    BY <1>1, ChunkNumbers
  <2>2. sent[e] \in Nat /\ sent'[e] \in Nat
    BY DEF TypeOK, CounterType
  <2>3. Unpacking(o)
    BY <1>3 DEF EndInv
  <2>4. \A c \in Range(unpacker[o]) : c.id <= sent'[e]
    BY <1>1, <2>1, <2>2, <2>3 DEF Unpacking, ChunksOf
  <2> QED BY <1>1, <1>2, <2>3, <2>4 DEF Unpacking, ChunksOf
<1> QED BY <1>5, <1>6, <1>7, <1>8 DEF EndInv, o

\* The two ends are both ends.
LEMMA BothEnds ==
  ASSUME NEW e \in Peers, EndInv(e)', EndInv(Other(e))'
  PROVE  \A f \in Peers : EndInv(f)'
BY PeersAre

\* The chunk that Send queues.
SentChunk(e) == [seq |-> NextSequence(m_Sequence[e]), id |-> sent[e] + 1]

\* It has the number after the last one.
LEMMA SentChunkIs ==
  ASSUME TypeOK, NEW e \in Peers, EndInv(e)
  PROVE  /\ SentChunk(e) \in Chunk /\ SentChunk(e).id = sent[e] + 1
         /\ SentChunk(e).seq = Mod(sent[e] + 1) /\ Mod(sent[e] + 1) \in SeqNumbers
         /\ <<SentChunk(e)>> \in Seq(Chunk) /\ Range(<<SentChunk(e)>>) = {SentChunk(e)}
<1>1. m_Sequence[e] = Mod(sent[e]) /\ sent[e] \in Nat
  BY DEF EndInv, Counters, Mod, TypeOK, CounterType
<1>2. NextSequence(m_Sequence[e]) = Mod(sent[e] + 1) /\ Mod(sent[e] + 1) \in SeqNumbers
  BY <1>1, NextCounts, ModType
<1>3. /\ SentChunk(e) \in Chunk /\ SentChunk(e).id = sent[e] + 1
      /\ SentChunk(e).seq = Mod(sent[e] + 1)
  BY <1>1, <1>2 DEF SentChunk, Chunk
<1>4. \A c : Range(<<c>>) = {c}
  BY DEF Range
<1> QED BY <1>2, <1>3, <1>4

\* Send emits it.
LEMMA SendEmits ==
  ASSUME TypeOK, NEW e \in Peers, EndInv(e), NEW flush \in BOOLEAN, Send(e, flush)
  PROVE  Emitted(e, {SentChunk(e)})
<1> DEFINE chs == <<SentChunk(e)>>
           q == QueueChunkEx(e, chs)
           out == flush /\ (Len(m_Buffer[e]) < BufferCap \/ e = "client")
           more == IF out THEN FlushPackets(e, q) ELSE {}
           c == IF out THEN EmptyConstruct ELSE q
<1>1. m_Construct' = [m_Construct EXCEPT ![e] = c] /\ Transmit(e, FullPackets(e, chs) \cup more)
  BY DEF Send, SentChunk
<1>2. more \in SUBSET {PacketOf(e, q), PacketOf(e, EmptyConstruct)}
  BY DEF FlushPackets
<1>3. c \in {q, EmptyConstruct} /\ (more # {} => c = EmptyConstruct)
  OBVIOUS
<1>4. chs \in Seq(Chunk) /\ Range(chs) = {SentChunk(e)} /\ Constructed(e)
  BY SentChunkIs DEF EndInv
<1> HIDE DEF chs, more, c, out
<1>5. Emitted(e, Range(chs))
  BY <1>1, <1>2, <1>3, <1>4, EmitsQueued
<1> QED BY <1>4, <1>5

\* Send queues the next chunk, and keeps it if the resend buffer has room.
LEMMA SendStep ==
  ASSUME IInv, NEW e \in Peers, NEW flush \in BOOLEAN, Send(e, flush)
  PROVE  IInv'
<1> DEFINE o == Other(e)
           c == SentChunk(e)
           saved == Len(m_Buffer[e]) < BufferCap
<1>0. /\ TypeOK /\ EndInv(e) /\ EndInv(o) /\ o \in Peers /\ o # e /\ Other(o) = e
      /\ sent[e] \in Nat /\ received[o] \in Nat /\ m_Buffer[e] \in Seq(Chunk)
  BY PeersAre DEF IInv, TypeOK, CounterType, ChunkType
<1>1. /\ c \in Chunk /\ c.id = sent[e] + 1 /\ c.seq = Mod(sent[e] + 1)
      /\ Mod(sent[e] + 1) \in SeqNumbers
  BY <1>0, SentChunkIs
<1>2. Emitted(e, {c})
  BY <1>0, SendEmits
<1>3. /\ m_Sequence' = [m_Sequence EXCEPT ![e] = c.seq]
      /\ m_Buffer' = IF saved THEN [m_Buffer EXCEPT ![e] = Append(@, c)] ELSE m_Buffer
      /\ unsaved' = IF saved THEN unsaved ELSE [unsaved EXCEPT ![e] = @ \cup {c.id}]
      /\ sent' = [sent EXCEPT ![e] = @ + 1]
      /\ UNCHANGED <<m_Ack, m_PeerAck, unpacker, received>>
      /\ Unacked(e) < MaxUnacked
  BY DEF Send, SentChunk
<1> HIDE DEF c, saved
<1>4. TypeOK'
  <2>1. CounterType'
    BY <1>0, <1>1, <1>3 DEF TypeOK, CounterType
  <2>2. m_Buffer' \in [Peers -> Seq(Chunk)]
    BY <1>0, <1>1, <1>3 DEF TypeOK, ChunkType
  <2>3. DOMAIN unsaved' = Peers
    BY <1>0, <1>3 DEF TypeOK, ChunkType
  <2> QED BY <1>0, <1>2, <1>3, <2>1, <2>2, <2>3 DEF TypeOK, ChunkType, Emitted
<1>5. /\ sent'[e] = sent[e] + 1 /\ sent'[e] \in Nat /\ sent'[o] = sent[o]
      /\ m_Sequence'[e] = Mod(sent[e] + 1) /\ m_Sequence'[o] = m_Sequence[o]
      /\ m_Buffer'[e] = (IF saved THEN Append(m_Buffer[e], c) ELSE m_Buffer[e])
      /\ m_Buffer'[o] = m_Buffer[o]
      /\ unsaved'[e] = (IF saved THEN unsaved[e] ELSE unsaved[e] \cup {sent[e] + 1})
      /\ unsaved'[o] = unsaved[o]
  BY <1>0, <1>1, <1>3 DEF TypeOK, CounterType, ChunkType
<1>6. Unacked(e)' = Unacked(e) + 1 /\ Unacked(e) \in Nat
  <2>1. Unacked(e) = Distance(sent[e], m_PeerAck[e]) /\ Unacked(e) \in Nat
    BY <1>0, UnackedIs DEF EndInv
  <2>2. m_PeerAck[e] \in SeqNumbers /\ Unacked(e) < NET_MAX_SEQUENCE - 1
    BY <1>0, <1>3, <2>1, Half DEF TypeOK, CounterType
  <2>3. Distance(sent[e] + 1, m_PeerAck[e]) = Unacked(e) + 1
    BY <1>0, <2>1, <2>2, DistanceGrows
  <2> QED BY <1>3, <1>5, <2>1, <2>3 DEF Unacked, Distance
<1>7. Counters(e)'
  <2>1. /\ received[o] <= sent[e] /\ sent[e] <= received[o] + Unacked(e)
        /\ m_Ack[e] = received[e] % NET_MAX_SEQUENCE
    BY <1>0 DEF EndInv, Counters
  <2>2. /\ received[o] <= sent[e] + 1 /\ sent[e] + 1 <= received[o] + (Unacked(e) + 1)
        /\ Unacked(e) + 1 <= MaxUnacked
    <3>1. Unacked(e) < MaxUnacked /\ Unacked(e) \in Nat /\ MaxUnacked \in Nat
      BY <1>3, <1>6, Half
    <3>2. sent[e] \in Nat /\ received[o] \in Nat
      BY <1>0
    <3> HIDE DEF o
    <3> QED BY <2>1, <3>1, <3>2
  <2>3. m_Ack'[e] = m_Ack[e] /\ received' = received
    BY <1>3
  <2> QED BY <1>5, <1>6, <2>1, <2>2, <2>3 DEF Counters, Mod
<1>8. Kept(e)'
  <2>1. Kept(e) /\ \A i \in 1..Len(m_Buffer[e]) : m_Buffer[e][i].id \in Nat
    BY <1>0, ChunkNumbers DEF EndInv
  <2> DEFINE b == m_Buffer[e]
             l == Len(b)
  <2>2. l \in Nat
    BY <1>0, LenProperties
  <2>3. \A i \in 1..l : /\ b[i].seq = b[i].id % NET_MAX_SEQUENCE /\ b[i].id <= sent[e]
                        /\ b[i].id + Unacked(e) > sent[e]
                        /\ b[i].id <= sent[e] + 1
                        /\ b[i].id + (Unacked(e) + 1) > sent[e] + 1
                        /\ b[i].id < sent[e] + 1
    BY <1>0, <1>6, <2>1 DEF Kept
  <2>4. CASE ~saved
    <3>1. ASSUME NEW id \in received[o] + 1..sent[e] + 1
          PROVE  id \in unsaved'[e] \/ \E i \in 1..l : b[i].id = id
      <4>1. id = sent[e] + 1 \/ id \in received[o] + 1..sent[e]
        BY <1>0
      <4> QED BY <1>5, <2>1, <2>4, <4>1 DEF Kept
    <3>2. m_Buffer'[e] = m_Buffer[e] /\ received'[o] = received[o]
      BY <1>3, <1>5, <2>4
    <3>3. Unacked(e)' = Unacked(e) + 1 /\ sent'[e] = sent[e] + 1
      BY <1>5, <1>6
    <3> QED BY <2>1, <2>3, <3>1, <3>2, <3>3 DEF Kept
  <2>5. CASE saved
    <3> DEFINE d == Append(b, c)
    <3>1. /\ m_Buffer'[e] = d /\ Len(d) = l + 1 /\ d[l + 1] = c
          /\ \A i \in 1..l : d[i] = b[i]
      BY <1>0, <1>1, <1>5, <2>5, AppendProperties
    <3> HIDE DEF d, b, l
    <3>2. \A i \in 1..l + 1 : i \in 1..l \/ i = l + 1
      BY <2>2
    <3>3. c.id + (Unacked(e) + 1) > sent[e] + 1 /\ c.id <= sent[e] + 1
      BY <1>0, <1>1, <1>6
    <3>4. \A i \in 1..l + 1 : /\ d[i].seq = d[i].id % NET_MAX_SEQUENCE
                              /\ d[i].id <= sent[e] + 1
                              /\ d[i].id + (Unacked(e) + 1) > sent[e] + 1
      BY <1>1, <2>3, <3>1, <3>2, <3>3 DEF Mod
    <3>5. ASSUME NEW i \in 1..l + 1, NEW j \in 1..l + 1, i < j PROVE d[i].id < d[j].id
      <4>1. i \in 1..l
        BY <2>2, <3>5
      <4>2. CASE j = l + 1
        BY <1>1, <2>3, <3>1, <4>1, <4>2
      <4>3. CASE j \in 1..l
        BY <2>1, <3>1, <3>5, <4>1, <4>3 DEF Kept, b, l
      <4> QED BY <3>2, <4>2, <4>3
    <3>6. ASSUME NEW id \in received[o] + 1..sent[e] + 1
          PROVE  id \in unsaved[e] \/ \E i \in 1..l + 1 : d[i].id = id
      <4>1. id = sent[e] + 1 \/ id \in received[o] + 1..sent[e]
        BY <1>0
      <4>2. CASE id = sent[e] + 1
        <5>1. l + 1 \in 1..l + 1
          BY <2>2
        <5> QED BY <1>1, <3>1, <4>2, <5>1
      <4>3. CASE id \in received[o] + 1..sent[e]
        <5>1. id \in unsaved[e] \/ \E i \in 1..l : b[i].id = id
          BY <2>1, <4>3 DEF Kept, b, l
        <5>2. \A i \in 1..l : i \in 1..l + 1
          BY <2>2
        <5> QED BY <3>1, <5>1, <5>2
      <4> QED BY <4>1, <4>2, <4>3
    <3>7. received'[o] = received[o] /\ unsaved'[e] = unsaved[e]
      BY <1>3, <1>5, <2>5
    <3> QED BY <1>5, <1>6, <3>1, <3>4, <3>5, <3>6, <3>7 DEF Kept
  <2> QED BY <2>4, <2>5
<1>9. Constructed(e)' /\ InNet(e)'
  <2>1. \A d \in {c} : /\ d.id \in Nat /\ d.seq = d.id % NET_MAX_SEQUENCE
                       /\ d.id <= sent'[e] /\ sent'[e] < d.id + MaxUnacked
    <3>1. Unacked(e) < MaxUnacked /\ Unacked(e) \in Nat /\ MaxUnacked \in Nat
      BY <1>3, <1>6, Half
    <3>2. sent[e] + 1 \in Nat /\ sent[e] + 1 < (sent[e] + 1) + MaxUnacked
      BY <1>0, <3>1
    <3>3. c.id = sent[e] + 1 /\ c.seq = (sent[e] + 1) % NET_MAX_SEQUENCE
      BY <1>1 DEF Mod
    <3> QED BY <1>5, <3>2, <3>3
  <2>2. sent[e] <= sent'[e]
    BY <1>0, <1>5
  <2> QED BY <1>0, <1>2, <1>3, <1>4, <1>7, <2>1, <2>2, Sending
<1>10. Unpacking(e)'
  BY <1>0, <1>3, <1>5 DEF EndInv, Unpacking, ChunksOf
<1>11. EndInv(o)'
  <2>1. Untouched(o)
    BY <1>0, <1>2, <1>3, <1>5 DEF Untouched, Emitted
  <2>2. sent[e] <= sent'[e]
    BY <1>0, <1>5
  <2>3. \A d : d \in UnderWay(o)' => d \in UnderWay(o)
    BY <1>3, <2>1, UnderWayIs DEF Untouched
  <2> QED BY <1>0, <1>3, <1>4, <2>1, <2>2, <2>3, OtherStays
<1> QED BY <1>4, <1>7, <1>8, <1>9, <1>10, <1>11, BothEnds DEF IInv, EndInv

\* A chunk that is kept.
LEMMA KeptChunk ==
  ASSUME TypeOK, NEW e \in Peers, EndInv(e), NEW i \in 1..Len(m_Buffer[e])
  PROVE  LET c == m_Buffer[e][i] IN
         /\ c.id \in Nat /\ c.seq = c.id % NET_MAX_SEQUENCE
         /\ c.id <= sent[e] /\ sent[e] < c.id + Unacked(e) /\ sent[e] < c.id + MaxUnacked
<1> DEFINE c == m_Buffer[e][i]
<1>1. /\ c.seq = c.id % NET_MAX_SEQUENCE /\ c.id <= sent[e]
      /\ c.id + Unacked(e) > sent[e]
  BY DEF EndInv, Kept
<1>2. c.id \in Nat /\ sent[e] \in Nat
  BY ChunkNumbers
<1>3. Unacked(e) \in Nat /\ Unacked(e) <= MaxUnacked /\ MaxUnacked \in Nat
  BY UnackedIs, Half DEF EndInv, Counters
<1> HIDE DEF c
<1>4. sent[e] < c.id + Unacked(e) /\ sent[e] < c.id + MaxUnacked
  BY <1>1, <1>2, <1>3
<1> QED BY <1>1, <1>2, <1>4 DEF c

\* An end that queues chunks it still keeps, and changes nothing else.
LEMMA ResendStep ==
  ASSUME IInv, NEW e \in Peers, NEW cs,
         \A c \in cs : \E i \in 1..Len(m_Buffer[e]) : c = m_Buffer[e][i],
         Emitted(e, cs),
         UNCHANGED <<m_Sequence, m_Ack, m_PeerAck, m_Buffer, unpacker, sent, received, unsaved>>
  PROVE  IInv'
<1> DEFINE o == Other(e)
<1>0. /\ TypeOK /\ EndInv(e) /\ EndInv(o) /\ o \in Peers /\ o # e /\ Other(o) = e
      /\ sent[e] \in Nat
  BY PeersAre DEF IInv, TypeOK, CounterType
<1>1. TypeOK'
  BY <1>0 DEF TypeOK, CounterType, ChunkType, Emitted
<1>2. Unacked(e)' = Unacked(e)
  BY DEF Unacked
<1>3. Counters(e)' /\ Kept(e)'
  BY <1>0, <1>2 DEF EndInv, Counters, Kept
<1>4. Unpacking(e)'
  BY <1>0 DEF EndInv, Unpacking, ChunksOf
<1>5. ASSUME NEW c \in cs
      PROVE  /\ c.id \in Nat /\ c.seq = c.id % NET_MAX_SEQUENCE
             /\ c.id <= sent'[e] /\ sent'[e] < c.id + MaxUnacked
  BY <1>0, KeptChunk
<1>6. sent[e] <= sent'[e]
  BY <1>0
<1>7. Constructed(e)' /\ InNet(e)'
  BY <1>0, <1>1, <1>3, <1>5, <1>6, Sending
<1>8. EndInv(o)'
  <2>1. Untouched(o)
    BY DEF Untouched, Emitted
  <2>2. \A d : d \in UnderWay(o)' => d \in UnderWay(o)
    BY <2>1, UnderWayIs DEF Untouched
  <2> QED BY <1>0, <1>1, <1>6, <2>1, <2>2, OtherStays
<1> QED BY <1>1, <1>3, <1>4, <1>7, <1>8, BothEnds DEF IInv, EndInv

\* SendNonVital sends the construct.
LEMMA SendNonVitalStep ==
  ASSUME IInv, NEW e \in Peers, SendNonVital(e)
  PROVE  IInv'
<1> DEFINE p == PacketOf(e, m_Construct[e])
<1>1. TypeOK /\ m_Construct[e] \in Construct
  BY DEF IInv, TypeOK, ChunkType
<1>2. /\ p \in Packet /\ p.ack = m_Ack[e] /\ p.ackId = received[e]
      /\ p.chunks = m_Construct[e].chunks
  BY <1>1, PacketIs DEF TypeOK
<1>3. /\ Transmit(e, {p}) /\ m_Construct' = [m_Construct EXCEPT ![e] = EmptyConstruct]
      /\ UNCHANGED <<m_Sequence, m_Ack, m_PeerAck, m_Buffer, unpacker, sent, received, unsaved>>
  BY DEF SendNonVital
<1> HIDE DEF p
<1>4. Len(EmptyConstruct.chunks) <= ConstructCap /\ Range(EmptyConstruct.chunks) = {}
  BY EmptyIs, ChannelAssumption
<1>5. Emitted(e, {})
  <2>1. \A x \in {p} : /\ x.ack = m_Ack[e] /\ x.ackId = received[e]
                       /\ Range(x.chunks) \subseteq Range(m_Construct[e].chunks) \cup {}
    BY <1>2
  <2>2. /\ Range(EmptyConstruct.chunks) \subseteq Range(m_Construct[e].chunks) \cup {}
        /\ Range(EmptyConstruct.chunks) \subseteq {}
        /\ {p} \in SUBSET Packet /\ EmptyConstruct \in Construct
    BY <1>2, <1>4, EmptyIs
  <2> QED BY <1>1, <1>3, <1>4, <2>1, <2>2, Emits
<1> QED BY <1>3, <1>5, ResendStep

\* Update queues the oldest chunk that is kept, or none.
LEMMA UpdateStep ==
  ASSUME IInv, NEW e \in Peers, NEW resend \in BOOLEAN, NEW late \in BOOLEAN,
         NEW quiet \in BOOLEAN, Update(e, resend, late, quiet)
  PROVE  IInv'
<1> DEFINE chs == IF resend THEN <<Head(m_Buffer[e])>> ELSE <<>>
           q == QueueChunkEx(e, chs)
           more == (IF late THEN FlushPackets(e, q) ELSE {}) \cup
                   (IF quiet THEN {PacketOf(e, EmptyConstruct)} ELSE {})
           c == IF late THEN EmptyConstruct ELSE q
<1>1. /\ m_Construct' = [m_Construct EXCEPT ![e] = c]
      /\ Transmit(e, FullPackets(e, chs) \cup more)
      /\ resend => m_Buffer[e] # <<>>
      /\ quiet => late
      /\ UNCHANGED <<m_Sequence, m_Ack, m_PeerAck, m_Buffer, unpacker, sent, received, unsaved>>
  <2>1. FullPackets(e, chs) \cup more
          = FullPackets(e, chs) \cup (IF late THEN FlushPackets(e, q) ELSE {}) \cup
            (IF quiet THEN {PacketOf(e, EmptyConstruct)} ELSE {})
    OBVIOUS
  <2>2. Transmit(e, FullPackets(e, chs) \cup (IF late THEN FlushPackets(e, q) ELSE {}) \cup
                    (IF quiet THEN {PacketOf(e, EmptyConstruct)} ELSE {}))
    BY DEF Update
  <2>3. Transmit(e, FullPackets(e, chs) \cup more)
    <3> HIDE DEF more
    <3> QED BY <2>1, <2>2
  <2> QED BY <2>3 DEF Update
<1>2. more \in SUBSET {PacketOf(e, q), PacketOf(e, EmptyConstruct)}
  BY DEF FlushPackets
<1>3. c \in {q, EmptyConstruct} /\ (more # {} => c = EmptyConstruct)
  BY <1>1
<1>4. TypeOK /\ Constructed(e) /\ m_Buffer[e] \in Seq(Chunk)
  BY DEF IInv, EndInv, TypeOK, ChunkType
<1>5. /\ chs \in Seq(Chunk)
      /\ \A d \in Range(chs) : \E i \in 1..Len(m_Buffer[e]) : d = m_Buffer[e][i]
  <2>1. CASE resend
    <3>1. /\ Len(m_Buffer[e]) \in Nat /\ Len(m_Buffer[e]) > 0
          /\ Head(m_Buffer[e]) = m_Buffer[e][1] /\ m_Buffer[e][1] \in Chunk
      BY <1>1, <1>4, <2>1, LenProperties, HeadTailProperties
    <3>2. 1 \in 1..Len(m_Buffer[e])
      BY <3>1
    <3>3. chs = <<m_Buffer[e][1]>> /\ Range(<<m_Buffer[e][1]>>) = {m_Buffer[e][1]}
      BY <2>1, <3>1 DEF Range
    <3> HIDE DEF chs
    <3> QED BY <3>1, <3>2, <3>3
  <2>2. CASE ~resend
    BY <2>2, EmptyIs
  <2> QED BY <2>1, <2>2
<1> HIDE DEF chs, more, c
<1>6. Emitted(e, Range(chs))
  BY <1>1, <1>2, <1>3, <1>4, <1>5, EmitsQueued
<1> QED BY <1>1, <1>5, <1>6, ResendStep

\* An ack that is taken is not older than the one before, and counts chunks that were
\* received.
LEMMA AckIs ==
  ASSUME TypeOK, NEW e \in Peers, EndInv(e), EndInv(Other(e)), NEW p \in net[Other(e)],
         Fresh(e, p), AckInWindow(m_Sequence[e], m_PeerAck[e], p.ack)
  PROVE  /\ p.ackId \in Nat /\ p.ack = Mod(p.ackId) /\ p.ackId <= received[Other(e)]
         /\ p.ackId <= sent[e] /\ sent[e] - p.ackId <= Unacked(e)
         /\ Distance(sent[e], p.ack) = sent[e] - p.ackId
<1>1. /\ Other(e) \in Peers /\ sent[e] \in Nat /\ received[Other(e)] \in Nat
      /\ m_PeerAck[e] \in SeqNumbers
  BY PeersAre, ChunkNumbers
<1>2. p \in Packet
  BY <1>1 DEF TypeOK, ChunkType
<1>3. p.ackId \in Nat
  BY <1>2 DEF Packet
<1>4. p.ack = Mod(p.ackId) /\ p.ackId <= received[Other(e)]
  BY <1>1 DEF EndInv, InNet, Mod
<1>5. m_Sequence[e] = Mod(sent[e]) /\ received[Other(e)] <= sent[e]
  BY DEF EndInv, Counters, Mod
<1>6. p.ackId > sent[e] - NET_MAX_SEQUENCE
  BY DEF Fresh
<1>7. p.ackId <= sent[e] /\ sent[e] < p.ackId + NET_MAX_SEQUENCE
  BY <1>1, <1>3, <1>4, <1>5, <1>6, Half
<1>8. AckInWindow(Mod(sent[e]), m_PeerAck[e], Mod(p.ackId))
  BY <1>4, <1>5
<1>9. sent[e] - p.ackId <= Distance(sent[e], m_PeerAck[e])
  BY <1>1, <1>3, <1>7, <1>8, WindowIs
<1>10. Distance(sent[e], p.ack) = sent[e] - p.ackId
  BY <1>1, <1>3, <1>4, <1>7, DistanceOfAck
<1>11. Unacked(e) = Distance(sent[e], m_PeerAck[e])
  BY UnackedIs DEF EndInv
<1> QED BY <1>3, <1>4, <1>7, <1>9, <1>10, <1>11

\* The resend buffer without the chunks that are acknowledged.
LEMMA AckedBuffer ==
  ASSUME TypeOK, NEW e \in Peers, EndInv(e), NEW a \in Nat,
         a <= sent[e], sent[e] - a <= Unacked(e)
  PROVE  LET b == m_Buffer[e]
             d == AckChunks(b, Mod(a)) IN
         /\ d \in Seq(Chunk)
         /\ \A i \in 1..Len(d) : \E j \in 1..Len(b) : d[i] = b[j] /\ b[j].id > a
         /\ \A i, j \in 1..Len(d) : i < j => d[i].id < d[j].id
         /\ \A j \in 1..Len(b) : b[j].id > a => \E i \in 1..Len(d) : d[i] = b[j]
<1> DEFINE b == m_Buffer[e]
           d == AckChunks(b, Mod(a))
           l == Len(b)
<1>1. b \in Seq(Chunk) /\ l \in Nat /\ sent[e] \in Nat
  BY LenProperties DEF TypeOK, ChunkType, CounterType
<1>2. \A i \in 1..l : b[i] \in Chunk /\ b[i].id \in Nat
  BY ChunkNumbers
<1>3. \A i, j \in 1..l : i < j => b[i].id < b[j].id
  BY DEF EndInv, Kept
<1>4. ASSUME NEW i \in 1..l
      PROVE  /\ b[i].seq = Mod(b[i].id)
             /\ b[i].id < a + NET_MAX_SEQUENCE \div 2
             /\ a <= b[i].id + NET_MAX_SEQUENCE \div 2
  <2>1. /\ b[i].id \in Nat /\ b[i].seq = Mod(b[i].id)
        /\ b[i].id <= sent[e] /\ sent[e] < b[i].id + MaxUnacked
    BY KeptChunk DEF Mod
  <2>2. Unacked(e) \in Nat /\ Unacked(e) <= MaxUnacked
    BY UnackedIs DEF EndInv, Counters
  <2> HIDE DEF b
  <2>3. PICK h \in Nat : h = NET_MAX_SEQUENCE \div 2 /\ MaxUnacked < h
    BY Half
  <2> QED BY <1>1, <2>1, <2>2, <2>3, Half
<1> HIDE DEF b, l
<1>5. PICK k \in 0..l : /\ d = SubSeq(b, k + 1, l)
                        /\ \A i \in 1..l : b[i].id <= a <=> i <= k
  BY <1>1, <1>3, <1>4, AckChunksDrops DEF l
<1>6. \A i \in k + 1..l : b[i] \in Chunk
  BY <1>1, <1>2
<1>7. /\ d \in Seq(Chunk) /\ Len(d) = l - k
      /\ \A i \in 1..l - k : d[i] = b[k + i]
  <2>1. k + 1 \in Int /\ l \in Int
    BY <1>1
  <2>2. /\ SubSeq(b, k + 1, l) \in Seq(Chunk)
        /\ Len(SubSeq(b, k + 1, l)) = IF k + 1 <= l THEN l - (k + 1) + 1 ELSE 0
        /\ \A i \in 1..l - (k + 1) + 1 : SubSeq(b, k + 1, l)[i] = b[(k + 1) + i - 1]
    BY <1>6, <2>1, SubSeqProperties
  <2>3. /\ (IF k + 1 <= l THEN l - (k + 1) + 1 ELSE 0) = l - k
        /\ \A i \in 1..l - k : i \in 1..l - (k + 1) + 1 /\ (k + 1) + i - 1 = k + i
    BY <1>1
  <2> HIDE DEF d
  <2> QED BY <1>5, <2>2, <2>3
<1> HIDE DEF d
<1>8. ASSUME NEW i \in 1..l - k PROVE k + i \in 1..l /\ d[i] = b[k + i] /\ b[k + i].id > a
  <2>1. k + i \in 1..l /\ ~(k + i <= k)
    BY <1>1
  <2> QED BY <1>2, <1>5, <1>7, <2>1
<1>9. ASSUME NEW i \in 1..l - k, NEW j \in 1..l - k, i < j PROVE d[i].id < d[j].id
  <2>1. k + i < k + j
    BY <1>9
  <2> QED BY <1>3, <1>8, <2>1
<1>10. ASSUME NEW j \in 1..l, b[j].id > a PROVE \E i \in 1..l - k : d[i] = b[j]
  <2>1. ~(j <= k)
    BY <1>2, <1>5, <1>10
  <2>2. j - k \in 1..l - k /\ k + (j - k) = j
    BY <1>1, <2>1
  <2> QED BY <1>7, <2>2
<1> QED BY <1>7, <1>8, <1>9, <1>10 DEF b, l, d

\* Feed queues the chunks it keeps when asked to, and drops those that are acknowledged.
LEMMA FeedStep ==
  ASSUME IInv, NEW e \in Peers, NEW p \in net[Other(e)], Feed(e, p)
  PROVE  IInv'
<1> DEFINE o == Other(e)
           b == m_Buffer[e]
           chs == IF p.resend THEN b ELSE <<>>
           q == QueueChunkEx(e, chs)
           d == AckChunks(b, p.ack)
           a == p.ackId
<1>0. /\ TypeOK /\ EndInv(e) /\ EndInv(o) /\ o \in Peers /\ o # e /\ Other(o) = e
      /\ sent[e] \in Nat /\ received[o] \in Nat /\ b \in Seq(Chunk)
  BY PeersAre DEF IInv, TypeOK, CounterType, ChunkType
<1>1. /\ Fresh(e, p) /\ AckInWindow(m_Sequence[e], m_PeerAck[e], p.ack)
      /\ m_PeerAck' = [m_PeerAck EXCEPT ![e] = p.ack]
      /\ m_Construct' = [m_Construct EXCEPT ![e] = q] /\ Transmit(e, FullPackets(e, chs))
      /\ m_Buffer' = [m_Buffer EXCEPT ![e] = d]
      /\ unpacker' = [unpacker EXCEPT ![e] = p.chunks]
      /\ UNCHANGED <<m_Sequence, m_Ack, sent, received, unsaved>>
  BY DEF Feed
<1>2. /\ a \in Nat /\ p.ack = Mod(a) /\ a <= received[o]
      /\ a <= sent[e] /\ sent[e] - a <= Unacked(e)
      /\ Distance(sent[e], p.ack) = sent[e] - a
  BY <1>0, <1>1, AckIs
<1>3. /\ d \in Seq(Chunk)
      /\ \A i \in 1..Len(d) : \E j \in 1..Len(b) : d[i] = b[j] /\ b[j].id > a
      /\ \A i, j \in 1..Len(d) : i < j => d[i].id < d[j].id
      /\ \A j \in 1..Len(b) : b[j].id > a => \E i \in 1..Len(d) : d[i] = b[j]
  <2>1. d = AckChunks(m_Buffer[e], Mod(p.ackId))
    BY <1>2
  <2>2. p.ackId \in Nat /\ p.ackId <= sent[e] /\ sent[e] - p.ackId <= Unacked(e)
    BY <1>2
  <2>3. PICK x \in Nat : x = p.ackId
    BY <2>2
  <2>4. x <= sent[e] /\ sent[e] - x <= Unacked(e) /\ d = AckChunks(m_Buffer[e], Mod(x))
    BY <2>1, <2>2, <2>3
  <2> HIDE DEF a, d
  <2>5. LET f == AckChunks(m_Buffer[e], Mod(x)) IN
        /\ f \in Seq(Chunk)
        /\ \A i \in 1..Len(f) : \E j \in 1..Len(b) : f[i] = b[j] /\ b[j].id > x
        /\ \A i, j \in 1..Len(f) : i < j => f[i].id < f[j].id
        /\ \A j \in 1..Len(b) : b[j].id > x => \E i \in 1..Len(f) : f[i] = b[j]
    BY <1>0, <2>4, AckedBuffer
  <2> QED BY <2>3, <2>4, <2>5 DEF a
<1>4. chs \in Seq(Chunk) /\ \A c \in Range(chs) : \E i \in 1..Len(b) : c = b[i]
  <2>1. CASE p.resend
    BY <1>0, <2>1, LenProperties DEF Range
  <2>2. CASE ~p.resend
    BY <2>2, EmptyIs
  <2> QED BY <2>1, <2>2
<1>5. p.ack \in SeqNumbers /\ p.chunks \in Seq(Chunk) /\ p.ackId \in Nat
  BY <1>0 DEF TypeOK, ChunkType, Packet
<1> HIDE DEF d, chs
<1>6. Emitted(e, Range(chs))
  <2>1. {} \in SUBSET {PacketOf(e, q), PacketOf(e, EmptyConstruct)}
    OBVIOUS
  <2>2. Transmit(e, FullPackets(e, chs) \cup {})
    BY <1>1
  <2> QED BY <1>0, <1>1, <1>4, <2>1, <2>2, EmitsQueued DEF EndInv
<1>7. TypeOK'
  <2>1. CounterType'
    BY <1>0, <1>1, <1>5 DEF TypeOK, CounterType
  <2>2. m_Buffer' \in [Peers -> Seq(Chunk)] /\ unpacker' \in [Peers -> Seq(Chunk)]
    BY <1>0, <1>1, <1>3, <1>5 DEF TypeOK, ChunkType
  <2> QED BY <1>0, <1>1, <1>6, <2>1, <2>2 DEF TypeOK, ChunkType, Emitted
<1>8. /\ m_PeerAck'[e] = p.ack /\ m_PeerAck'[o] = m_PeerAck[o]
      /\ m_Buffer'[e] = d /\ m_Buffer'[o] = m_Buffer[o]
      /\ unpacker'[e] = p.chunks /\ unpacker'[o] = unpacker[o]
  BY <1>0, <1>1 DEF TypeOK, CounterType, ChunkType
<1>9. Unacked(e)' = sent[e] - a /\ m_Sequence[e] = Mod(sent[e])
  <2>1. m_Sequence[e] = Mod(sent[e])
    BY <1>0 DEF EndInv, Counters, Mod
  <2> QED BY <1>1, <1>2, <1>8, <2>1 DEF Unacked, Distance
<1>10. Counters(e)'
  <2>1. /\ received[o] <= sent[e] /\ m_Ack[e] = received[e] % NET_MAX_SEQUENCE
        /\ Unacked(e) <= MaxUnacked /\ Unacked(e) \in Nat /\ MaxUnacked \in Nat
    BY <1>0, UnackedIs, Half DEF EndInv, Counters
  <2>2. sent[e] - a <= MaxUnacked /\ sent[e] <= received[o] + (sent[e] - a)
    <3> HIDE DEF o, a
    <3> QED BY <1>0, <1>2, <2>1
  <2> QED BY <1>1, <1>9, <2>1, <2>2 DEF Counters, Mod
<1>11. Kept(e)'
  <2>1. ASSUME NEW i \in 1..Len(d)
        PROVE  /\ d[i].seq = d[i].id % NET_MAX_SEQUENCE
               /\ d[i].id <= sent[e] /\ d[i].id + (sent[e] - a) > sent[e]
    <3>1. PICK j \in 1..Len(b) : d[i] = b[j] /\ b[j].id > a
      BY <1>3
    <3>2. b[j].id \in Nat /\ b[j].seq = b[j].id % NET_MAX_SEQUENCE /\ b[j].id <= sent[e]
      BY <1>0, KeptChunk
    <3> HIDE DEF b, a
    <3>3. b[j].id + (sent[e] - a) > sent[e]
      BY <1>0, <1>2, <3>1, <3>2
    <3> QED BY <3>1, <3>2, <3>3
  <2>2. ASSUME NEW id \in received[o] + 1..sent[e]
        PROVE  id \in unsaved[e] \/ \E i \in 1..Len(d) : d[i].id = id
    <3>1. id \in unsaved[e] \/ \E j \in 1..Len(b) : b[j].id = id
      BY <1>0 DEF EndInv, Kept
    <3>2. ASSUME NEW j \in 1..Len(b), b[j].id = id PROVE \E i \in 1..Len(d) : d[i].id = id
      <4>1. id > a
        <5> HIDE DEF o, a
        <5> QED BY <1>0, <1>2
      <4> QED BY <1>3, <3>2, <4>1
    <3> QED BY <3>1, <3>2
  <2>3. sent'[e] = sent[e] /\ received'[o] = received[o] /\ unsaved'[e] = unsaved[e]
    BY <1>1
  <2> HIDE DEF a, b
  <2> QED BY <1>3, <1>8, <1>9, <2>1, <2>2, <2>3 DEF Kept
<1>12. sent[e] <= sent'[e]
  BY <1>0, <1>1
<1>13. Constructed(e)' /\ InNet(e)'
  <2>1. ASSUME NEW c \in Range(chs)
        PROVE  /\ c.id \in Nat /\ c.seq = c.id % NET_MAX_SEQUENCE
               /\ c.id <= sent'[e] /\ sent'[e] < c.id + MaxUnacked
    BY <1>0, <1>1, <1>4, KeptChunk
  <2> QED BY <1>0, <1>1, <1>6, <1>7, <1>8, <1>10, <1>12, <2>1, Sending
<1>14. Unpacking(e)'
  <2>1. ChunksOf(o, p.chunks)
    BY <1>0 DEF EndInv, InNet
  <2>2. \A c \in Range(p.chunks) : c.id + NET_MAX_SEQUENCE > received[e] + 1
    <3>1. \A i \in 1..Len(p.chunks) : p.chunks[i].id > received[e] + 1 - NET_MAX_SEQUENCE
      BY <1>1 DEF Fresh
    <3>2. SUFFICES ASSUME NEW c \in Range(p.chunks)
                   PROVE  c.id + NET_MAX_SEQUENCE > received[e] + 1
      OBVIOUS
    <3>3. c.id > received[e] + 1 - NET_MAX_SEQUENCE
      BY <1>5, <3>1, LenProperties DEF Range
    <3>4. c.id \in Nat /\ received[e] \in Nat
      BY <1>0, ChunkNumbers
    <3> QED BY <3>3, <3>4, Half
  <2>3. sent'[o] = sent[o] /\ received'[e] = received[e]
    BY <1>1
  <2> QED BY <1>8, <2>1, <2>2, <2>3 DEF Unpacking, ChunksOf
<1>15. EndInv(o)'
  <2>1. Untouched(o)
    BY <1>1, <1>6, <1>8 DEF Untouched, Emitted
  <2>2. ASSUME NEW c, c \in UnderWay(o)' PROVE c \in UnderWay(o)
    <3>1. c \in Range(unpacker'[e]) \/ \E r \in net'[o] : c \in Range(r.chunks)
      BY <1>0, <2>2, UnderWayIs
    <3>2. net'[o] = net[o]
      BY <2>1 DEF Untouched
    <3>3. \E r \in net[o] : c \in Range(r.chunks)
      BY <1>8, <3>1, <3>2
    <3> QED BY <3>3, UnderWayIs
  <2> QED BY <1>0, <1>1, <1>7, <1>8, <1>12, <2>1, <2>2, OtherStays
<1> QED BY <1>7, <1>10, <1>11, <1>13, <1>14, <1>15, BothEnds DEF IInv, EndInv

\* The chunk that FetchChunk takes from the packet is the next one when it has the next
\* number.
LEMMA NextChunkIs ==
  ASSUME TypeOK, NEW e \in Peers, EndInv(e), EndInv(Other(e)), NEW h \in Range(unpacker[e]),
         h.seq = NextSequence(m_Ack[e])
  PROVE  h.id = received[e] + 1 /\ h.seq = Mod(received[e] + 1) /\ h.id <= sent[Other(e)]
<1>1. /\ received[e] \in Nat /\ sent[Other(e)] \in Nat /\ Other(e) \in Peers
      /\ Other(Other(e)) = e /\ h.id \in Nat
  BY PeersAre, ChunkNumbers
<1>2. m_Ack[e] = Mod(received[e])
  BY DEF EndInv, Counters, Mod
<1>3. /\ h.seq = Mod(h.id) /\ h.id <= sent[Other(e)]
      /\ h.id + NET_MAX_SEQUENCE > received[e] + 1
  BY DEF EndInv, Unpacking, ChunksOf, Mod
<1>4. sent[Other(e)] <= received[e] + MaxUnacked
  BY <1>1, UnackedIs DEF EndInv
<1>5. h.seq = Mod(received[e] + 1)
  BY <1>1, <1>2, NextCounts
<1>6. PICK r \in Nat : r = received[e] + 1
  BY <1>1
<1>7. r < h.id + NET_MAX_SEQUENCE /\ h.id < r + NET_MAX_SEQUENCE
  BY <1>1, <1>3, <1>4, <1>6, Half
<1>8. Mod(h.id) = Mod(r)
  BY <1>3, <1>5, <1>6
<1>9. h.id = r
  BY <1>1, <1>7, <1>8, ModEqual
<1> QED BY <1>3, <1>5, <1>6, <1>9

\* FetchChunk delivers the next chunk or none.
LEMMA FetchStep ==
  ASSUME IInv, NEW e \in Peers, FetchChunk(e)
  PROVE  IInv'
<1> DEFINE o == Other(e)
           u == unpacker[e]
           h == Head(u)
           old == Range(m_Construct[o].chunks)
<1>0. /\ TypeOK /\ EndInv(e) /\ EndInv(o) /\ o \in Peers /\ o # e /\ Other(o) = e
      /\ sent[o] \in Nat /\ received[e] \in Nat /\ u \in Seq(Chunk)
  BY PeersAre DEF IInv, TypeOK, CounterType, ChunkType
<1>1. /\ u # <<>> /\ unpacker' = [unpacker EXCEPT ![e] = Tail(u)]
      /\ UNCHANGED <<m_Sequence, m_PeerAck, m_Buffer, net, sent, unsaved>>
  BY DEF FetchChunk
<1>2. h \in Range(u) /\ Tail(u) \in Seq(Chunk) /\ Range(Tail(u)) \subseteq Range(u)
  <2>1. /\ Len(u) \in Nat /\ Len(u) > 0 /\ h = u[1] /\ DOMAIN u = 1..Len(u)
        /\ Tail(u) \in Seq(Chunk) /\ Len(Tail(u)) = Len(u) - 1
        /\ \A i \in 1..Len(Tail(u)) : Tail(u)[i] = u[i + 1]
    BY <1>0, <1>1, LenProperties, HeadTailProperties
  <2>2. h \in Range(u)
    BY <2>1 DEF Range
  <2>3. ASSUME NEW c \in Range(Tail(u)) PROVE c \in Range(u)
    <3>1. PICK i \in 1..Len(Tail(u)) : c = Tail(u)[i]
      BY <2>1, LenProperties DEF Range
    <3>2. i + 1 \in 1..Len(u)
      BY <2>1
    <3> QED BY <2>1, <3>1, <3>2 DEF Range
  <2> QED BY <2>1, <2>2, <2>3
<1>3. /\ \A c \in Range(u) : c.id \in Nat /\ c.id + NET_MAX_SEQUENCE > received[e] + 1
      /\ \A c, d \in Range(u) : d.id < c.id + 2 * MaxUnacked
      /\ \A c \in Range(u) : c.id <= sent[o] /\ c.seq = c.id % NET_MAX_SEQUENCE
  BY <1>0, ChunkNumbers DEF EndInv, Unpacking, ChunksOf
<1>4. /\ \A c \in old : received[e] < c.id + MaxUnacked
      /\ \A c \in old : h.id < c.id + MaxUnacked
      /\ received[e] <= sent[o] /\ m_Ack[e] = received[e] % NET_MAX_SEQUENCE
  <2>1. h \in UnderWay(o)
    BY <1>0, <1>2, UnderWayIs
  <2> QED BY <1>0, <2>1 DEF EndInv, Constructed, Counters
<1> HIDE DEF o, u, h, old
<1>5. \E r \in Nat :
        /\ received' = [received EXCEPT ![e] = r]
        /\ m_Ack' = [m_Ack EXCEPT ![e] = r % NET_MAX_SEQUENCE]
        /\ r % NET_MAX_SEQUENCE \in SeqNumbers
        /\ received[e] <= r /\ r <= sent[o]
        /\ \A c \in old : r < c.id + MaxUnacked
        /\ \A c \in Range(Tail(u)) : c.id + NET_MAX_SEQUENCE > r + 1
  <2>1. CASE h.seq = NextSequence(m_Ack[e])
    <3>1. /\ m_Ack' = [m_Ack EXCEPT ![e] = h.seq]
          /\ received' = [received EXCEPT ![e] = h.id]
      BY <2>1 DEF FetchChunk, h, u
    <3>2. h.id = received[e] + 1 /\ h.seq = Mod(received[e] + 1) /\ h.id <= sent[o]
      BY <1>0, <1>2, <2>1, NextChunkIs DEF o, u
    <3>3. PICK r \in Nat : r = received[e] + 1 /\ received[e] <= r
      BY <1>0
    <3>4. h.id = r /\ h.seq = r % NET_MAX_SEQUENCE /\ r % NET_MAX_SEQUENCE \in SeqNumbers
      <4>1. Mod(r) \in SeqNumbers
        BY ModType
      <4> QED BY <3>2, <3>3, <4>1 DEF Mod
    <3>5. ASSUME NEW c \in Range(Tail(u)) PROVE c.id + NET_MAX_SEQUENCE > r + 1
      <4>1. h.id < c.id + 2 * MaxUnacked /\ c.id \in Nat
        BY <1>2, <1>3
      <4> QED BY <3>4, <4>1, Half
    <3> QED BY <1>4, <3>1, <3>2, <3>3, <3>4, <3>5
  <2>2. CASE h.seq # NextSequence(m_Ack[e])
    <3>1. m_Ack' = m_Ack /\ received' = received
      BY <2>2 DEF FetchChunk, h, u
    <3>2. m_Ack[e] \in SeqNumbers
      BY <1>0 DEF TypeOK, CounterType
    <3>3. /\ received' = [received EXCEPT ![e] = received[e]]
          /\ m_Ack' = [m_Ack EXCEPT ![e] = received[e] % NET_MAX_SEQUENCE]
      BY <1>0, <1>4, <3>1 DEF TypeOK, CounterType
    <3>4. received[e] <= received[e]
      BY <1>0
    <3> QED BY <1>0, <1>2, <1>3, <1>4, <3>2, <3>3, <3>4
  <2> QED BY <2>1, <2>2
<1>6. PICK r \in Nat :
        /\ received' = [received EXCEPT ![e] = r]
        /\ m_Ack' = [m_Ack EXCEPT ![e] = r % NET_MAX_SEQUENCE]
        /\ r % NET_MAX_SEQUENCE \in SeqNumbers
        /\ received[e] <= r /\ r <= sent[o]
        /\ \A c \in old : r < c.id + MaxUnacked
        /\ \A c \in Range(Tail(u)) : c.id + NET_MAX_SEQUENCE > r + 1
  BY <1>5
<1>7. /\ m_Construct' \in [Peers -> Construct]
      /\ \A f \in Peers : m_Construct'[f].chunks = m_Construct[f].chunks
  <2>1. m_Construct \in [Peers -> Construct]
    BY <1>0 DEF TypeOK, ChunkType
  <2>2. m_Construct' = m_Construct \/ m_Construct' = [m_Construct EXCEPT ![e].resend = TRUE]
    BY DEF FetchChunk
  <2> QED BY <2>1, <2>2 DEF Construct
<1>8. /\ received'[e] = r /\ received'[o] = received[o]
      /\ m_Ack'[e] = r % NET_MAX_SEQUENCE /\ m_Ack'[o] = m_Ack[o]
      /\ unpacker'[e] = Tail(u) /\ unpacker'[o] = unpacker[o]
  BY <1>0, <1>1, <1>6 DEF TypeOK, CounterType, ChunkType
<1>9. TypeOK'
  BY <1>0, <1>1, <1>2, <1>6, <1>7 DEF TypeOK, CounterType, ChunkType
<1>10. \A f \in Peers : Unacked(f)' = Unacked(f) /\ Unacked(f) \in Nat
  <2>1. \A f \in Peers : EndInv(f)
    BY DEF IInv
  <2> QED BY <1>0, <1>1, <2>1, UnackedIs DEF EndInv, Unacked
<1>11. \A f \in Peers : \A c : c \in UnderWay(f)' => c \in UnderWay(f)
  <2>1. net' = net
    BY <1>1
  <2>2. \A f \in Peers : Range(unpacker'[f]) \subseteq Range(unpacker[f])
    BY <1>0, <1>2, <1>8, PeersAre DEF u, o
  <2>3. \A f \in Peers : Other(f) \in Peers
    BY PeersAre
  <2> QED BY <2>1, <2>2, <2>3, UnderWayIs
<1>12. EndInv(e)'
  <2>1. Counters(e)'
    BY <1>0, <1>1, <1>8, <1>10 DEF EndInv, Counters, o
  <2>2. Kept(e)'
    BY <1>0, <1>1, <1>8, <1>10 DEF EndInv, Kept, o
  <2>3. Constructed(e)'
    BY <1>0, <1>1, <1>7, <1>8, <1>11 DEF EndInv, Constructed, ChunksOf, o
  <2>4. InNet(e)'
    <3>1. SUFFICES ASSUME NEW p \in net[e] PROVE p.ackId <= r
      BY <1>0, <1>1, <1>8 DEF EndInv, InNet, ChunksOf
    <3>2. p.ackId <= received[e]
      BY <1>0 DEF EndInv, InNet
    <3>3. p.ackId \in Nat
      BY <1>0 DEF TypeOK, ChunkType, Packet
    <3> QED BY <1>0, <1>6, <3>2, <3>3
  <2>5. Unpacking(e)'
    BY <1>1, <1>2, <1>3, <1>6, <1>8 DEF Unpacking, ChunksOf, o
  <2> QED BY <2>1, <2>2, <2>3, <2>4, <2>5 DEF EndInv
<1>13. EndInv(o)'
  <2>1. Counters(o)'
    <3>1. sent[o] <= received[e] + Unacked(o)
      BY <1>0 DEF EndInv, Counters
    <3>2. sent[o] <= r + Unacked(o)
      BY <1>0, <1>6, <1>10, <3>1
    <3>3. /\ m_Sequence[o] = sent[o] % NET_MAX_SEQUENCE
          /\ m_Ack[o] = received[o] % NET_MAX_SEQUENCE /\ Unacked(o) <= MaxUnacked
      BY <1>0 DEF EndInv, Counters
    <3>4. Unacked(o)' = Unacked(o)
      BY <1>0, <1>10
    <3> QED BY <1>0, <1>1, <1>6, <1>8, <3>2, <3>3, <3>4 DEF Counters
  <2>2. Kept(o)'
    <3>1. \A id \in r + 1..sent[o] : id \in received[e] + 1..sent[o]
      BY <1>0, <1>6
    <3>2. Unacked(o)' = Unacked(o)
      BY <1>0, <1>10
    <3> QED BY <1>0, <1>1, <1>8, <3>1, <3>2 DEF EndInv, Kept
  <2>3. Constructed(o)'
    BY <1>0, <1>1, <1>6, <1>7, <1>8, <1>11 DEF EndInv, Constructed, ChunksOf, old
  <2>4. InNet(o)'
    BY <1>0, <1>1, <1>8 DEF EndInv, InNet, ChunksOf
  <2>5. Unpacking(o)'
    BY <1>0, <1>1, <1>8 DEF EndInv, Unpacking, ChunksOf
  <2> QED BY <2>1, <2>2, <2>3, <2>4, <2>5 DEF EndInv
<1> QED BY <1>9, <1>12, <1>13, BothEnds DEF IInv, o

\* The invariant holds of a connection that is idle.
LEMMA InitInv == Init => IInv
<1> SUFFICES ASSUME Init PROVE IInv
  OBVIOUS
<1>0. ASSUME NEW e \in Peers
      PROVE  /\ Other(e) \in Peers /\ Other(Other(e)) = e /\ Start[e] \in Nat
             /\ Start[e] % NET_MAX_SEQUENCE \in SeqNumbers
  <2>1. Other(e) \in Peers /\ Other(Other(e)) = e /\ Start[e] \in Nat
    BY PeersAre, ChannelAssumption DEF Peers
  <2>2. Mod(Start[e]) \in SeqNumbers
    BY <2>1, ModType
  <2> QED BY <2>1, <2>2 DEF Mod
<1>1. EmptyConstruct \in Construct /\ <<>> \in Seq(Chunk) /\ {} \in SUBSET Packet
  BY EmptyIs
<1>2. CounterType
  <2>1. sent \in [Peers -> Nat]
    BY ChannelAssumption DEF Init, Peers
  <2> QED BY <1>0, <2>1 DEF Init, CounterType
<1>3. ChunkType
  BY <1>1 DEF Init, ChunkType
<1>4. ASSUME NEW e \in Peers PROVE EndInv(e)
  <2> DEFINE s == Start[e]
  <2>1. /\ m_Sequence[e] = s % NET_MAX_SEQUENCE /\ m_PeerAck[e] = s % NET_MAX_SEQUENCE
        /\ m_Ack[e] = Start[Other(e)] % NET_MAX_SEQUENCE
        /\ m_Buffer[e] = <<>> /\ m_Construct[e] = EmptyConstruct /\ unpacker[e] = <<>>
        /\ net[e] = {} /\ sent[e] = s /\ received[e] = Start[Other(e)]
        /\ received[Other(e)] = s
    BY <1>0 DEF Init
  <2>2. s \in Nat
    BY <1>0
  <2>3. Unacked(e) = 0
    <3>1. Unacked(e) = Distance(s, Mod(s))
      BY <2>1 DEF Unacked, Distance, Mod
    <3> HIDE DEF s
    <3>2. s <= s /\ s < s + NET_MAX_SEQUENCE /\ s - s = 0
      BY <2>2, Half
    <3>3. Distance(s, Mod(s)) = s - s
      BY <2>2, <3>2, DistanceOfAck
    <3> QED BY <3>1, <3>2, <3>3
  <2>4. Counters(e)
    <3>1. received[Other(e)] <= sent[e] /\ sent[e] <= received[Other(e)] + 0
      BY <2>1, <2>2
    <3>2. 0 <= MaxUnacked
      BY Half
    <3> QED BY <2>1, <2>3, <3>1, <3>2 DEF Counters
  <2>5. Kept(e)
    <3>1. 1..0 = {} /\ received[Other(e)] + 1..sent[e] = {}
      BY <2>1, <2>2
    <3>2. 1..Len(m_Buffer[e]) = {}
      BY <2>1, <3>1, EmptyIs
    <3> QED BY <3>1, <3>2 DEF Kept
  <2>6. Constructed(e)
    <3>1. m_Construct[e].chunks = <<>> /\ Range(<<>>) = {} /\ Len(<<>>) <= ConstructCap
      BY <2>1, EmptyIs, ChannelAssumption
    <3> QED BY <3>1 DEF Constructed, ChunksOf
  <2>7. InNet(e) /\ Unpacking(e)
    BY <2>1, EmptyIs DEF InNet, Unpacking, ChunksOf
  <2> QED BY <2>4, <2>5, <2>6, <2>7 DEF EndInv
<1> QED BY <1>2, <1>3, <1>4 DEF IInv, TypeOK

\* Every step keeps the invariant.
LEMMA NextInv == IInv /\ [Next]_vars => IInv'
<1> SUFFICES ASSUME IInv, [Next]_vars PROVE IInv'
  OBVIOUS
<1>1. CASE UNCHANGED vars
  BY <1>1 DEF vars, IInv, TypeOK, CounterType, ChunkType, EndInv, Counters, Kept,
              Constructed, UnderWay, InNet, Unpacking, ChunksOf, Unacked
<1>2. ASSUME NEW e \in Peers, NEW flush \in BOOLEAN, Send(e, flush) PROVE IInv'
  BY <1>2, SendStep
<1>3. ASSUME NEW e \in Peers, SendNonVital(e) PROVE IInv'
  BY <1>3, SendNonVitalStep
<1>4. ASSUME NEW e \in Peers, NEW resend \in BOOLEAN, NEW late \in BOOLEAN,
             NEW quiet \in BOOLEAN, Update(e, resend, late, quiet) PROVE IInv'
  BY <1>4, UpdateStep
<1>5. ASSUME NEW e \in Peers, NEW p \in net[Other(e)], Feed(e, p) PROVE IInv'
  BY <1>5, FeedStep
<1>6. ASSUME NEW e \in Peers, FetchChunk(e) PROVE IInv'
  BY <1>6, FetchStep
<1> QED BY <1>1, <1>2, <1>3, <1>4, <1>5, <1>6 DEF Next

\* The inductive invariant of the connection.
THEOREM Invariance == Spec => []IInv
<1>1. Init => IInv
  BY InitInv
<1>2. IInv /\ [Next]_vars => IInv'
  BY NextInv
<1> QED BY <1>1, <1>2, PTL DEF Spec

-----------------------------------------------------------------------------
(* The properties.                                                         *)

\* Sequence numbers and acks stand for the chunks queued and received, and an end never
\* believes that more was received than was (Feed, FetchChunk).
THEOREM CountersStandForChunks == Spec => []CountersAgree
<1>1. IInv => CountersAgree
  <2>1. ASSUME IInv, NEW e \in Peers
        PROVE  /\ m_Sequence[e] = sent[e] % NET_MAX_SEQUENCE
               /\ m_Ack[e] = received[e] % NET_MAX_SEQUENCE
               /\ received[Other(e)] <= sent[e]
               /\ Unacked(e) >= sent[e] - received[Other(e)]
    <3>1. TypeOK /\ Counters(e)
      BY <2>1 DEF IInv, EndInv
    <3>2. Unacked(e) \in Nat /\ sent[e] \in Nat /\ received[Other(e)] \in Nat
      BY <3>1, UnackedIs, ChunkNumbers
    <3>3. sent[e] <= received[Other(e)] + Unacked(e)
      BY <3>1 DEF Counters
    <3>4. Unacked(e) >= sent[e] - received[Other(e)]
      BY <3>2, <3>3
    <3> QED BY <3>1, <3>4 DEF Counters
  <2> QED BY <2>1 DEF CountersAgree
<1> QED BY <1>1, Invariance, PTL

\* A chunk leaves the resend buffer only after the other end received it (AckChunks).
THEOREM ChunksAreKept == Spec => []UnreceivedIsKept
<1>1. IInv => UnreceivedIsKept
  BY DEF IInv, EndInv, Kept, UnreceivedIsKept
<1> QED BY <1>1, Invariance, PTL

\* FetchChunk receives the next chunk, which the other end queued, or none.
LEMMA FetchReceives ==
  ASSUME IInv, NEW e \in Peers, FetchChunk(e)
  PROVE  Channel!Receive(e) \/ UNCHANGED <<sent, received>>
<1> DEFINE u == unpacker[e]
           h == Head(u)
<1>1. /\ TypeOK /\ EndInv(e) /\ EndInv(Other(e)) /\ u \in Seq(Chunk) /\ u # <<>>
      /\ received[e] \in Nat /\ sent[Other(e)] \in Nat
  BY PeersAre DEF IInv, TypeOK, ChunkType, CounterType, FetchChunk
<1>2. h \in Range(u)
  BY <1>1, LenProperties, HeadTailProperties DEF Range
<1>3. CASE h.seq = NextSequence(m_Ack[e])
  <2>1. h.id = received[e] + 1 /\ h.id <= sent[Other(e)]
    BY <1>1, <1>2, <1>3, NextChunkIs
  <2>2. received' = [received EXCEPT ![e] = received[e] + 1] /\ sent' = sent
    BY <1>3, <2>1 DEF FetchChunk
  <2>3. received[e] < sent[Other(e)]
    BY <1>1, <2>1
  <2> QED BY <2>2, <2>3 DEF Channel!Receive
<1>4. CASE h.seq # NextSequence(m_Ack[e])
  BY <1>4 DEF FetchChunk
<1> QED BY <1>3, <1>4

\* Every chunk queued is received once, in the order queued: a connection over a network
\* that loses, repeats and reorders packets is the channel of ReliableChannel.
THEOREM ImplementsChannel == Spec => InOrderOnce
<1>1. Init => Channel!Init
  BY DEF Init, Channel!Init
<1>2. IInv /\ [Next]_vars => [Channel!Next]_<<sent, received>>
  <2> SUFFICES ASSUME IInv, [Next]_vars PROVE [Channel!Next]_<<sent, received>>
    OBVIOUS
  <2>1. CASE UNCHANGED vars
    BY <2>1 DEF vars
  <2>2. ASSUME NEW e \in Peers, NEW flush \in BOOLEAN, Send(e, flush) PROVE Channel!Next
    BY <2>2 DEF Send, Channel!Next, Channel!Send
  <2>3. ASSUME NEW e \in Peers, SendNonVital(e) PROVE UNCHANGED <<sent, received>>
    BY <2>3 DEF SendNonVital
  <2>4. ASSUME NEW e \in Peers, NEW resend \in BOOLEAN, NEW late \in BOOLEAN,
               NEW quiet \in BOOLEAN, Update(e, resend, late, quiet)
        PROVE  UNCHANGED <<sent, received>>
    BY <2>4 DEF Update
  <2>5. ASSUME NEW e \in Peers, NEW p \in net[Other(e)], Feed(e, p)
        PROVE  UNCHANGED <<sent, received>>
    BY <2>5 DEF Feed
  <2>6. ASSUME NEW e \in Peers, FetchChunk(e)
        PROVE  Channel!Next \/ UNCHANGED <<sent, received>>
    BY <2>6, FetchReceives DEF Channel!Next
  <2> QED BY <2>1, <2>2, <2>3, <2>4, <2>5, <2>6 DEF Next
<1> QED BY <1>1, <1>2, Invariance, PTL DEF Spec, InOrderOnce, Channel!Spec
=============================================================================
