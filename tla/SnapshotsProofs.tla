--------------------------- MODULE SnapshotsProofs ---------------------------
(***************************************************************************)
(* Proofs about snapshots, for any worlds, rates, sizes of storages and of *)
(* messages, over a network that loses, repeats and reorders.              *)
(*                                                                         *)
(* What the client stores comes in the order of the ticks, because what it *)
(* takes is later than all that is stored (StoredTicks).  So the second    *)
(* snapshot, with which the first is shown (Shown), is the later one, and  *)
(* a purge keeps both.  A base was acknowledged before, so that the client *)
(* has had it (Acked), and whatever the client finds under its tick is the *)
(* world it was made against (Deltas, Worlds).                             *)
(***************************************************************************)
EXTENDS Snapshots, SequenceTheorems, WellFoundedInduction, TLAPS

\* A storage, whatever its worlds are.
IsStorage(s) == s \in Seq(Range(s)) /\ \A i \in 1..Len(s) : s[i].tick \in Nat

\* Types of the state the proofs are about.
TypeOK ==
  /\ m_CurrentGameTick \in 0..MaxTick
  /\ IsStorage(m_Snapshots) /\ IsStorage(m_aSnapshotStorage)
  /\ m_aCurrentRecvTick \in Nat
  /\ had \subseteq 1..MaxTick
  /\ m_aReceivedSnapshots \in 0..3
  /\ m_Prev \in Nat \cup {-1} /\ m_Current \in Nat \cup {-1}
  /\ \A m \in snaps : m.tick \in 1..MaxTick /\ m.base \in 1..MaxTick \cup {-1}

\* What is acknowledged was received, and what was received was sent.
Acked ==
  /\ m_aAckGameTick \in had \cup {-1} /\ inputs \subseteq had \cup {-1}
  /\ m_LastAckedSnapshot \in had \cup {-1}
  /\ \A t \in had : \E m \in snaps : m.tick = t

\* The ticks of what was sent are not ahead of the server's, and what was sent in the
\* server's tick is stored.
SentTicks ==
  \A m \in snaps : /\ m.base < m.tick /\ m.tick <= m_CurrentGameTick
                   /\ m.tick = m_CurrentGameTick => m.tick \in Ticks(m_Snapshots)

\* The client has stored no tick after the one it is receiving, and that one only if
\* it has acknowledged it.
StoredTicks ==
  \A t \in Ticks(m_aSnapshotStorage) :
    t <= m_aCurrentRecvTick /\ (t = m_aCurrentRecvTick => m_aAckGameTick = t)

\* The second snapshot is shown, with the first.
Shown ==
  /\ m_aReceivedSnapshots > 0 <=> m_aSnapshotStorage # <<>>
  /\ m_aReceivedSnapshots > 1 <=> m_Current # -1

\* A message has the delta between two worlds of the server.
Deltas ==
  /\ \A i \in 1..Len(m_Snapshots) : m_Snapshots[i].world = World(m_Snapshots[i].tick)
  /\ \A m \in snaps : /\ m.delta = CreateDelta(WorldOf(m.base), World(m.tick))
                      /\ m.empty <=> m.delta = EmptyDelta
                      /\ m.crc = Crc(World(m.tick))

IInv == TypeOK /\ Acked /\ SentTicks /\ StoredTicks /\ Shown /\ ShownAreStored
          /\ BaseWasReceived /\ AckedIsStored /\ Deltas

-----------------------------------------------------------------------------
(* Smallest and largest ticks.                                             *)

\* The smallest of ticks.
LEMMA MinIs ==
  ASSUME NEW S, S \subseteq Nat \cup {-1}, S # {}
  PROVE  Min(S) \in S /\ \A y \in S : Min(S) <= y
<1> DEFINE T == {k \in Nat : k - 1 \in S}
<1>1. T \subseteq Nat /\ T # {}
  <2>1. PICK i \in S : i \in Nat \cup {-1}
    OBVIOUS
  <2>2. i + 1 \in Nat /\ (i + 1) - 1 = i
    BY <2>1
  <2>3. i + 1 \in T
    BY <2>1, <2>2
  <2> HIDE DEF T
  <2>4. T \subseteq Nat
    BY DEF T
  <2> QED BY <2>3, <2>4
<1>2. \E x \in T : \A y \in T : ~ (<<y, x>> \in OpToRel(<, Nat))
  <2> HIDE DEF T
  <2> QED BY <1>1, NatLessThanWellFounded, WFMin
<1>3. PICK x \in T : \A y \in T : ~ (y < x)
  BY <1>1, <1>2 DEF OpToRel
<1>4. x - 1 \in S /\ \A y \in S : x - 1 <= y
  <2>1. x - 1 \in S
    BY <1>3
  <2>2. ASSUME NEW y \in S PROVE x - 1 <= y
    <3>1. y + 1 \in Nat /\ (y + 1) - 1 = y
      BY y \in Nat \cup {-1}
    <3>2. y + 1 \in T
      BY <3>1
    <3>3. ~ (y + 1 < x) /\ x \in Nat
      BY <1>1, <1>3, <3>2
    <3> QED BY <3>1, <3>3, y \in Nat \cup {-1}
  <2> QED BY <2>1, <2>2
<1> QED BY <1>4 DEF Min

\* The largest of numbers that are at most n.
LEMMA MaxIs ==
  ASSUME NEW n \in Nat, NEW S, S \subseteq 0..n, S # {}
  PROVE  Max(S) \in S /\ \A y \in S : Max(S) >= y
<1> DEFINE T == {n - y : y \in S}
<1>1. T \subseteq Nat \cup {-1} /\ T # {}
  <2>1. \A y \in S : n - y \in Nat
    OBVIOUS
  <2> QED BY <2>1
<1>2. Min(T) \in T /\ \A y \in T : Min(T) <= y
  <2> HIDE DEF T
  <2> QED BY <1>1, MinIs
<1>3. PICK x \in S : Min(T) = n - x
  BY <1>2
<1>4. \A y \in S : x >= y
  <2>1. SUFFICES ASSUME NEW y \in S PROVE x >= y
    OBVIOUS
  <2>2. n - x <= n - y
    BY <1>2, <1>3
  <2> QED BY <2>2
<1> QED BY <1>4 DEF Max

-----------------------------------------------------------------------------
(* Storages.                                                               *)

\* What is known of a storage.
LEMMA StorageIs ==
  ASSUME NEW s, IsStorage(s)
  PROVE  /\ Len(s) \in Nat /\ DOMAIN s = 1..Len(s) /\ s \in Seq(Range(s))
         /\ Ticks(s) \subseteq Nat
         /\ \A i \in 1..Len(s) : s[i].tick \in Ticks(s)
         /\ s # <<>> <=> Len(s) > 0
         /\ s # <<>> <=> Ticks(s) # {}
<1>1. Len(s) \in Nat /\ DOMAIN s = 1..Len(s) /\ s \in Seq(Range(s))
  BY LenProperties DEF IsStorage
<1>2. s # <<>> <=> Len(s) > 0
  BY <1>1, EmptySeq
<1>3. Len(s) > 0 => 1 \in 1..Len(s)
  BY <1>1
<1> QED BY <1>1, <1>2, <1>3 DEF Ticks, IsStorage

\* Add.
LEMMA AddIs ==
  ASSUME NEW s, IsStorage(s), NEW x, x.tick \in Nat
  PROVE  LET a == Append(s, x) IN
         /\ IsStorage(a) /\ Len(a) = Len(s) + 1 /\ a[Len(s) + 1] = x
         /\ \A i \in 1..Len(s) : a[i] = s[i]
         /\ Ticks(a) = Ticks(s) \cup {x.tick}
         /\ a # <<>> /\ Head(a) = a[1]
<1> DEFINE a == Append(s, x)
           R == Range(s) \cup {x}
<1>1. Len(s) \in Nat /\ s \in Seq(R) /\ x \in R
  BY StorageIs, SeqMonotonic
<1>2. /\ a \in Seq(R) /\ Len(a) = Len(s) + 1 /\ a[Len(s) + 1] = x
      /\ \A i \in 1..Len(s) : a[i] = s[i]
  <2> HIDE DEF R
  <2> QED BY <1>1, AppendProperties
<1> HIDE DEF a
<1>3. a \in Seq(Range(a))
  BY <1>2, SeqOfRange
<1>4. \A i \in 1..Len(s) + 1 : i \in 1..Len(s) \/ i = Len(s) + 1
  BY <1>1
<1>5. IsStorage(a)
  BY <1>2, <1>3, <1>4 DEF IsStorage
<1>6. Ticks(a) = Ticks(s) \cup {x.tick}
  <2>1. \A i \in 1..Len(s) : i \in 1..Len(s) + 1
    BY <1>1
  <2>2. Len(s) + 1 \in 1..Len(s) + 1
    BY <1>1
  <2> QED BY <1>2, <1>4, <2>1, <2>2 DEF Ticks
<1>7. a # <<>> /\ Head(a) = a[1]
  BY <1>1, <1>2, EmptySeq, HeadTailProperties
<1> QED BY <1>2, <1>5, <1>6, <1>7 DEF a

\* PurgeUntil drops older snapshots, and no others.
LEMMA PurgeIs ==
  ASSUME NEW s, IsStorage(s), NEW tick \in Int
  PROVE  LET p == PurgeUntil(s, tick) IN
         /\ IsStorage(p) /\ Ticks(p) \subseteq Ticks(s)
         /\ \A i \in 1..Len(p) : \E j \in 1..Len(s) : p[i] = s[j]
         /\ \A t \in Ticks(s) : t >= tick => t \in Ticks(p)
<1> DEFINE older == {n \in 0..Len(s) : \A i \in 1..n : s[i].tick < tick}
           k == Max(older)
           p == PurgeUntil(s, tick)
           l == Len(s)
<1>1. l \in Nat /\ s \in Seq(Range(s)) /\ \A i \in 1..l : s[i].tick \in Nat
  BY StorageIs DEF IsStorage
<1>2. k \in 0..l /\ \A i \in 1..k : s[i].tick < tick
  <2>1. older \subseteq 0..l /\ 0 \in older
    BY <1>1
  <2>2. k \in older
    <3> HIDE DEF older
    <3> QED BY <1>1, <2>1, MaxIs
  <2> QED BY <2>2
<1>3. p = SubSeq(s, k + 1, l)
  BY DEF PurgeUntil
<1> HIDE DEF k, p, l
<1>4. /\ p \in Seq(Range(s)) /\ Len(p) = l - k
      /\ \A i \in 1..l - k : p[i] = s[k + i]
  <2>1. \A i \in k + 1..l : s[i] \in Range(s)
    BY <1>1, <1>2, LenProperties DEF Range, l
  <2>2. k + 1 \in Int /\ l \in Int
    BY <1>1, <1>2
  <2>3. /\ SubSeq(s, k + 1, l) \in Seq(Range(s))
        /\ Len(SubSeq(s, k + 1, l)) = IF k + 1 <= l THEN l - (k + 1) + 1 ELSE 0
        /\ \A i \in 1..l - (k + 1) + 1 : SubSeq(s, k + 1, l)[i] = s[(k + 1) + i - 1]
    BY <2>1, <2>2, SubSeqProperties
  <2>4. /\ (IF k + 1 <= l THEN l - (k + 1) + 1 ELSE 0) = l - k
        /\ \A i \in 1..l - k : i \in 1..l - (k + 1) + 1 /\ (k + 1) + i - 1 = k + i
    BY <1>1, <1>2
  <2> QED BY <1>3, <2>3, <2>4
<1>5. \A i \in 1..l - k : k + i \in 1..l
  BY <1>1, <1>2
<1>6. IsStorage(p)
  <2>1. p \in Seq(Range(p))
    BY <1>4, SeqOfRange
  <2> QED BY <1>1, <1>4, <1>5, <2>1 DEF IsStorage
<1>7. ASSUME NEW j \in 1..l, s[j].tick >= tick PROVE s[j].tick \in Ticks(p)
  <2>1. j - k \in 1..l - k /\ k + (j - k) = j
    <3>1. ~(s[j].tick < tick)
      BY <1>1, <1>7
    <3>2. ~(j \in 1..k)
      BY <1>2, <3>1
    <3> QED BY <1>1, <1>2, <3>2
  <2>2. PICK i \in 1..Len(p) : p[i] = s[j]
    BY <1>4, <2>1
  <2>3. p[i].tick \in Ticks(p)
    BY DEF Ticks
  <2> QED BY <2>2, <2>3
<1>8. \A i \in 1..Len(p) : \E j \in 1..l : p[i] = s[j]
  BY <1>4, <1>5
<1>9. Ticks(p) \subseteq Ticks(s)
  BY <1>8 DEF Ticks, l
<1>10. \A t \in Ticks(s) : t >= tick => t \in Ticks(p)
  <2>1. \A t \in Ticks(s) : \E j \in 1..l : t = s[j].tick
    BY DEF Ticks, l
  <2> QED BY <1>7, <2>1
<1> QED BY <1>6, <1>8, <1>9, <1>10 DEF p, l

\* Get.
LEMMA GetIs ==
  ASSUME NEW s, IsStorage(s), NEW t
  PROVE  /\ t \in Ticks(s) => \E i \in 1..Len(s) : s[i].tick = t /\ Get(s, t) = s[i].world
         /\ t \notin Ticks(s) => Get(s, t) = <<>>
<1>1. CASE t \in Ticks(s)
  <2> DEFINE i == CHOOSE j \in 1..Len(s) : s[j].tick = t
  <2>1. \E j \in 1..Len(s) : s[j].tick = t
    BY <1>1 DEF Ticks
  <2>2. i \in 1..Len(s) /\ s[i].tick = t
    BY <2>1
  <2>3. Get(s, t) = s[i].world
    BY <1>1 DEF Get
  <2> HIDE DEF i
  <2> QED BY <1>1, <2>2, <2>3
<1>2. CASE t \notin Ticks(s)
  BY <1>2 DEF Get
<1> QED BY <1>1, <1>2

-----------------------------------------------------------------------------
(* The invariant.                                                          *)

\* Nothing was sent yet.
LEMMA InitInv == Init => IInv
<1> SUFFICES ASSUME Init PROVE IInv
  OBVIOUS
<1>1. <<>> \in Seq(Range(<<>>)) /\ Len(<<>>) = 0
  BY EmptySeq
<1>2. 1..0 = {}
  OBVIOUS
<1>3. IsStorage(<<>>) /\ Ticks(<<>>) = {}
  BY <1>1, <1>2 DEF IsStorage, Ticks
<1>4. 0 \in 0..MaxTick
  BY SizesAssumption
<1> QED BY <1>1, <1>2, <1>3, <1>4 DEF Init, IInv, TypeOK, Acked, SentTicks, StoredTicks, Shown,
             ShownAreStored, BaseWasReceived, AckedIsStored, Deltas

\* In the next tick nothing was sent yet.
LEMMA TickInv == ASSUME IInv, Tick PROVE IInv'
<1> USE DEF IInv
<1>1. /\ m_CurrentGameTick' = m_CurrentGameTick + 1 /\ m_CurrentGameTick < MaxTick
      /\ UNCHANGED <<m_Snapshots, m_LastAckedSnapshot, snaps, inputs, m_aCurrentRecvTick,
                     m_aSnapshotStorage, m_aAckGameTick, m_aReceivedSnapshots, m_Prev,
                     m_Current, had>>
  BY DEF Tick, recvVars, clientVars
<1>2. m_CurrentGameTick + 1 \in 0..MaxTick /\ m_CurrentGameTick \in Nat
  BY <1>1, SizesAssumption DEF TypeOK
<1>3. ASSUME NEW m \in snaps
      PROVE  m.tick <= m_CurrentGameTick + 1 /\ m.tick # m_CurrentGameTick + 1
  BY <1>2 DEF SentTicks, TypeOK
<1>4. TypeOK'
  BY <1>1, <1>2 DEF TypeOK
<1>5. SentTicks'
  BY <1>1, <1>3 DEF SentTicks
<1> QED BY <1>1, <1>4, <1>5 DEF Acked, StoredTicks, Shown, ShownAreStored, BaseWasReceived,
                                AckedIsStored, Deltas

\* The server sends a delta against the snapshot acknowledged last.
LEMMA DoSnapshotInv == ASSUME IInv, DoSnapshot PROVE IInv'
<1> DEFINE tick == m_CurrentGameTick
           world == World(tick)
           purged == PurgeUntil(m_Snapshots, tick - KeepTicks)
           storage == Append(purged, [tick |-> tick, world |-> world])
           base == Base(storage)
           delta == CreateDelta(Get(storage, base), world)
<1>0. /\ TypeOK /\ Acked /\ SentTicks /\ StoredTicks /\ Shown /\ ShownAreStored
      /\ BaseWasReceived /\ AckedIsStored /\ Deltas
  BY DEF IInv
<1>1. /\ tick > 0 /\ tick \notin Ticks(m_Snapshots) /\ m_Snapshots' = storage
      /\ UNCHANGED <<m_CurrentGameTick, m_LastAckedSnapshot, inputs, m_aCurrentRecvTick,
                     m_aSnapshotStorage, m_aAckGameTick, m_aReceivedSnapshots, m_Prev,
                     m_Current, had>>
  BY DEF DoSnapshot, recvVars, clientVars
<1>2. \E N : snaps' = snaps \cup
        {[tick |-> tick, base |-> base, numParts |-> N, part |-> n,
          empty |-> (delta = EmptyDelta), delta |-> delta, crc |-> Crc(world)] : n \in 1..N}
  BY DEF DoSnapshot
<1>3. \A m \in snaps' : \/ m \in snaps
                        \/ /\ m.tick = tick /\ m.base = base /\ m.delta = delta
                           /\ m.empty = (delta = EmptyDelta) /\ m.crc = Crc(world)
  BY <1>2
<1>4. snaps \subseteq snaps'
  BY <1>2
<1> HIDE DEF tick, world, purged, storage, base, delta
<1>5. tick \in 1..MaxTick /\ tick - KeepTicks \in Int /\ IsStorage(m_Snapshots)
  BY <1>0, <1>1, SizesAssumption DEF TypeOK, tick
<1>6. /\ IsStorage(purged) /\ Ticks(purged) \subseteq Ticks(m_Snapshots)
      /\ \A i \in 1..Len(purged) : \E j \in 1..Len(m_Snapshots) : purged[i] = m_Snapshots[j]
  BY <1>5, PurgeIs DEF purged
<1>7. /\ IsStorage(storage) /\ Ticks(storage) = Ticks(purged) \cup {tick}
      /\ Len(storage) = Len(purged) + 1 /\ Len(purged) \in Nat
      /\ storage[Len(purged) + 1] = [tick |-> tick, world |-> world]
      /\ \A i \in 1..Len(purged) : storage[i] = purged[i]
  <2> DEFINE x == [tick |-> tick, world |-> world]
  <2>1. x.tick = tick /\ tick \in Nat
    BY <1>5
  <2> HIDE DEF x
  <2> QED BY <1>6, <2>1, AddIs, StorageIs DEF storage, x
<1>8. \A i \in 1..Len(storage) : storage[i].world = World(storage[i].tick)
  <2>1. SUFFICES ASSUME NEW i \in 1..Len(storage)
                 PROVE  storage[i].world = World(storage[i].tick)
    OBVIOUS
  <2>2. CASE i = Len(purged) + 1
    BY <1>7, <2>2 DEF world
  <2>3. CASE i \in 1..Len(purged)
    BY <1>0, <1>6, <1>7, <2>3 DEF Deltas
  <2> QED BY <1>7, <2>2, <2>3
<1>9. \A m \in snaps : m.tick # tick
  BY <1>0, <1>1 DEF SentTicks, tick
<1>10. base \in (had \ {tick}) \cup {-1}
  BY <1>0, <1>9 DEF Base, Acked, base
<1>11. base < tick /\ base \in 1..MaxTick \cup {-1}
  <2>1. CASE base = -1
    BY <1>5, <2>1
  <2>2. CASE base \in had
    <3>1. PICK m \in snaps : m.tick = base
      BY <1>0, <2>2 DEF Acked
    <3>2. base <= tick /\ base # tick /\ base \in 1..MaxTick
      BY <1>0, <1>9, <2>2, <3>1 DEF SentTicks, TypeOK, tick
    <3> QED BY <1>5, <3>2
  <2> QED BY <1>10, <2>1, <2>2
<1>12. Get(storage, base) = WorldOf(base)
  <2>1. CASE base = -1
    <3>1. base \notin Ticks(storage)
      BY <1>7, <2>1, StorageIs
    <3> QED BY <1>7, <2>1, <3>1, GetIs DEF WorldOf
  <2>2. CASE base # -1
    <3>1. base \in Ticks(storage)
      BY <2>2 DEF Base, base
    <3>2. PICK i \in 1..Len(storage) :
            storage[i].tick = base /\ Get(storage, base) = storage[i].world
      BY <1>7, <3>1, GetIs
    <3> QED BY <1>8, <2>2, <3>2 DEF WorldOf
  <2> QED BY <2>1, <2>2
<1>13. TypeOK'
  <2>1. IsStorage(m_Snapshots)' /\ IsStorage(m_aSnapshotStorage)'
    BY <1>0, <1>1, <1>7 DEF TypeOK, IsStorage
  <2>2. \A m \in snaps' : m.tick \in 1..MaxTick /\ m.base \in 1..MaxTick \cup {-1}
    BY <1>0, <1>3, <1>5, <1>11 DEF TypeOK
  <2> QED BY <1>0, <1>1, <2>1, <2>2 DEF TypeOK
<1>14. Acked'
  BY <1>0, <1>1, <1>4 DEF Acked
<1>15. SentTicks'
  <2>1. SUFFICES ASSUME NEW m \in snaps'
                 PROVE  /\ m.base < m.tick /\ m.tick <= tick
                        /\ m.tick = tick => m.tick \in Ticks(storage)
    BY <1>1 DEF SentTicks, Ticks, tick
  <2>2. CASE m \in snaps
    BY <1>0, <1>9, <2>2 DEF SentTicks, tick
  <2>3. CASE m.tick = tick /\ m.base = base
    BY <1>5, <1>7, <1>11, <2>3
  <2> QED BY <1>3, <2>2, <2>3
<1>16. BaseWasReceived'
  BY <1>0, <1>1, <1>3, <1>10 DEF BaseWasReceived
<1>17. Deltas'
  <2>1. \A m \in snaps' : /\ m.delta = CreateDelta(WorldOf(m.base), World(m.tick))
                          /\ m.empty <=> m.delta = EmptyDelta
                          /\ m.crc = Crc(World(m.tick))
    <3>1. SUFFICES ASSUME NEW m \in snaps', m \notin snaps
                   PROVE  /\ m.delta = CreateDelta(WorldOf(m.base), World(m.tick))
                          /\ m.empty <=> m.delta = EmptyDelta
                          /\ m.crc = Crc(World(m.tick))
      BY <1>0 DEF Deltas
    <3> QED BY <1>3, <1>12, <3>1 DEF delta, world
  <2> QED BY <1>1, <1>8, <2>1 DEF Deltas
<1>18. StoredTicks' /\ Shown' /\ ShownAreStored' /\ AckedIsStored'
  BY <1>0, <1>1 DEF StoredTicks, Shown, ShownAreStored, AckedIsStored, Ticks
<1> QED BY <1>13, <1>14, <1>15, <1>16, <1>17, <1>18 DEF IInv

\* The server takes an acknowledgement.
LEMMA RecvInputInv == ASSUME IInv, NEW ack \in inputs, RecvInput(ack) PROVE IInv'
<1> USE DEF IInv
<1>1. /\ m_LastAckedSnapshot' = ack
      /\ UNCHANGED <<m_CurrentGameTick, m_Snapshots, snaps, inputs, m_aCurrentRecvTick,
                     m_aSnapshotStorage, m_aAckGameTick, m_aReceivedSnapshots, m_Prev,
                     m_Current, had>>
  BY DEF RecvInput, recvVars, clientVars
<1> QED BY <1>1 DEF TypeOK, IsStorage, Acked, SentTicks, StoredTicks, Shown, ShownAreStored,
                    BaseWasReceived, AckedIsStored, Deltas, Ticks

\* The client sends one.
LEMMA SendInputInv == ASSUME IInv, SendInput PROVE IInv'
<1> USE DEF IInv
<1>1. /\ inputs' = inputs \cup {m_aAckGameTick}
      /\ UNCHANGED <<m_CurrentGameTick, m_Snapshots, m_LastAckedSnapshot, snaps,
                     m_aCurrentRecvTick, m_aSnapshotStorage, m_aAckGameTick,
                     m_aReceivedSnapshots, m_Prev, m_Current, had>>
  BY DEF SendInput, serverVars, recvVars, clientVars
<1> QED BY <1>1 DEF TypeOK, IsStorage, Acked, SentTicks, StoredTicks, Shown, ShownAreStored,
                    BaseWasReceived, AckedIsStored, Deltas, Ticks

\* A message that is taken is of a later tick than all that is stored.
LEMMA TakesIs ==
  ASSUME IInv, NEW m \in snaps, Takes(m)
  PROVE  /\ m.tick \in Nat /\ m.tick \in 1..MaxTick
         /\ \A t \in Ticks(m_aSnapshotStorage) : t < m.tick
<1>1. TypeOK /\ Acked /\ StoredTicks
  BY DEF IInv
<1>2. m.tick \in 1..MaxTick /\ m.tick \in Nat /\ m_aCurrentRecvTick \in Nat
  BY <1>1, SizesAssumption DEF TypeOK
<1>3. m_aAckGameTick \in Nat \cup {-1}
  BY <1>1, SizesAssumption DEF TypeOK, Acked
<1>4. m.tick >= m_aCurrentRecvTick /\ m.tick > m_aAckGameTick
  BY DEF Takes
<1>5. ASSUME NEW t \in Ticks(m_aSnapshotStorage) PROVE t < m.tick
  <2>1. t \in Nat
    BY <1>1, StorageIs DEF TypeOK
  <2>2. t <= m_aCurrentRecvTick /\ (t = m_aCurrentRecvTick => m_aAckGameTick = t)
    BY <1>1 DEF StoredTicks
  <2> QED BY <1>2, <1>3, <1>4, <2>1, <2>2
<1> QED BY <1>2, <1>5

\* What the client goes on with when it stores nothing: it asks for a resync, or does
\* not.
LEMMA NothingStored ==
  ASSUME IInv, NEW m \in snaps, Takes(m),
         m_aCurrentRecvTick' = m.tick,
         m_aAckGameTick' \in {m_aAckGameTick, -1},
         inputs' \subseteq inputs \cup {-1},
         UNCHANGED <<m_CurrentGameTick, m_Snapshots, m_LastAckedSnapshot, snaps,
                     m_aSnapshotStorage, m_aReceivedSnapshots, m_Prev, m_Current, had>>
  PROVE  IInv'
<1> USE DEF IInv
<1>1. \A t \in Ticks(m_aSnapshotStorage) : t < m.tick
  BY TakesIs
<1>2. m.tick \in Nat
  BY TakesIs
<1>3. Ticks(m_aSnapshotStorage) \subseteq Nat
  BY StorageIs DEF TypeOK
<1>4. \A t \in Ticks(m_aSnapshotStorage) : t <= m.tick /\ t # m.tick
  BY <1>1, <1>2, <1>3
<1>5. StoredTicks'
  BY <1>4 DEF StoredTicks, Ticks
<1>6. AckedIsStored'
  BY DEF AckedIsStored, Ticks
<1>7. TypeOK'
  BY <1>2 DEF TypeOK, IsStorage
<1>8. Acked'
  BY DEF Acked
<1> QED BY <1>5, <1>6, <1>7, <1>8 DEF SentTicks, Shown, ShownAreStored, BaseWasReceived, Deltas, Ticks

\* A part that does not complete the snapshot.
LEMMA RecvPartInv == ASSUME IInv, NEW m \in snaps, RecvPart(m) PROVE IInv'
<1>1. /\ Takes(m) /\ m_aCurrentRecvTick' = m.tick
      /\ UNCHANGED <<m_CurrentGameTick, m_Snapshots, m_LastAckedSnapshot, snaps, inputs,
                     m_aSnapshotStorage, m_aAckGameTick, m_aReceivedSnapshots, m_Prev,
                     m_Current, had>>
  BY DEF RecvPart, serverVars, clientVars
<1> QED BY <1>1, NothingStored

\* A delta of which the base is not stored.
LEMMA RecvWithoutBaseInv == ASSUME IInv, NEW m \in snaps, RecvWithoutBase(m) PROVE IInv'
<1>1. /\ Takes(m) /\ m_aCurrentRecvTick' = m.tick
      /\ m_aAckGameTick' = -1 /\ inputs' = inputs \cup {-1}
      /\ UNCHANGED <<m_CurrentGameTick, m_Snapshots, m_LastAckedSnapshot, snaps,
                     m_aSnapshotStorage, m_aReceivedSnapshots, m_Prev, m_Current, had>>
  BY DEF RecvWithoutBase, Completes, serverVars
<1> QED BY <1>1, NothingStored

\* A snapshot that is refused.
LEMMA RecvCrcErrorInv == ASSUME IInv, NEW m \in snaps, RecvCrcError(m) PROVE IInv'
<1>1. /\ Takes(m) /\ m_aCurrentRecvTick' = m.tick
      /\ m_aAckGameTick' \in {m_aAckGameTick, -1} /\ inputs' \subseteq inputs \cup {-1}
      /\ UNCHANGED <<m_CurrentGameTick, m_Snapshots, m_LastAckedSnapshot, snaps,
                     m_aSnapshotStorage, m_aReceivedSnapshots, m_Prev, m_Current, had>>
  BY DEF RecvCrcError, Completes, serverVars
<1> QED BY <1>1, NothingStored

\* The next snapshot is shown.
LEMMA SwitchInv == ASSUME IInv, Switch PROVE IInv'
<1> DEFINE later == {t \in Ticks(m_aSnapshotStorage) : t > m_Current}
<1> USE DEF IInv
<1>1. /\ m_aReceivedSnapshots >= 3 /\ later # {}
      /\ m_Prev' = m_Current /\ m_Current' = Min(later)
      /\ UNCHANGED <<m_CurrentGameTick, m_Snapshots, m_LastAckedSnapshot, snaps, inputs,
                     m_aCurrentRecvTick, m_aSnapshotStorage, m_aAckGameTick,
                     m_aReceivedSnapshots, had>>
  BY DEF Switch, serverVars, recvVars
<1>2. m_Current # -1 /\ m_Prev # -1 /\ m_Current \in Nat
  BY <1>1 DEF Shown, ShownAreStored, TypeOK
<1>3. Ticks(m_aSnapshotStorage) \subseteq Nat
  BY StorageIs DEF TypeOK
<1>4. later \subseteq Nat
  BY <1>3
<1>5. Min(later) \in later
  <2> HIDE DEF later
  <2> QED BY <1>1, <1>4, MinIs
<1>6. PICK n \in Nat : n = Min(later)
  BY <1>4, <1>5
<1>7. n \in Ticks(m_aSnapshotStorage) /\ m_Current < n
  BY <1>2, <1>5, <1>6
<1>8. n # -1
  OBVIOUS
<1>9. m_Current' = n
  BY <1>1, <1>6
<1> HIDE DEF later
<1>10. ShownAreStored'
  BY <1>1, <1>2, <1>7, <1>8, <1>9 DEF ShownAreStored, Ticks
<1>11. Shown'
  BY <1>1, <1>2, <1>8, <1>9 DEF Shown
<1>12. TypeOK'
  BY <1>1, <1>2, <1>9 DEF TypeOK, IsStorage
<1> QED BY <1>1, <1>10, <1>11, <1>12 DEF Acked, SentTicks, StoredTicks, BaseWasReceived,
                    AckedIsStored, Deltas, Ticks

\* What the storage is after a snapshot was stored.
LEMMA StoredIs ==
  ASSUME IInv, NEW m \in snaps, RecvSnapshot(m)
  PROVE  LET purged == PurgeUntil(m_aSnapshotStorage, PurgeTick(m))
             s == m_aSnapshotStorage'
         IN /\ IsStorage(purged) /\ IsStorage(s)
            /\ Len(purged) \in Nat /\ Len(s) = Len(purged) + 1
            /\ s[Len(purged) + 1] = [tick |-> m.tick, world |-> Unpacked(m)]
            /\ \A i \in 1..Len(purged) : s[i] = purged[i]
            /\ \A i \in 1..Len(purged) :
                 \E j \in 1..Len(m_aSnapshotStorage) : purged[i] = m_aSnapshotStorage[j]
            /\ s # <<>> /\ Head(s) = s[1]
            /\ Ticks(purged) \subseteq Ticks(m_aSnapshotStorage)
            /\ Ticks(s) = Ticks(purged) \cup {m.tick}
            /\ \A t \in {m_Prev, m_Current} :
                 t \in Ticks(m_aSnapshotStorage) => t \in Ticks(purged)
            /\ m_aSnapshotStorage # <<>> => purged # <<>>
<1> DEFINE tick == PurgeTick(m)
           purged == PurgeUntil(m_aSnapshotStorage, tick)
           x == [tick |-> m.tick, world |-> Unpacked(m)]
<1>1. TypeOK /\ m.base \in Nat \cup {-1}
  BY SizesAssumption DEF IInv, TypeOK
<1>2. Takes(m) /\ m_aSnapshotStorage' = Append(purged, x)
  BY DEF RecvSnapshot, Completes
<1>3. m.tick \in Nat
  BY <1>2, TakesIs
<1>4. /\ tick \in Int /\ m.base >= tick
      /\ \A t \in {m_Prev, m_Current} \ {-1} : t >= tick /\ t \in Nat
  <2> DEFINE S == {m.base} \cup ({m_Prev, m_Current} \ {-1})
  <2>1. S \subseteq Nat \cup {-1} /\ S # {}
    BY <1>1 DEF TypeOK
  <2>2. Min(S) \in S /\ \A y \in S : Min(S) <= y
    <3> HIDE DEF S
    <3> QED BY <2>1, MinIs
  <2>3. tick = Min(S)
    BY DEF PurgeTick
  <2>4. \A t \in {m_Prev, m_Current} \ {-1} : t \in S /\ t \in Nat
    BY <1>1 DEF TypeOK
  <2>5. m.base \in S
    OBVIOUS
  <2> HIDE DEF S, tick
  <2>6. tick \in Nat \cup {-1}
    BY <2>1, <2>2, <2>3
  <2>7. \A y \in S : y >= tick
    <3>1. SUFFICES ASSUME NEW y \in S PROVE y >= tick
      OBVIOUS
    <3>2. y \in Nat \cup {-1} /\ tick <= y
      BY <2>1, <2>2, <2>3
    <3> QED BY <2>6, <3>2
  <2> QED BY <2>4, <2>5, <2>6, <2>7
<1>5. IsStorage(m_aSnapshotStorage)
  BY <1>1 DEF TypeOK
<1> HIDE DEF tick
<1>6. /\ IsStorage(purged) /\ Ticks(purged) \subseteq Ticks(m_aSnapshotStorage)
      /\ \A i \in 1..Len(purged) :
           \E j \in 1..Len(m_aSnapshotStorage) : purged[i] = m_aSnapshotStorage[j]
      /\ \A t \in Ticks(m_aSnapshotStorage) : t >= tick => t \in Ticks(purged)
  BY <1>4, <1>5, PurgeIs
<1> HIDE DEF purged
<1>7. x.tick = m.tick
  OBVIOUS
<1> HIDE DEF x
<1>8. LET a == Append(purged, x) IN
         /\ IsStorage(a) /\ Len(a) = Len(purged) + 1 /\ a[Len(purged) + 1] = x
         /\ \A i \in 1..Len(purged) : a[i] = purged[i]
         /\ Ticks(a) = Ticks(purged) \cup {m.tick}
         /\ a # <<>> /\ Head(a) = a[1]
  BY <1>3, <1>6, <1>7, AddIs
<1>9. Len(purged) \in Nat
  BY <1>6, StorageIs
<1>10. \A t \in {m_Prev, m_Current} :
         t \in Ticks(m_aSnapshotStorage) => t \in Ticks(purged)
  <2>1. Ticks(m_aSnapshotStorage) \subseteq Nat
    BY <1>5, StorageIs
  <2> QED BY <1>4, <1>6, <2>1
<1>12. m_aSnapshotStorage # <<>> => purged # <<>>
  <2>1. SUFFICES ASSUME m_aSnapshotStorage # <<>> PROVE purged # <<>>
    OBVIOUS
  <2>2. Ticks(m_aSnapshotStorage) # {} /\ Ticks(m_aSnapshotStorage) \subseteq Nat
    BY <1>5, <2>1, StorageIs
  <2>3. PICK t \in Ticks(m_aSnapshotStorage) : m.base >= 0 => t = m.base
    BY <2>2 DEF RecvSnapshot, BaseIsStored
  <2>4. t \in Nat
    BY <2>2
  <2>5. t >= tick
    <3>1. CASE m.base >= 0
      BY <1>4, <2>3, <3>1
    <3>2. CASE m.base = -1
      BY <1>4, <2>4, <3>2
    <3> QED BY <1>1, <3>1, <3>2
  <2>6. t \in Ticks(purged)
    BY <1>6, <2>5
  <2> QED BY <1>6, <2>6, StorageIs
<1> DEFINE s == m_aSnapshotStorage'
<1>11. /\ IsStorage(s) /\ Len(s) = Len(purged) + 1 /\ s[Len(purged) + 1] = x
       /\ \A i \in 1..Len(purged) : s[i] = purged[i]
       /\ Ticks(s) = Ticks(purged) \cup {m.tick}
       /\ s # <<>> /\ Head(s) = s[1]
  BY <1>2, <1>8
<1> HIDE DEF s
<1> QED BY <1>6, <1>9, <1>10, <1>11, <1>12 DEF s, x, tick, purged

\* The client stores a snapshot, acknowledges it and shows it if it is the second.
LEMMA RecvSnapshotInv == ASSUME IInv, NEW m \in snaps, RecvSnapshot(m) PROVE IInv'
<1> DEFINE purged == PurgeUntil(m_aSnapshotStorage, PurgeTick(m))
           s == m_aSnapshotStorage'
<1>0. /\ TypeOK /\ Acked /\ SentTicks /\ StoredTicks /\ Shown /\ ShownAreStored
      /\ BaseWasReceived /\ AckedIsStored /\ Deltas
  BY DEF IInv
<1>1. /\ m_aReceivedSnapshots' = Min({m_aReceivedSnapshots + 1, 3})
      /\ m_Prev' = IF m_aReceivedSnapshots = 1 THEN Head(s).tick ELSE m_Prev
      /\ m_Current' = IF m_aReceivedSnapshots = 1 THEN m.tick ELSE m_Current
      /\ m_aAckGameTick' = m.tick /\ had' = had \cup {m.tick}
      /\ m_aCurrentRecvTick' = m.tick /\ Takes(m)
      /\ UNCHANGED <<m_CurrentGameTick, m_Snapshots, m_LastAckedSnapshot, snaps, inputs>>
  BY DEF RecvSnapshot, Completes, serverVars
<1>2. /\ IsStorage(purged) /\ IsStorage(s) /\ Len(purged) \in Nat
      /\ \A i \in 1..Len(purged) : s[i] = purged[i]
      /\ s # <<>> /\ Head(s) = s[1]
      /\ Ticks(purged) \subseteq Ticks(m_aSnapshotStorage)
      /\ Ticks(s) = Ticks(purged) \cup {m.tick}
      /\ \A t \in {m_Prev, m_Current} :
           t \in Ticks(m_aSnapshotStorage) => t \in Ticks(purged)
      /\ m_aSnapshotStorage # <<>> => purged # <<>>
  BY StoredIs
<1> HIDE DEF purged, s
<1>3. /\ m.tick \in Nat /\ m.tick \in 1..MaxTick
      /\ \A t \in Ticks(m_aSnapshotStorage) : t < m.tick
  BY <1>1, TakesIs
<1>4. /\ m_aReceivedSnapshots \in 0..3 /\ m_aReceivedSnapshots' \in 1..3
      /\ m_aReceivedSnapshots = 0 <=> m_aReceivedSnapshots' = 1
  <2>1. m_aReceivedSnapshots \in 0..3
    BY <1>0 DEF TypeOK
  <2>2. PICK k \in 0..3 : k = m_aReceivedSnapshots
    BY <2>1
  <2> DEFINE S == {k + 1, 3}
  <2>3. S \subseteq Nat \cup {-1} /\ S # {}
    OBVIOUS
  <2>4. Min(S) \in S /\ \A y \in S : Min(S) <= y
    <3> HIDE DEF S
    <3> QED BY <2>3, MinIs
  <2>5. Min(S) \in 1..3 /\ (k = 0 <=> Min(S) = 1)
    BY <2>4
  <2> QED BY <1>1, <2>2, <2>5
<1>5. m_aReceivedSnapshots = 1 => /\ Head(s).tick \in Ticks(s)
                                  /\ Head(s).tick \in Nat /\ Head(s).tick < m.tick
  <2>1. SUFFICES ASSUME m_aReceivedSnapshots = 1
                 PROVE  /\ Head(s).tick \in Ticks(s)
                        /\ Head(s).tick \in Nat /\ Head(s).tick < m.tick
    OBVIOUS
  <2>2. m_aSnapshotStorage # <<>> /\ IsStorage(m_aSnapshotStorage)
    BY <1>0, <2>1 DEF Shown, TypeOK
  <2>3. purged # <<>>
    BY <1>2, <2>2
  <2>4. Len(purged) > 0
    BY <1>2, <2>3, StorageIs
  <2>5. 1 \in 1..Len(purged)
    BY <1>2, <2>4
  <2>6. purged[1].tick \in Ticks(purged) /\ s[1] = purged[1]
    BY <1>2, <2>5, StorageIs
  <2>7. Ticks(m_aSnapshotStorage) \subseteq Nat
    BY <2>2, StorageIs
  <2> QED BY <1>2, <1>3, <2>6, <2>7
<1>6. TypeOK'
  <2>1. m_Prev' \in Nat \cup {-1} /\ m_Current' \in Nat \cup {-1}
    BY <1>0, <1>1, <1>3, <1>5 DEF TypeOK
  <2>2. IsStorage(m_Snapshots)' /\ IsStorage(m_aSnapshotStorage)'
    BY <1>0, <1>1, <1>2 DEF TypeOK, IsStorage, s
  <2>3. m_aReceivedSnapshots' \in 0..3
    BY <1>4
  <2> QED BY <1>0, <1>1, <1>3, <2>1, <2>2, <2>3 DEF TypeOK
<1>7. Acked'
  BY <1>0, <1>1 DEF Acked
<1>8. SentTicks' /\ BaseWasReceived' /\ Deltas'
  BY <1>0, <1>1 DEF SentTicks, BaseWasReceived, Deltas, Ticks
<1>9. Ticks(m_aSnapshotStorage)' = Ticks(s)
  BY DEF Ticks, s
<1>10. \A t \in Ticks(s) : t \in Nat /\ (t = m.tick \/ t < m.tick)
  <2>1. Ticks(m_aSnapshotStorage) \subseteq Nat
    BY <1>0, StorageIs DEF TypeOK
  <2> QED BY <1>2, <1>3, <2>1
<1>11. StoredTicks'
  <2>1. ASSUME NEW t \in Ticks(s) PROVE t <= m.tick /\ (t = m.tick => m.tick = t)
    BY <1>3, <1>10
  <2> QED BY <1>1, <1>9, <2>1 DEF StoredTicks
<1>12. AckedIsStored'
  BY <1>1, <1>2, <1>9 DEF AckedIsStored
<1>13. m.tick # -1
  BY <1>3
<1>14. Shown'
  <2>1. m_aSnapshotStorage' # <<>>
    BY <1>2 DEF s
  <2>2. m_aReceivedSnapshots' > 0
    BY <1>4
  <2>3. m_aReceivedSnapshots' > 1 <=> m_aReceivedSnapshots > 0
    BY <1>4
  <2>4. m_Current' # -1 <=> m_aReceivedSnapshots > 0
    <3>1. CASE m_aReceivedSnapshots = 1
      BY <1>1, <1>13, <3>1
    <3>2. CASE m_aReceivedSnapshots # 1
      BY <1>0, <1>1, <1>4, <3>2 DEF Shown
    <3> QED BY <3>1, <3>2
  <2> QED BY <2>1, <2>2, <2>3, <2>4 DEF Shown
<1>15. ShownAreStored'
  <2>1. CASE m_aReceivedSnapshots = 1
    <3>1. PICK h \in Nat : h = Head(s).tick /\ h \in Ticks(s) /\ h < m.tick
      BY <1>5, <2>1
    <3>2. m_Prev' = h /\ m_Current' = m.tick
      BY <1>1, <2>1, <3>1
    <3>3. h # -1 /\ {h, m.tick} \subseteq Ticks(s)
      BY <1>2, <3>1
    <3> QED BY <1>9, <1>13, <3>1, <3>2, <3>3 DEF ShownAreStored
  <2>2. CASE m_aReceivedSnapshots # 1
    <3>1. m_Prev' = m_Prev /\ m_Current' = m_Current
      BY <1>1, <2>2
    <3>2. m_Current # -1 => {m_Prev, m_Current} \subseteq Ticks(s)
      BY <1>0, <1>2 DEF ShownAreStored
    <3> QED BY <1>0, <1>9, <3>1, <3>2 DEF ShownAreStored
  <2> QED BY <2>1, <2>2
<1> QED BY <1>6, <1>7, <1>8, <1>11, <1>12, <1>14, <1>15 DEF IInv

-----------------------------------------------------------------------------
(* The theorems.                                                           *)

\* Every step keeps the invariant.
LEMMA NextInv == IInv /\ [Next]_vars => IInv'
<1> SUFFICES ASSUME IInv, [Next]_vars PROVE IInv'
  OBVIOUS
<1>1. CASE Tick
  BY <1>1, TickInv
<1>2. CASE DoSnapshot
  BY <1>2, DoSnapshotInv
<1>3. ASSUME NEW ack \in inputs, RecvInput(ack) PROVE IInv'
  BY <1>3, RecvInputInv
<1>4. CASE SendInput
  BY <1>4, SendInputInv
<1>5. ASSUME NEW m \in snaps, RecvPart(m) PROVE IInv'
  BY <1>5, RecvPartInv
<1>6. ASSUME NEW m \in snaps, RecvWithoutBase(m) PROVE IInv'
  BY <1>6, RecvWithoutBaseInv
<1>7. ASSUME NEW m \in snaps, RecvCrcError(m) PROVE IInv'
  BY <1>7, RecvCrcErrorInv
<1>8. ASSUME NEW m \in snaps, RecvSnapshot(m) PROVE IInv'
  BY <1>8, RecvSnapshotInv
<1>9. CASE Switch
  BY <1>9, SwitchInv
<1>10. CASE UNCHANGED vars
  <2> USE <1>10 DEF IInv, vars, serverVars, recvVars, clientVars
  <2>1. TypeOK' /\ Deltas'
    BY DEF TypeOK, IsStorage, Deltas
  <2>2. Acked' /\ SentTicks' /\ BaseWasReceived'
    BY DEF Acked, SentTicks, BaseWasReceived, Ticks
  <2>3. StoredTicks' /\ Shown' /\ ShownAreStored' /\ AckedIsStored'
    BY DEF StoredTicks, Shown, ShownAreStored, AckedIsStored, Ticks
  <2> QED BY <2>1, <2>2, <2>3
<1> QED BY <1>1, <1>2, <1>3, <1>4, <1>5, <1>6, <1>7, <1>8, <1>9, <1>10 DEF Next

\* The invariant of every behaviour.
THEOREM Invariance == Spec => []IInv
<1> QED BY InitInv, NextInv, PTL DEF Spec

\* The snapshots on the screen are stored and in order, so that neither the purge of
\* the client nor the next snapshot frees what is shown (CClient::OnRenderGame,
\* CSnapshotStorage::PurgeUntil).
THEOREM ShownAreKept == Spec => []ShownAreStored
<1>1. IInv => ShownAreStored
  BY DEF IInv
<1> QED BY <1>1, Invariance, PTL

\* The server makes a delta only against a snapshot the client has had, whatever was
\* lost or acknowledged late (CServer::DoSnapshot).
THEOREM BasesWereReceived == Spec => []BaseWasReceived
<1>1. IInv => BaseWasReceived
  BY DEF IInv
<1> QED BY <1>1, Invariance, PTL

\* What the client acknowledges it has stored (NETMSG_SNAP in CClient).
THEOREM AckedAreKept == Spec => []AckedIsStored
<1>1. IInv => AckedIsStored
  BY DEF IInv
<1> QED BY <1>1, Invariance, PTL

-----------------------------------------------------------------------------
(* The worlds of the client.                                               *)

\* A stored world has the items of the server's.
Worlds ==
  \A i \in 1..Len(m_aSnapshotStorage) :
    m_aSnapshotStorage[i].world \in Orders(World(m_aSnapshotStorage[i].tick))

\* The order does not matter to the set of items.
LEMMA OrdersIs ==
  ASSUME NEW w, NEW s \in Orders(w)
  PROVE  ToSet(s) = ToSet(w)
<1>1. PICK p \in Surjection(DOMAIN w, DOMAIN w) : s = [i \in DOMAIN w |-> w[p[i]]]
  BY DEF Orders
<1>2. /\ p \in [DOMAIN w -> DOMAIN w]
      /\ \A t \in DOMAIN w : \E i \in DOMAIN w : p[i] = t
  BY <1>1 DEF Surjection
<1> QED BY <1>1, <1>2 DEF ToSet

\* The empty snapshot has but one order.
LEMMA EmptyOrder == <<>> \in Orders(<<>>)
<1>1. <<>> \in Seq({}) /\ Len(<<>>) = 0
  BY EmptySeq
<1>2. DOMAIN <<>> = {}
  BY <1>1, LenProperties
<1> DEFINE p == [i \in {} |-> i]
           s == [i \in {} |-> <<>>[p[i]]]
<1>3. p \in Surjection({}, {})
  BY DEF Surjection
<1>4. s = <<>>
  <2>1. 1..0 = {}
    OBVIOUS
  <2>2. s \in [1..0 -> {}]
    BY <2>1
  <2> HIDE DEF s
  <2>3. s \in Seq({})
    BY <2>2, SeqDef
  <2>4. Len(s) = 0
    BY <2>2, <2>3, LenProperties
  <2> QED BY <2>3, <2>4, EmptySeq
<1>5. s \in Orders(<<>>)
  BY <1>2, <1>3 DEF Orders
<1> QED BY <1>4, <1>5

\* A snapshot that is stored has the items of its tick.
LEMMA RecvSnapshotWorlds ==
  ASSUME DeltasAreSound, IInv, Worlds, NEW m \in snaps, RecvSnapshot(m)
  PROVE  Worlds'
<1> DEFINE st == m_aSnapshotStorage
           s == m_aSnapshotStorage'
           purged == PurgeUntil(st, PurgeTick(m))
           old == Get(st, m.base)
           delta == CreateDelta(WorldOf(m.base), World(m.tick))
<1>1. TypeOK /\ SentTicks /\ Deltas
  BY DEF IInv
<1>2. Takes(m) /\ BaseIsStored(m) /\ CrcMatches(m)
  BY DEF RecvSnapshot, Completes
<1>3. /\ Len(purged) \in Nat /\ Len(s) = Len(purged) + 1
      /\ s[Len(purged) + 1] = [tick |-> m.tick, world |-> Unpacked(m)]
      /\ \A i \in 1..Len(purged) : s[i] = purged[i]
      /\ \A i \in 1..Len(purged) : \E j \in 1..Len(st) : purged[i] = st[j]
  BY StoredIs
<1>4. old \in Orders(WorldOf(m.base))
  <2>1. CASE m.base = -1
    <3>1. m.base \notin Ticks(st)
      BY <1>1, <2>1, StorageIs DEF TypeOK
    <3> QED BY <1>1, <2>1, <3>1, GetIs, EmptyOrder DEF WorldOf, TypeOK
  <2>2. CASE m.base # -1
    <3>1. m.base \in Ticks(st)
      BY <1>1, <1>2, <2>2, SizesAssumption DEF BaseIsStored, TypeOK
    <3>2. PICK i \in 1..Len(st) : st[i].tick = m.base /\ old = st[i].world
      BY <1>1, <3>1, GetIs DEF TypeOK
    <3> QED BY <2>2, <3>2 DEF WorldOf, Worlds
  <2> QED BY <2>1, <2>2
<1>5. m.tick \in 1..MaxTick /\ m.base \in {-1} \cup 1..m.tick - 1
  <2>1. m.tick \in 1..MaxTick /\ m.base \in 1..MaxTick \cup {-1} /\ m.base < m.tick
    BY <1>1 DEF TypeOK, SentTicks
  <2> QED BY <2>1, SizesAssumption
<1>6. m.delta = delta /\ (m.empty <=> delta = EmptyDelta) /\ m.crc = Crc(World(m.tick))
  BY <1>1 DEF Deltas
<1>7. Unpacked(m) = UnpackDelta(old, delta)
  BY <1>6 DEF Unpacked
<1>8. delta = EmptyDelta \/ Crc(UnpackDelta(old, delta)) = Crc(World(m.tick))
  BY <1>2, <1>6, <1>7 DEF CrcMatches
<1>9. Unpacked(m) \in Orders(World(m.tick))
  BY <1>4, <1>5, <1>7, <1>8 DEF DeltasAreSound
<1> HIDE DEF purged
<1>10. ASSUME NEW i \in 1..Len(s) PROVE s[i].world \in Orders(World(s[i].tick))
  <2>1. CASE i = Len(purged) + 1
    BY <1>3, <1>9, <2>1
  <2>2. CASE i \in 1..Len(purged)
    BY <1>3, <2>2 DEF Worlds
  <2> QED BY <1>3, <2>1, <2>2
<1> QED BY <1>10 DEF Worlds

\* Every step keeps the worlds.
LEMMA WorldsInv ==
  ASSUME DeltasAreSound, IInv, Worlds, [Next]_vars
  PROVE  Worlds'
<1>1. CASE m_aSnapshotStorage' = m_aSnapshotStorage
  BY <1>1 DEF Worlds
<1>2. ASSUME NEW m \in snaps, RecvSnapshot(m) PROVE Worlds'
  BY <1>2, RecvSnapshotWorlds
<1>3. \/ m_aSnapshotStorage' = m_aSnapshotStorage
      \/ \E m \in snaps : RecvSnapshot(m)
  BY DEF Next, vars, clientVars, serverVars, recvVars, Tick, DoSnapshot, RecvInput,
         SendInput, RecvPart, RecvWithoutBase, RecvCrcError, Switch
<1> QED BY <1>1, <1>2, <1>3

\* What the client has for a tick is what the server built for it, for any worlds of
\* which the deltas are sound: no loss, delay or repetition makes the client apply a
\* delta to another base than its own (CClient, NETMSG_SNAP; CSnapshotDelta).
THEOREM WorldsAreRight ==
  ASSUME DeltasAreSound
  PROVE  Spec => []SameWorld
<1>1. Init => Worlds
  <2>1. Len(<<>>) = 0
    BY EmptySeq
  <2> QED BY <2>1 DEF Init, Worlds
<1>2. IInv /\ Worlds /\ [Next]_vars => Worlds'
  BY WorldsInv
<1>3. Worlds => SameWorld
  BY OrdersIs DEF Worlds, SameWorld
<1> QED BY <1>1, <1>2, <1>3, Invariance, PTL DEF Spec
=============================================================================
