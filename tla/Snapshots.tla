------------------------------ MODULE Snapshots ------------------------------
(***************************************************************************)
(* Snapshots between the server and a client: CServer::DoSnapshot and the  *)
(* acknowledgement in NETMSG_INPUT (engine/server/server.cpp), the receipt *)
(* of NETMSG_SNAP, NETMSG_SNAPSINGLE and NETMSG_SNAPEMPTY and the change   *)
(* to the next snapshot in Update (engine/client/client.cpp), and          *)
(* CSnapshotStorage on both sides (engine/shared/snapshot.cpp).            *)
(*                                                                         *)
(* Both kinds of message are unreliable: what was sent may arrive at any   *)
(* time, any number of times, or never.  World(tick) is the snapshot the   *)
(* game builds; deltas are those of SnapshotDelta, so one that is applied  *)
(* to another base gives another world, one made with a full hash bucket   *)
(* may do so on its own base, and the checksum does not tell all worlds    *)
(* apart.                                                                  *)
(***************************************************************************)
EXTENDS SnapshotDelta, FiniteSetsExt

CONSTANTS World(_),            \* the snapshot of a tick
          KeepTicks,           \* ticks the server keeps (3 seconds)
          RecoverEvery, InitEvery,  \* ticks between snapshots in those rates (50, 10)
          MaxCrcErrors,        \* errors before the client asks for a resync (10)
          PartSize,            \* what goes into a message, in items of a delta
          MaxTick              \* bound: ticks

ASSUME SizesAssumption ==
  /\ MaxTick \in Nat /\ PartSize \in Nat \ {0}
  /\ KeepTicks \in Nat /\ RecoverEvery \in Nat \ {0} /\ InitEvery \in Nat \ {0}
  /\ MaxCrcErrors \in Nat

VARIABLES
  m_CurrentGameTick,
  m_Snapshots, m_LastAckedSnapshot, m_SnapRate,   \* the server's CClient
  snaps, inputs,                                  \* messages sent
  m_aSnapshotStorage, m_aCurrentRecvTick, m_aAckGameTick,  \* the client
  m_aSnapshotParts,
  m_SnapCrcErrors, m_aReceivedSnapshots,
  m_Prev, m_Current,                              \* m_aapSnapshots, by tick; -1 is null
  had                                             \* history: ticks the client has had

serverVars == <<m_CurrentGameTick, m_Snapshots, m_LastAckedSnapshot, m_SnapRate>>
recvVars == <<m_aCurrentRecvTick, m_aSnapshotParts>>
clientVars == <<m_aSnapshotStorage, m_aAckGameTick, m_SnapCrcErrors,
                m_aReceivedSnapshots, m_Prev, m_Current, had>>
vars == <<serverVars, snaps, inputs, recvVars, clientVars>>

Init ==
  /\ m_CurrentGameTick = 0
  /\ m_Snapshots = <<>> /\ m_LastAckedSnapshot = -1 /\ m_SnapRate = "INIT"
  /\ snaps = {} /\ inputs = {}
  /\ m_aSnapshotStorage = <<>> /\ m_aCurrentRecvTick = 0 /\ m_aAckGameTick = -1
  /\ m_aSnapshotParts = {}
  /\ m_SnapCrcErrors = 0 /\ m_aReceivedSnapshots = 0
  /\ m_Prev = -1 /\ m_Current = -1
  /\ had = {}

-----------------------------------------------------------------------------
(* CSnapshotStorage, a list in the order of Add.                           *)

Ticks(storage) == {storage[i].tick : i \in 1..Len(storage)}

\* PurgeUntil goes on to the first that is not older.
PurgeUntil(storage, tick) ==
  LET older == {n \in 0..Len(storage) : \A i \in 1..n : storage[i].tick < tick}
  IN SubSeq(storage, Max(older) + 1, Len(storage))

\* Get; the empty snapshot if there is none.
Get(storage, tick) ==
  IF tick \in Ticks(storage)
    THEN storage[CHOOSE i \in 1..Len(storage) : storage[i].tick = tick].world
    ELSE <<>>

-----------------------------------------------------------------------------
(* The server.                                                             *)

\* Mutant: the base is the last snapshot that was sent.
BaseLastSent(storage) ==
  IF Len(storage) > 1 THEN storage[Len(storage) - 1].tick ELSE -1

\* DeltaTick: the snapshot acknowledged last, if it is still stored.
Base(storage) == IF m_LastAckedSnapshot \in Ticks(storage) THEN m_LastAckedSnapshot ELSE -1

Sends ==
  /\ m_SnapRate = "RECOVER" => m_CurrentGameTick % RecoverEvery = 0
  /\ m_SnapRate = "INIT" => m_CurrentGameTick % InitEvery = 0

\* DoSnapshot for the client: a delta in one or more parts, or the message that
\* nothing has changed.
DoSnapshot ==
  LET world == World(m_CurrentGameTick)
      storage == Append(PurgeUntil(m_Snapshots, m_CurrentGameTick - KeepTicks),
                        [tick |-> m_CurrentGameTick, world |-> world])
      base == Base(storage)
      delta == CreateDelta(Get(storage, base), world)
      empty == delta = EmptyDelta
      size == Cardinality(delta.deleted) + Len(delta.updates)
      numParts == IF empty THEN 1 ELSE (size + PartSize - 1) \div PartSize
  IN /\ Sends /\ m_CurrentGameTick > 0 /\ m_CurrentGameTick \notin Ticks(m_Snapshots)
     /\ m_Snapshots' = storage
     /\ m_SnapRate' = IF base = -1 /\ m_SnapRate = "FULL" THEN "RECOVER" ELSE m_SnapRate
     /\ snaps' = snaps \cup
          {[tick |-> m_CurrentGameTick, base |-> base, numParts |-> numParts, part |-> n,
            empty |-> empty, delta |-> delta, crc |-> Crc(world)] : n \in 1..numParts}
     /\ UNCHANGED <<m_CurrentGameTick, m_LastAckedSnapshot, inputs, recvVars, clientVars>>

Tick ==
  /\ m_CurrentGameTick < MaxTick
  /\ m_CurrentGameTick' = m_CurrentGameTick + 1
  /\ UNCHANGED <<m_Snapshots, m_LastAckedSnapshot, m_SnapRate, snaps, inputs, recvVars,
                 clientVars>>

\* NETMSG_INPUT, of which the acknowledgement is modelled.
RecvInput(ack) ==
  /\ m_LastAckedSnapshot' = ack
  /\ m_SnapRate' = IF ack > 0 THEN "FULL" ELSE m_SnapRate
  /\ UNCHANGED <<m_CurrentGameTick, m_Snapshots, snaps, inputs, recvVars, clientVars>>

-----------------------------------------------------------------------------
(* The client.                                                             *)

SendInput ==
  /\ inputs' = inputs \cup {m_aAckGameTick}
  /\ UNCHANGED <<serverVars, snaps, recvVars, clientVars>>

\* The message is not of a tick that is over.
Takes(m) == m.tick >= m_aCurrentRecvTick /\ m.tick > m_aAckGameTick

\* The parts received of the tick of m, with m.
Parts(m) ==
  {m.part} \cup IF m.tick = m_aCurrentRecvTick THEN m_aSnapshotParts ELSE {}

IsComplete(m) == Parts(m) = 1..m.numParts

\* A part that does not complete the snapshot.  The bytes are those of the tick, of
\* which every part has the delta here.
RecvPart(m) ==
  /\ Takes(m) /\ ~IsComplete(m)
  /\ m_aCurrentRecvTick' = m.tick
  /\ m_aSnapshotParts' = Parts(m)
  /\ UNCHANGED <<serverVars, snaps, inputs, clientVars>>

\* The last part that was missing.
Completes(m) ==
  /\ Takes(m) /\ IsComplete(m)
  /\ m_aCurrentRecvTick' = m.tick
  /\ m_aSnapshotParts' = {}

\* Mutant: the client does not look whether it has the base, for which Get may give the
\* empty snapshot.
BaseIsStoredAny(m) == TRUE

\* The base is there, or the delta has none.
BaseIsStored(m) == m.base >= 0 => m.base \in Ticks(m_aSnapshotStorage)
Unpacked(m) == UnpackDelta(Get(m_aSnapshotStorage, m.base), m.delta)
CrcMatches(m) == m.empty \/ Crc(Unpacked(m)) = m.crc

\* Mutant: the tick is acknowledged, though it could not be unpacked.
RecvWithoutBaseAcks(m) ==
  /\ Completes(m) /\ ~BaseIsStored(m)
  /\ m_aAckGameTick' = m.tick
  /\ inputs' = inputs \cup {-1}
  /\ UNCHANGED <<serverVars, snaps, m_aSnapshotStorage, m_SnapCrcErrors,
                 m_aReceivedSnapshots, m_Prev, m_Current, had>>

\* The base is not there, "force the server to resync".
RecvWithoutBase(m) ==
  /\ Completes(m) /\ ~BaseIsStored(m)
  /\ m_aAckGameTick' = -1
  /\ inputs' = inputs \cup {-1}
  /\ UNCHANGED <<serverVars, snaps, m_aSnapshotStorage, m_SnapCrcErrors,
                 m_aReceivedSnapshots, m_Prev, m_Current, had>>

\* m_SnapCrcErrors after an error, which is 0 when there were too many.
CrcErrors == IF m_SnapCrcErrors + 1 > MaxCrcErrors THEN 0 ELSE m_SnapCrcErrors + 1

\* The checksum is wrong; the resync is asked for after too many such errors.
RecvCrcError(m) ==
  /\ Completes(m) /\ BaseIsStored(m) /\ ~CrcMatches(m)
  /\ m_SnapCrcErrors' = CrcErrors
  /\ LET tooMany == m_SnapCrcErrors + 1 > MaxCrcErrors
     IN /\ m_aAckGameTick' = IF tooMany THEN -1 ELSE m_aAckGameTick
        /\ inputs' = IF tooMany THEN inputs \cup {-1} ELSE inputs
  /\ UNCHANGED <<serverVars, snaps, m_aSnapshotStorage, m_aReceivedSnapshots, m_Prev,
                 m_Current, had>>

\* Mutant: what is on the screen does not count.
PurgeTickBase(m) == m.base

\* Nothing is purged that is the base or on the screen.
PurgeTick(m) == Min({m.base} \cup ({m_Prev, m_Current} \ {-1}))

\* The snapshot is stored and acknowledged; the second one is shown.
RecvSnapshot(m) ==
  LET storage == Append(PurgeUntil(m_aSnapshotStorage, PurgeTick(m)),
                        [tick |-> m.tick, world |-> Unpacked(m)])
  IN /\ Completes(m) /\ BaseIsStored(m) /\ CrcMatches(m)
     /\ m_SnapCrcErrors' = Max({0, m_SnapCrcErrors - 1})
     /\ m_aSnapshotStorage' = storage
     /\ m_aReceivedSnapshots' = Min({m_aReceivedSnapshots + 1, 3})
     /\ m_Prev' = IF m_aReceivedSnapshots = 1 THEN Head(storage).tick ELSE m_Prev
     /\ m_Current' = IF m_aReceivedSnapshots = 1 THEN m.tick ELSE m_Current
     /\ m_aAckGameTick' = m.tick
     /\ had' = had \cup {m.tick}
     /\ UNCHANGED <<serverVars, snaps, inputs>>

\* Update goes to the next snapshot when its time has come.
Switch ==
  /\ m_aReceivedSnapshots >= 3
  /\ LET later == {t \in Ticks(m_aSnapshotStorage) : t > m_Current}
     IN later # {} /\ m_Prev' = m_Current /\ m_Current' = Min(later)
  /\ UNCHANGED <<serverVars, snaps, inputs, recvVars, m_aSnapshotStorage, m_aAckGameTick,
                 m_SnapCrcErrors, m_aReceivedSnapshots, had>>

-----------------------------------------------------------------------------
Next ==
  \/ Tick \/ DoSnapshot
  \/ \E ack \in inputs : RecvInput(ack)
  \/ SendInput
  \/ \E m \in snaps : RecvPart(m) \/ RecvWithoutBase(m) \/ RecvCrcError(m) \/ RecvSnapshot(m)
  \/ Switch

Spec == Init /\ [][Next]_vars

-----------------------------------------------------------------------------
(* Properties.                                                             *)

\* The items of s in any order.
Orders(s) == {[i \in DOMAIN s |-> s[p[i]]] : p \in Surjection(DOMAIN s, DOMAIN s)}

\* The snapshot a delta is made against.
WorldOf(tick) == IF tick = -1 THEN <<>> ELSE World(tick)

\* What the worlds have to be for SameWorld: a delta that is applied to the items it
\* was made against, in any order, gives the items it was made for, or is refused for
\* its checksum.
DeltasAreSound ==
  \A tick \in 1..MaxTick : \A base \in {-1} \cup 1..tick - 1 :
    LET delta == CreateDelta(WorldOf(base), World(tick)) IN
    \A s \in Orders(WorldOf(base)) :
      delta = EmptyDelta \/ Crc(UnpackDelta(s, delta)) = Crc(World(tick)) =>
        UnpackDelta(s, delta) \in Orders(World(tick))

\* What the client has for a tick is what the server built for it, whatever was
\* lost, late or repeated: a delta is never applied to another base, and a delta
\* that is wrong is refused for its checksum.
SameWorld ==
  \A i \in 1..Len(m_aSnapshotStorage) :
    ToSet(m_aSnapshotStorage[i].world) = ToSet(World(m_aSnapshotStorage[i].tick))

\* The two snapshots on the screen are in the storage, so that their memory is
\* not freed, and the older one is the older.
ShownAreStored ==
  /\ m_Prev = -1 <=> m_Current = -1
  /\ m_Current # -1 => /\ {m_Prev, m_Current} \subseteq Ticks(m_aSnapshotStorage)
                       /\ m_Prev < m_Current

\* The server makes a delta only against a snapshot the client has had.
BaseWasReceived == \A m \in snaps : m.base = -1 \/ m.base \in had

\* The client acknowledges nothing but a snapshot it has and will keep as long as
\* it is acknowledged; so after a resync it is sent whole snapshots until it has
\* one.
AckedIsStored == m_aAckGameTick # -1 => m_aAckGameTick \in Ticks(m_aSnapshotStorage)
=============================================================================
