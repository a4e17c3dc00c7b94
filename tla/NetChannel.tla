------------------------------ MODULE NetChannel ------------------------------
(***************************************************************************)
(* Vital chunks between the two CNetConnections of an online connection    *)
(* (engine/shared/network_conn.cpp, network.cpp, network_client.cpp,       *)
(* network_server.cpp): sequence numbers, piggybacked acks, the resend     *)
(* buffer, the packet under construction, the receive unpacker, over a     *)
(* network that loses, duplicates and reorders packets.                    *)
(*                                                                         *)
(* A chunk carries its number on the wire (seq, modulo NET_MAX_SEQUENCE)   *)
(* and its payload, represented by the chunk's true number (id).  Chunks   *)
(* that are not vital have no effect on a connection but to give it an     *)
(* occasion to send (SendNonVital).  Timers are nondeterministic choices.  *)
(***************************************************************************)
EXTENDS NetSequence, Sequences, FiniteSets, FiniteSetsExt, Functions

CONSTANTS Start,         \* chunks each end has sent, all received, at the start
          BufferCap,     \* chunks the resend buffer m_Buffer has room for
          ConstructCap,  \* chunks a packet has room for
          MaxUnacked,    \* bound: vital chunks an end leaves unacknowledged
          MaxSent,       \* bound: vital chunks each end queues
          NetCap         \* bound: packets of each end overtaken by a newer one

ASSUME ChannelAssumption ==
  /\ Start \in [{"client", "server"} -> Nat]
  /\ BufferCap \in Nat \ {0} /\ ConstructCap \in Nat \ {0}
  /\ MaxUnacked \in Nat /\ MaxUnacked < NET_MAX_SEQUENCE \div 2
  /\ MaxSent \in [{"client", "server"} -> Nat]
  /\ NetCap \in [{"client", "server"} -> Nat]

Peers == {"client", "server"}
Other(e) == CHOOSE f \in Peers : f # e

VARIABLES
  m_Sequence, m_Ack, m_PeerAck,  \* CNetConnection's counters
  m_Buffer,                      \* chunks kept for resending, oldest first
  m_Construct,                   \* packet under construction
  unpacker,                      \* chunks of the packet being unpacked
  net,                           \* net[e]: packets from e in transit
  sent, received,                \* history: last chunk queued, last delivered
  unsaved                        \* history: chunks m_Buffer had no room for

vars == <<m_Sequence, m_Ack, m_PeerAck, m_Buffer, m_Construct, unpacker, net,
          sent, received, unsaved>>

EmptyConstruct == [resend |-> FALSE, chunks |-> <<>>]

\* A connection on which Start[e] chunks of e have been received and acked.
Init ==
  /\ m_Sequence = [e \in Peers |-> Start[e] % NET_MAX_SEQUENCE]
  /\ m_Ack = [e \in Peers |-> Start[Other(e)] % NET_MAX_SEQUENCE]
  /\ m_PeerAck = [e \in Peers |-> Start[e] % NET_MAX_SEQUENCE]
  /\ m_Buffer = [e \in Peers |-> <<>>]
  /\ m_Construct = [e \in Peers |-> EmptyConstruct]
  /\ unpacker = [e \in Peers |-> <<>>]
  /\ net = [e \in Peers |-> {}]
  /\ sent = Start
  /\ received = [e \in Peers |-> Start[Other(e)]]
  /\ unsaved = [e \in Peers |-> {}]

-----------------------------------------------------------------------------
(* Building packets.                                                       *)

\* The packet Flush makes of construct c; ackId is what m_Ack stands for.
PacketOf(e, c) == [ack |-> m_Ack[e], ackId |-> received[e],
                   resend |-> c.resend, chunks |-> c.chunks]

\* QueueChunkEx for each of the chunks chs: a full construct is flushed first.
\* FullPackets are the packets flushed that way and QueueChunkEx is what stays.
Queued(e, chs) == m_Construct[e].chunks \o chs
NumFull(e, chs) ==
  IF Queued(e, chs) = <<>> THEN 0
  ELSE (Len(Queued(e, chs)) - 1) \div ConstructCap
FullPackets(e, chs) ==
  {PacketOf(e, [resend |-> i = 1 /\ m_Construct[e].resend,
                chunks |-> SubSeq(Queued(e, chs), (i - 1) * ConstructCap + 1,
                                  i * ConstructCap)])
     : i \in 1..NumFull(e, chs)}
QueueChunkEx(e, chs) ==
  [resend |-> NumFull(e, chs) = 0 /\ m_Construct[e].resend,
   chunks |-> SubSeq(Queued(e, chs), NumFull(e, chs) * ConstructCap + 1,
                     Len(Queued(e, chs)))]

\* The packets of ps enter the network.  Of the older ones NetCap stay; the
\* others are lost.
Transmit(e, ps) ==
  IF ps = {} THEN UNCHANGED net
  ELSE \E keep \in SUBSET net[e] :
         /\ Cardinality(keep) = Min({NetCap[e], Cardinality(net[e])})
         /\ net' = [net EXCEPT ![e] = keep \cup ps]

\* Flush: nothing is sent when the construct c has neither chunks nor flags.
FlushPackets(e, c) == IF c = EmptyConstruct THEN {} ELSE {PacketOf(e, c)}

-----------------------------------------------------------------------------
(* Operations of an end.                                                   *)

Unacked(e) == (m_Sequence[e] - m_PeerAck[e]) % NET_MAX_SEQUENCE

\* CNetClient::Send and CNetServer::Send of a vital chunk (QueueChunk, and
\* Flush when asked for; the server does not flush a chunk it could not save).
Send(e, flush) ==
  LET chunk == [seq |-> NextSequence(m_Sequence[e]), id |-> sent[e] + 1]
      saved == Len(m_Buffer[e]) < BufferCap
      c     == QueueChunkEx(e, <<chunk>>)
      out   == flush /\ (saved \/ e = "client")
  IN
  /\ sent[e] < MaxSent[e]
  /\ Unacked(e) < MaxUnacked
  /\ m_Sequence' = [m_Sequence EXCEPT ![e] = chunk.seq]
  /\ m_Buffer' = IF saved THEN [m_Buffer EXCEPT ![e] = Append(@, chunk)]
                          ELSE m_Buffer
  /\ unsaved' = IF saved THEN unsaved ELSE [unsaved EXCEPT ![e] = @ \cup {chunk.id}]
  /\ m_Construct' = [m_Construct EXCEPT ![e] = IF out THEN EmptyConstruct ELSE c]
  /\ Transmit(e, FullPackets(e, <<chunk>>) \cup
                 IF out THEN FlushPackets(e, c) ELSE {})
  /\ sent' = [sent EXCEPT ![e] = @ + 1]
  /\ UNCHANGED <<m_Ack, m_PeerAck, unpacker, received>>

\* Send of a chunk that is not vital, flushed: inputs and snapshots.
SendNonVital(e) ==
  /\ Transmit(e, {PacketOf(e, m_Construct[e])})
  /\ m_Construct' = [m_Construct EXCEPT ![e] = EmptyConstruct]
  /\ UNCHANGED <<m_Sequence, m_Ack, m_PeerAck, m_Buffer, unpacker, sent,
                 received, unsaved>>

\* Update of an online connection: the oldest chunk is queued again when it is
\* due (resend), the construct is flushed when nothing was sent for a while
\* (late), and when there is nothing to flush a keepalive goes out (quiet).  A
\* chunk that is due and still in the construct has been there for longer than
\* the flush interval.
Update(e, resend, late, quiet) ==
  LET again == IF resend THEN <<Head(m_Buffer[e])>> ELSE <<>>
      c     == QueueChunkEx(e, again)
  IN
  /\ resend => /\ m_Buffer[e] # <<>>
               /\ \/ late \/ NumFull(e, again) > 0
                  \/ Head(m_Buffer[e]) \notin Range(m_Construct[e].chunks)
  /\ late => NumFull(e, again) = 0
  /\ quiet => late /\ c = EmptyConstruct
  /\ m_Construct' = [m_Construct EXCEPT ![e] = IF late THEN EmptyConstruct ELSE c]
  /\ Transmit(e, FullPackets(e, again) \cup
                 (IF late THEN FlushPackets(e, c) ELSE {}) \cup
                 (IF quiet THEN {PacketOf(e, EmptyConstruct)} ELSE {}))
  /\ UNCHANGED <<m_Sequence, m_Ack, m_PeerAck, m_Buffer, unpacker, sent,
                 received, unsaved>>

-----------------------------------------------------------------------------
(* Receiving.                                                              *)

\* Mutant: the comparison is off by one, so one chunk too many is dropped.
AckChunksAll(b, Ack) ==
  LET k == Max({0} \cup {i \in 1..Len(b) : IsSeqInBackroom(b[i].seq, Ack + 1)})
  IN  SubSeq(b, k + 1, Len(b))

\* AckChunks: drop from the front while the chunk is acknowledged.
AckChunks(b, Ack) ==
  LET k == Max({i \in 0..Len(b) : \A l \in 1..i : IsSeqInBackroom(b[l].seq, Ack)})
  IN  SubSeq(b, k + 1, Len(b))

\* Packets do not stay in the network while NET_MAX_SEQUENCE chunks go by.
Fresh(e, p) ==
  /\ \A i \in 1..Len(p.chunks) :
       p.chunks[i].id > received[e] + 1 - NET_MAX_SEQUENCE
  /\ p.ackId > sent[e] - NET_MAX_SEQUENCE

\* Feed of a packet from the network.  The whole buffer is queued again before
\* the acknowledged part of it is dropped.
Feed(e, p) ==
  LET again == IF p.resend THEN m_Buffer[e] ELSE <<>> IN
  /\ unpacker[e] = <<>>
  /\ Fresh(e, p)
  /\ AckInWindow(m_Sequence[e], m_PeerAck[e], p.ack)
  /\ m_PeerAck' = [m_PeerAck EXCEPT ![e] = p.ack]
  /\ m_Construct' = [m_Construct EXCEPT ![e] = QueueChunkEx(e, again)]
  /\ Transmit(e, FullPackets(e, again))
  /\ m_Buffer' = [m_Buffer EXCEPT ![e] = AckChunks(@, p.ack)]
  /\ unpacker' = [unpacker EXCEPT ![e] = p.chunks]
  /\ UNCHANGED <<m_Sequence, m_Ack, sent, received, unsaved>>

\* Mutant: a chunk behind a gap is delivered.
FetchChunkAnyNew(e) ==
  LET h == Head(unpacker[e]) IN
  /\ unpacker[e] # <<>>
  /\ unpacker' = [unpacker EXCEPT ![e] = Tail(@)]
  /\ IF IsSeqInBackroom(h.seq, m_Ack[e])
     THEN UNCHANGED <<m_Ack, received>>
     ELSE /\ m_Ack' = [m_Ack EXCEPT ![e] = h.seq]
          /\ received' = [received EXCEPT ![e] = h.id]
  /\ UNCHANGED <<m_Sequence, m_PeerAck, m_Buffer, m_Construct, net, sent, unsaved>>

\* Mutant: a chunk behind a gap is not delivered but acknowledged.
FetchChunkAcksGap(e) ==
  LET h == Head(unpacker[e]) IN
  /\ unpacker[e] # <<>>
  /\ unpacker' = [unpacker EXCEPT ![e] = Tail(@)]
  /\ m_Ack' = IF h.seq # NextSequence(m_Ack[e]) /\ IsSeqInBackroom(h.seq, m_Ack[e])
              THEN m_Ack ELSE [m_Ack EXCEPT ![e] = h.seq]
  /\ received' = IF h.seq = NextSequence(m_Ack[e])
                 THEN [received EXCEPT ![e] = h.id] ELSE received
  /\ UNCHANGED <<m_Sequence, m_PeerAck, m_Buffer, m_Construct, net, sent, unsaved>>

\* FetchChunk: the next chunk of the packet is delivered when it is in
\* sequence, ignored when it is old, and otherwise makes us ask for a resend.
FetchChunk(e) ==
  LET h == Head(unpacker[e]) IN
  /\ unpacker[e] # <<>>
  /\ unpacker' = [unpacker EXCEPT ![e] = Tail(@)]
  /\ IF h.seq = NextSequence(m_Ack[e])
     THEN /\ m_Ack' = [m_Ack EXCEPT ![e] = h.seq]
          /\ received' = [received EXCEPT ![e] = h.id]
          /\ UNCHANGED m_Construct
     ELSE /\ UNCHANGED <<m_Ack, received>>
          /\ m_Construct' = IF IsSeqInBackroom(h.seq, m_Ack[e]) THEN m_Construct
                            ELSE [m_Construct EXCEPT ![e].resend = TRUE]
  /\ UNCHANGED <<m_Sequence, m_PeerAck, m_Buffer, net, sent, unsaved>>

-----------------------------------------------------------------------------
(* A packet that is received stays in the network, so it may come again;   *)
(* one that is never received is lost.                                     *)

Next ==
  \E e \in Peers :
    \/ \E flush \in BOOLEAN : Send(e, flush)
    \/ SendNonVital(e)
    \/ \E resend, late, quiet \in BOOLEAN : Update(e, resend, late, quiet)
    \/ \E p \in net[Other(e)] : Feed(e, p)
    \/ FetchChunk(e)

Spec == Init /\ [][Next]_vars

-----------------------------------------------------------------------------
(* Properties.                                                             *)

\* A chunk leaves the resend buffer only after the other end has received it:
\* one that was saved and is not received yet is still there to be resent,
\* whatever acks were delayed, repeated or reordered.
UnreceivedIsKept ==
  \A e \in Peers : \A id \in (received[Other(e)] + 1)..sent[e] :
    id \in unsaved[e] \/ \E i \in 1..Len(m_Buffer[e]) : m_Buffer[e][i].id = id

\* The sequence number and the ack of an end stand for the chunks it queued and
\* received, and the ack it holds of its peer never runs ahead of the peer.
CountersAgree ==
  \A e \in Peers :
    /\ m_Sequence[e] = sent[e] % NET_MAX_SEQUENCE
    /\ m_Ack[e] = received[e] % NET_MAX_SEQUENCE
    /\ received[Other(e)] <= sent[e]
    /\ Unacked(e) >= sent[e] - received[Other(e)]

\* Every chunk queued is received once, in the order queued (ReliableChannel).
Channel == INSTANCE ReliableChannel WITH Peers <- Peers, Other <- Other,
                                        Start <- Start, sent <- sent, received <- received
InOrderOnce == Channel!Spec

-----------------------------------------------------------------------------
(* Liveness.  Ends keep updating and unpacking.  Unpacking a packet takes  *)
(* no time compared with the timers of Update (0.5s and more), so an end   *)
(* that updates again and again does so while the other is not in the      *)
(* middle of a packet (Idle), and when all its timers have run out (Due).  *)
(* A network that is offered the next chunk, or a newer ack, again and     *)
(* again delivers it eventually.                                           *)

Idle(e) == unpacker[e] = <<>>

\* The Update of an end that has sent nothing for more than a second: the oldest
\* chunk is sent again (after what is in the construct, if that is full), or what
\* is in the construct, or a keepalive.
Due(e) ==
  LET resend == m_Buffer[e] # <<>> /\ NumFull(e, <<Head(m_Buffer[e])>>) = 0
      quiet  == ~resend /\ m_Construct[e] = EmptyConstruct
  IN  Idle(Other(e)) /\ Update(e, resend, TRUE, quiet)

BringsNext(e, p) == \E i \in 1..Len(p.chunks) : p.chunks[i].id = received[e] + 1

NewAck(e, p) == p.ack # m_PeerAck[e]

Fairness ==
  \A e \in Peers :
    /\ SF_vars(Due(e))
    /\ WF_vars(FetchChunk(e))
    /\ SF_vars(\E p \in net[Other(e)] : BringsNext(e, p) /\ Feed(e, p))
    /\ SF_vars(\E p \in net[Other(e)] : NewAck(e, p) /\ Feed(e, p))

FairSpec == Spec /\ Fairness

\* Every vital chunk is eventually received, although the network loses packets;
\* a chunk the resend buffer had no room for can hold up itself and those behind
\* it, and none before it.
EventuallyReceived ==
  \A e \in Peers : \A n \in (Start[e] + 1)..MaxSent[e] :
    (sent[e] >= n) ~> (received[Other(e)] >= n \/ \E k \in unsaved[e] : k <= n)
=============================================================================
