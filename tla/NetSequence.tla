----------------------------- MODULE NetSequence -----------------------------
(***************************************************************************)
(* Arithmetic on the sequence numbers of vital chunks, which wrap at       *)
(* NET_MAX_SEQUENCE (engine/shared/network.h, network.cpp).                *)
(***************************************************************************)
EXTENDS Integers

CONSTANT NET_MAX_SEQUENCE

ASSUME SequenceAssumption ==
  /\ NET_MAX_SEQUENCE \in Nat
  /\ NET_MAX_SEQUENCE >= 4
  /\ NET_MAX_SEQUENCE % 2 = 0

SeqNumbers == 0..(NET_MAX_SEQUENCE - 1)

NextSequence(s) == (s + 1) % NET_MAX_SEQUENCE

\* Seq is one of the half of the numbers that lie behind Ack.
IsSeqInBackroom(Seq, Ack) ==
  LET Bottom == Ack - NET_MAX_SEQUENCE \div 2
  IN  IF Bottom < 0 THEN Seq <= Ack \/ Seq >= Bottom + NET_MAX_SEQUENCE
                    ELSE Seq <= Ack /\ Seq >= Bottom

\* Feed's check that Ack lies between the latest ack of the peer and our own
\* sequence number.
AckInWindow(Sequence, PeerAck, Ack) ==
  IF Sequence >= PeerAck THEN ~(Ack < PeerAck \/ Ack > Sequence)
                         ELSE ~(Ack < PeerAck /\ Ack > Sequence)
=============================================================================
