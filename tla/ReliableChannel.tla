--------------------------- MODULE ReliableChannel ---------------------------
(***************************************************************************)
(* What vital chunks promise the two ends of a connection: each end        *)
(* receives the chunks the other queued, in order, each one once.  Chunks  *)
(* are numbered in the order they are queued, so received[e] is the number *)
(* of the last chunk e received.                                           *)
(***************************************************************************)
EXTENDS Naturals

CONSTANTS Peers, Other(_),
          Start  \* chunks each end has queued, all received, at the start

VARIABLES sent, received

Init == sent = Start /\ received = [e \in Peers |-> Start[Other(e)]]

Send(e) == sent' = [sent EXCEPT ![e] = @ + 1] /\ UNCHANGED received

Receive(e) ==
  /\ received[e] < sent[Other(e)]
  /\ received' = [received EXCEPT ![e] = @ + 1]
  /\ UNCHANGED sent

Next == \E e \in Peers : Send(e) \/ Receive(e)

Spec == Init /\ [][Next]_<<sent, received>>
=============================================================================
