----------------------------- MODULE MCSnapshots -----------------------------
(* Snapshots over a few ticks.  Keys 1 and 3 share a bucket that has room  *)
(* for one of them.                                                        *)
EXTENDS Snapshots

Bucket(k) == k % 2

Item(k, d) == [key |-> k, data |-> d]

\* Two ticks look the same; an item whose data is 0 does not show in the checksum;
\* then two items are in one bucket, and in the other order.  The last world has the
\* checksum of what its delta to the first makes of no items.
SmallWorld(tick) ==
  CASE tick \in {1, 2} -> <<Item(2, 0)>>
    [] tick = 3 -> <<Item(1, 1), Item(3, 2)>>
    [] tick = 4 -> <<Item(3, 2), Item(1, 1)>>
    [] OTHER -> <<Item(2, 0), Item(3, 1)>>

\* What WorldsAreRight of SnapshotsProofs takes for granted.
ASSUME SoundAssumption == DeltasAreSound
=============================================================================
