---------------------------- MODULE SnapshotDelta ----------------------------
(***************************************************************************)
(* CSnapshotDelta (engine/shared/snapshot.cpp): what the server sends in   *)
(* place of a snapshot, and how the client builds the snapshot from it and *)
(* an older one.                                                           *)
(*                                                                         *)
(* A snapshot is a sequence of items with different keys.  An item's data  *)
(* is one integer, which wraps around at Modulus; its size goes with its   *)
(* key (m_aItemSizes) and is left out, and so is the packing of integers.  *)
(***************************************************************************)
EXTENDS Integers, Sequences, FiniteSets, SequencesExt

CONSTANTS Modulus,               \* integers are 0 .. Modulus - 1
          CalcHashID(_),         \* bucket of a key
          HASHLIST_BUCKET_SIZE

ASSUME DeltaAssumption == Modulus \in Nat \ {0} /\ HASHLIST_BUCKET_SIZE \in Nat

KeysOf(s) == {s[i].key : i \in 1..Len(s)}
DataOf(s, k) == s[CHOOSE i \in 1..Len(s) : s[i].key = k].data

\* The checksum, a sum over all data.
Crc(s) == FoldLeft(LAMBDA sum, x : (sum + x.data) % Modulus, 0, s)

\* GenerateHash and GetItemIndexHashed: an item that finds its bucket full is
\* not entered, and not found.
Found(s, k) ==
  \E i \in 1..Len(s) :
    /\ s[i].key = k
    /\ Cardinality({j \in 1..i - 1 : CalcHashID(s[j].key) = CalcHashID(k)})
         < HASHLIST_BUCKET_SIZE

\* DiffItem and UndiffItem.
Diff(past, current) == (current + Modulus - past) % Modulus
Undiff(past, diff) == (past + diff) % Modulus

\* Items of the old snapshot that are not found in the new one.
Deleted(f, t) == {k \in KeysOf(f) : ~Found(t, k)}

\* Items that are new or have changed, with their data or its difference.
Updates(f, t) ==
  LET Coded(x) == IF Found(f, x.key)
                    THEN [x EXCEPT !.data = Diff(DataOf(f, x.key), x.data)] ELSE x
      needed == SelectSeq(t, LAMBDA x : ~Found(f, x.key) \/ Coded(x).data # 0)
  IN [i \in 1..Len(needed) |-> Coded(needed[i])]

\* EmptyDelta, which NETMSG_SNAPEMPTY stands for.
EmptyDelta == [deleted |-> {}, updates |-> <<>>]

CreateDelta(f, t) == [deleted |-> Deleted(f, t), updates |-> Updates(f, t)]

\* Items of the old snapshot that are not deleted.
Kept(f, d) == SelectSeq(f, LAMBDA x : x.key \notin d.deleted)

\* An update is applied to the item if it was kept, or to a new one.
Apply(f, s, u) ==
  LET x == IF u.key \in KeysOf(f) THEN [u EXCEPT !.data = Undiff(DataOf(f, u.key), u.data)]
                                  ELSE u
  IN IF u.key \in KeysOf(s)
       THEN [i \in 1..Len(s) |-> IF s[i].key = u.key THEN x ELSE s[i]]
       ELSE Append(s, x)

UnpackDelta(f, d) == FoldLeft(LAMBDA s, u : Apply(f, s, u), Kept(f, d), d.updates)
=============================================================================
