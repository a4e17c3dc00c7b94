------------------------------- MODULE AiField -------------------------------
(***************************************************************************)
(* The flow field that tells the learning agent the way to the finish      *)
(* (ai_setupfield and ai_getfield in engine/client/ai.cpp): a search for   *)
(* shortest paths, from the finish tiles over the eight neighbours of a    *)
(* tile, which notes for each tile the direction back to where it was      *)
(* reached from.                                                           *)
(*                                                                         *)
(* One action is one turn of the while loop.  The map is chosen by         *)
(* FieldInit; names that AiBridge has too begin with Field.                *)
(* Distances are integers: Straight stands for 1 and Diagonal for sqrt 2.  *)
(***************************************************************************)
EXTENDS Integers, FiniteSetsExt

CONSTANTS fldw, fldh,          \* GetWidth and GetHeight of the map
          Straight, Diagonal,  \* lengths of a step
          Huge                 \* HUGE_VALF, more than any distance

ASSUME SizeAssumption == fldw \in Nat /\ fldh \in Nat
ASSUME LengthAssumption ==
  /\ Straight \in Nat \ {0} /\ Diagonal \in Nat \ {0} /\ Huge \in Nat \ {0}
ASSUME HugeAssumption == fldw * fldh * Diagonal < Huge

Tiles == (0 .. fldw - 1) \X (0 .. fldh - 1)
Dirs == ((-1 .. 1) \X (-1 .. 1)) \ {<<0, 0>>}

\* What the search tells apart: TILE_SOLID, TILE_NOHOOK and TILE_FREEZE are solid.
TileKinds == {"air", "solid", "finish"}

VARIABLES map,       \* the tiles of the map
          tilevs,    \* the multiset, in which no entry comes twice
          bd,        \* best distance
          ai_field

fieldVars == <<map, tilevs, bd, ai_field>>

issolid(p) == map[p] = "solid"

Toward(p, q) == <<q[1] - p[1], q[2] - p[2]>>

IsDiagonal(d) == d[1] # 0 /\ d[2] # 0

\* Whether the loop goes on from p to its neighbour q.
Passable(p, q) ==
  /\ Toward(p, q) \in Dirs
  /\ IsDiagonal(Toward(p, q)) => ~issolid(<<q[1], p[2]>>) /\ ~issolid(<<p[1], q[2]>>)
  /\ ~issolid(q)

Length(p, q) == IF IsDiagonal(Toward(p, q)) THEN Diagonal ELSE Straight

\* No direction.
None == 4

\* Mutant: the field points on from where the tile was reached.
EncodeOnward(d) == (1 + d[2]) * 3 + (1 + d[1])

\* The direction back, for a step in direction d, as a number.
Encode(d) == (1 - d[2]) * 3 + (1 - d[1])

\* The number taken apart again.
ai_getfield(p) ==
  IF p \in Tiles THEN <<(ai_field[p] % 3) - 1, (ai_field[p] \div 3) - 1>> ELSE <<0, 0>>

-----------------------------------------------------------------------------
FieldInit ==
  /\ map \in [Tiles -> TileKinds]
  /\ tilevs = {[d |-> 0, p |-> p] : p \in {q \in Tiles : map[q] = "finish"}}
  /\ bd = [p \in Tiles |-> IF map[p] = "finish" THEN 0 ELSE Huge]
  /\ ai_field = [p \in Tiles |-> None]

\* Mutant: a tile that was reached before keeps its distance.
BetterOnce(tv) == {q \in Tiles : Passable(tv.p, q) /\ bd[q] = Huge}

\* The tiles that are reached from tv on a shorter way than before.
Better(tv) == {q \in Tiles : Passable(tv.p, q) /\ tv.d + Length(tv.p, q) < bd[q]}

\* Mutant: only the tiles reached first are queued.
QueuedOnce(tv) ==
  {[d |-> tv.d + Length(tv.p, q), p |-> q] : q \in {t \in Better(tv) : bd[t] = Huge}}

\* The entries a turn adds.
Queued(tv) == {[d |-> tv.d + Length(tv.p, q), p |-> q] : q \in Better(tv)}

\* Mutant: any entry may be the next, as with an unordered container.
IsFirstAny(tv) == TRUE

\* tilevs.begin(): entries with the same distance come in any order.
IsFirst(tv) == \A other \in tilevs : tv.d <= other.d

\* Mutant: the entry is not erased.
ExpandKeepsEntry(tv) ==
  /\ IsFirst(tv)
  /\ bd' = [q \in Tiles |->
              IF q \in Better(tv) THEN tv.d + Length(tv.p, q) ELSE bd[q]]
  /\ ai_field' = [q \in Tiles |->
                    IF q \in Better(tv) THEN Encode(Toward(tv.p, q)) ELSE ai_field[q]]
  /\ tilevs' = tilevs \cup Queued(tv)
  /\ UNCHANGED map

\* A turn of the loop.
Expand(tv) ==
  /\ IsFirst(tv)
  /\ bd' = [q \in Tiles |->
              IF q \in Better(tv) THEN tv.d + Length(tv.p, q) ELSE bd[q]]
  /\ ai_field' = [q \in Tiles |->
                    IF q \in Better(tv) THEN Encode(Toward(tv.p, q)) ELSE ai_field[q]]
  /\ tilevs' = (tilevs \cup Queued(tv)) \ {tv}
  /\ UNCHANGED map

FieldNext == \E tv \in tilevs : Expand(tv)

FieldSpec == FieldInit /\ [][FieldNext]_fieldVars

\* The loop runs on: nothing blocks it.
FairSpec == FieldSpec /\ WF_fieldVars(FieldNext)

-----------------------------------------------------------------------------
(* Properties.                                                             *)

\* Type invariant of the search: the field holds a direction or none.
FieldTypeOK ==
  /\ map \in [Tiles -> TileKinds]
  /\ tilevs \subseteq [d : Nat, p : Tiles]
  /\ bd \in [Tiles -> 0 .. Huge]
  /\ ai_field \in [Tiles -> 0 .. 8]

\* Where the field of a tile leads.
Onward(p) == <<p[1] + ai_getfield(p)[1], p[2] + ai_getfield(p)[2]>>

\* The field leads downhill, at every moment of the search: it steps to a tile of
\* the map one may step to, nearer to the finish by at least the step's length.
\* So following it never runs in a circle or into a solid tile, and ends on a
\* finish tile.  Every other tile the search has reached has such a direction.
FieldDescends ==
  \A p \in Tiles :
    /\ bd[p] = 0 <=> map[p] = "finish"
    /\ map[p] = "finish" => ai_field[p] = None
    /\ map[p] # "finish" /\ bd[p] < Huge => ai_field[p] # None
    /\ ai_field[p] # None =>
         /\ Onward(p) \in Tiles
         /\ Passable(p, Onward(p))
         /\ bd[Onward(p)] + Length(p, Onward(p)) <= bd[p]

\* When the search ends no step from a reached tile offers a shorter way: with
\* FieldDescends, the field follows shortest ways to the finish, and a tile
\* without one cannot reach it.
NoShortcut ==
  tilevs = {} =>
    \A p, q \in Tiles :
      bd[p] < Huge /\ Passable(p, q) => bd[q] <= bd[p] + Length(p, q)

\* The walks to a finish tile that have at most one step more than those in w.
Longer(w) ==
  w \cup UNION {{<<p, x[2] + Length(p, x[1])>> :
                   p \in {t \in Tiles : ~issolid(t) /\ Passable(t, x[1])}} : x \in w}

\* Pairs of a tile and the length of a walk of at most n steps from it to a finish.
Walks[n \in 0 .. fldw * fldh - 1] ==
  IF n = 0 THEN {<<p, 0>> : p \in {t \in Tiles : map[t] = "finish"}}
  ELSE Longer(Walks[n - 1])

\* What ai_setupfield computes is the length of the shortest walk to a finish
\* tile that enters no solid tile and cuts no solid corner, if there is one.
IsShortest ==
  tilevs = {} =>
    LET all == Walks[fldw * fldh - 1] IN
    \A p \in Tiles : bd[p] = Min({Huge} \cup {x[2] : x \in {w \in all : w[1] = p}})

\* What was expanded is final: a tile that was reached and has no entry left for
\* its distance is never reached on a shorter way again.  It is why the loop
\* need not look at old entries, and rests on the order of the multiset.
ExpandedIsFinal ==
  [][\A p \in Tiles :
       bd[p] < Huge /\ [d |-> bd[p], p |-> p] \notin tilevs =>
         bd'[p] = bd[p] /\ ai_field'[p] = ai_field[p]]_fieldVars

\* The loop ends for every map.
Terminates == <>(tilevs = {})
=============================================================================
