------------------------------- MODULE AiProofs -------------------------------
(***************************************************************************)
(* Proofs about the two parts of engine/client/ai.cpp: the bridge, for any *)
(* actions, latency and number of ticks, and the search for the flow       *)
(* field, for maps of every size.                                          *)
(***************************************************************************)
EXTENDS AiBridge, AiField, SequenceTheorems, FiniteSetTheorems, TLAPS

(***************************************************************************)
(* The bridge.  That the environment and the client take turns (Lockstep)  *)
(* is inductive with the types.  An action is answered in the first new    *)
(* tick because the three variables that keep the client from working on a *)
(* tick twice are never ahead of the newest tick (GuardsBehind).           *)
(***************************************************************************)

Lines == [act : Actions \cup {Stand}, kill : BOOLEAN]

\* Types of the bridge's state.
TypeOK ==
  /\ envPc \in {"idle", "step", "reset"} /\ isdone \in BOOLEAN
  /\ fin \in Seq(Lines) /\ fout \in Seq(SUBSET RwdTiles)
  /\ ai_inp \in Actions \cup {Stand, Local}
  /\ ai_gaveinp \in BOOLEAN /\ ai_wantskill \in BOOLEAN /\ ai_waitsreply \in BOOLEAN
  /\ ai_rinp_tick \in Nat /\ ai_reply_tick \in Nat /\ lasttick \in Nat
  /\ ai_gotrwd \in SUBSET RwdTiles /\ ai_killtick \in Nat
  /\ GameTick \in Nat /\ PredTick \in Nat /\ cur \in Nat /\ last \in Nat
  /\ Repredict \in BOOLEAN
  /\ lastAct \in Actions \cup {Stand, Local} /\ owesKill \in BOOLEAN
  /\ newest \in Nat /\ askedAt \in Nat

\* What keeps a tick from being worked on twice is never ahead of the ticks that
\* were simulated, so a new tick is always worked on.
GuardsBehind ==
  lasttick <= newest /\ ai_rinp_tick <= newest /\ ai_reply_tick <= newest

\* The last line written is the last action.
LastLine == fin # <<>> => fin[Len(fin)].act = lastAct

\* Replies the client owes.
Owes == IF ai_waitsreply THEN 1 ELSE 0

IInv ==
  TypeOK /\ GuardsBehind /\ LastLine
    /\ Lockstep /\ AnsweredAtOnce /\ KillIsKept /\ LatestAction

-----------------------------------------------------------------------------
\* Of three numbers that add up to one at most, only one is positive.
LEMMA OnlyOne ==
  ASSUME NEW a \in Nat, NEW b \in Nat, NEW c \in Nat, a + b + c <= 1, a # 0
  PROVE  a = 1 /\ b = 0 /\ c = 0
  OBVIOUS

\* The bridge before the first action.
LEMMA InitInv == Init => IInv
<1> SUFFICES ASSUME Init PROVE IInv
  OBVIOUS
<1>1. fin = <<>> /\ fout = <<>> /\ fin \in Seq(Lines) /\ fout \in Seq(SUBSET RwdTiles)
      /\ Len(fin) = 0 /\ Len(fout) = 0
  BY DEF Init
<1>2. ~KillWritten
  BY <1>1 DEF KillWritten
<1>3. TypeOK
  BY <1>1 DEF Init, TypeOK
<1>4. GuardsBehind /\ LastLine /\ Lockstep /\ AnsweredAtOnce /\ LatestAction
  BY <1>1 DEF Init, GuardsBehind, LastLine, Lockstep, AnsweredAtOnce, LatestAction
<1>5. KillIsKept
  BY <1>2 DEF Init, KillIsKept
<1> QED BY <1>3, <1>4, <1>5 DEF IInv

\* step and reset write one line when nothing is under way.
LEMMA WriteInv ==
  ASSUME IInv, NEW act \in Actions \cup {Stand}, NEW kill \in BOOLEAN, Write(act, kill),
         envPc = "idle", envPc' \in {"step", "reset"}, owesKill' = (owesKill \/ kill)
  PROVE  IInv'
<1> USE DEF IInv
<1>1. Len(fin) = 0 /\ Len(fout) = 0 /\ ~ai_waitsreply /\ fin = <<>> /\ fout = <<>>
  BY DEF Lockstep, TypeOK
<1>2. fin' = <<[act |-> act, kill |-> kill]>> /\ lastAct' = act /\ askedAt' = newest
  BY <1>1 DEF Write
<1>3. /\ Len(fin') = 1 /\ fin'[1] = [act |-> act, kill |-> kill] /\ fin' # <<>>
      /\ fin' \in Seq(Lines)
  BY <1>2 DEF Lines
<1>4. KillWritten' <=> kill
  BY <1>3 DEF KillWritten
<1>5. TypeOK'
  BY <1>2, <1>3 DEF TypeOK, Write, replyVars, tickVars
<1>6. GuardsBehind' /\ LastLine' /\ LatestAction'
  BY <1>2, <1>3 DEF GuardsBehind, LastLine, LatestAction, Write, replyVars
<1>7. Lockstep' /\ AnsweredAtOnce'
  BY <1>1, <1>2, <1>3 DEF Lockstep, AnsweredAtOnce, Write, replyVars
<1>8. KillIsKept'
  <2>1. ~KillWritten
    BY <1>1 DEF KillWritten
  <2>2. ai_wantskill' = ai_wantskill
    BY DEF Write
  <2> QED BY <1>4, <2>1, <2>2 DEF KillIsKept
<1> QED BY <1>5, <1>6, <1>7, <1>8

\* The environment reads the reply.
LEMMA ReadReplyInv == ASSUME IInv, ReadReply PROVE IInv'
<1> USE DEF IInv
<1>0. /\ Len(fin) \in Nat /\ Len(fout) \in Nat /\ Len(fout) # 0
      /\ Len(fin) = 0 => fin = <<>>
  BY DEF ReadReply, TypeOK
<1>1. /\ Len(fout) = 1 /\ Len(fin) = 0 /\ ~ai_waitsreply /\ fin = <<>>
  <2>1. Len(fin) + Len(fout) + Owes = 1 /\ Owes \in Nat
    BY DEF ReadReply, Lockstep, Owes
  <2>2. Len(fout) + Len(fin) + Owes <= 1
    BY <1>0, <2>1
  <2>3. Len(fout) = 1 /\ Len(fin) = 0 /\ Owes = 0
    BY <1>0, <2>1, <2>2, OnlyOne
  <2> QED BY <1>0, <2>3 DEF Owes
<1>2. fout' \in Seq(SUBSET RwdTiles) /\ Len(fout') = 0
  BY <1>1 DEF ReadReply, TypeOK
<1>3. envPc' = "idle" /\ isdone' \in BOOLEAN
  BY DEF ReadReply
<1>4. TypeOK'
  BY <1>2, <1>3 DEF TypeOK, ReadReply, readVars, tickVars
<1>5. Lockstep' /\ AnsweredAtOnce'
  BY <1>1, <1>2, <1>3 DEF Lockstep, AnsweredAtOnce, ReadReply, readVars
<1>6. GuardsBehind' /\ LastLine' /\ LatestAction'
  BY DEF GuardsBehind, LastLine, LatestAction, ReadReply, readVars
<1>7. KillIsKept'
  BY DEF KillIsKept, KillWritten, ReadReply, readVars
<1> QED BY <1>4, <1>5, <1>6, <1>7

\* A new snapshot changes what will be simulated, and nothing of the exchange.
LEMMA SnapshotInv ==
  ASSUME IInv, NEW n \in 1..2, NEW skip \in BOOLEAN, Snapshot(n, skip)
  PROVE  IInv'
<1> USE DEF IInv
<1>1. TypeOK'
  BY DEF TypeOK, Snapshot, envVars, readVars, replyVars
<1>2. GuardsBehind' /\ LastLine' /\ LatestAction' /\ Lockstep' /\ AnsweredAtOnce'
  BY DEF GuardsBehind, LastLine, LatestAction, Lockstep, AnsweredAtOnce, Snapshot, envVars,
         readVars, replyVars
<1>3. KillIsKept'
  BY DEF KillIsKept, KillWritten, Snapshot, readVars
<1> QED BY <1>1, <1>2, <1>3

\* A frame sends the input and the kill that wait to be sent.
LEMMA PredictInv == ASSUME IInv, NEW n \in 0..2, Predict(n) PROVE IInv'
<1> USE DEF IInv
<1>1. /\ fin' = fin /\ fout' = fout /\ ai_waitsreply' = ai_waitsreply /\ envPc' = envPc
      /\ ai_rinp_tick' = ai_rinp_tick /\ ai_reply_tick' = ai_reply_tick
      /\ lasttick' = lasttick /\ newest' = newest /\ askedAt' = askedAt
      /\ lastAct' = lastAct /\ isdone' = isdone
      /\ ai_gotrwd' = ai_gotrwd /\ ai_killtick' = ai_killtick
      /\ KillWritten' = KillWritten
  BY DEF Predict, envVars, replyVars, KillWritten
<1>2. \/ SnapInput
      \/ UNCHANGED <<ai_gaveinp, ai_inp, ai_wantskill, owesKill>>
  BY DEF Predict
<1>3. /\ ai_inp' \in Actions \cup {Stand, Local}
      /\ ai_gaveinp' \in BOOLEAN /\ ai_wantskill' \in BOOLEAN /\ owesKill' \in BOOLEAN
  BY <1>2 DEF SnapInput, TypeOK
<1>4. /\ GameTick' \in Nat /\ PredTick' \in Nat /\ cur' \in Nat /\ last' \in Nat
      /\ Repredict' \in BOOLEAN
  <2>1. n \in Nat /\ PredTick + n \in Nat /\ GameTick + 1 \in Nat
    BY DEF TypeOK
  <2> QED BY <2>1 DEF Predict, TypeOK
<1>5. TypeOK'
  BY <1>1, <1>3, <1>4 DEF TypeOK
<1>6. GuardsBehind' /\ LastLine' /\ Lockstep' /\ AnsweredAtOnce'
  BY <1>1 DEF GuardsBehind, LastLine, Lockstep, AnsweredAtOnce
<1>7. LatestAction'
  BY <1>1, <1>2 DEF LatestAction, SnapInput
<1>8. KillIsKept'
  <2>1. CASE SnapInput
    <3>1. ai_wantskill' = FALSE /\ owesKill' = (owesKill /\ (ai_wantskill => KillWritten))
      BY <2>1 DEF SnapInput
    <3> QED BY <1>1, <3>1, Zenon DEF KillIsKept
  <2>2. CASE UNCHANGED <<ai_gaveinp, ai_inp, ai_wantskill, owesKill>>
    BY <1>1, <2>2 DEF KillIsKept
  <2> QED BY <1>2, <2>1, <2>2
<1> QED BY <1>5, <1>6, <1>7, <1>8

\* A tick reads a line or not, and answers or not.
LEMMA TickInv ==
  ASSUME IInv, NEW moved \in SUBSET (RwdTiles \cup {"SPAWN"}), CharacterTick(moved)
  PROVE  IInv'
<1> DEFINE skip == lasttick = cur
           read == ~skip /\ ai_rinp_tick # cur /\ fin # <<>>
           replies == ~skip /\ ai_reply_tick # cur /\ (ai_waitsreply \/ read)
<1> USE DEF IInv
<1>1. /\ cur' = cur + 1 /\ lasttick' = cur
      /\ newest' = IF cur > newest THEN cur ELSE newest
      /\ IF read THEN ai_getinp(cur) ELSE UNCHANGED readVars
      /\ IF replies THEN ai_reply(cur, moved) ELSE UNCHANGED replyVars
      /\ ai_waitsreply' = Waits(read, replies)
      /\ UNCHANGED <<envVars, tickVars, owesKill>>
  BY DEF CharacterTick, Simulate
<1>2. /\ Len(fin) \in Nat /\ Len(fout) \in Nat
      /\ fin = <<>> <=> Len(fin) = 0
      /\ fout = <<>> <=> Len(fout) = 0
  BY DEF TypeOK
<1>3. /\ fin' \in Seq(Lines) /\ ai_inp' \in Actions \cup {Stand, Local}
      /\ ai_gaveinp' \in BOOLEAN /\ ai_wantskill' \in BOOLEAN
      /\ Len(fin') = IF read THEN 0 ELSE Len(fin)
      /\ ai_rinp_tick' = IF read THEN cur ELSE ai_rinp_tick
  <2>1. CASE read
    <3>1. fin[Len(fin)] \in Lines
      BY <1>2, <2>1 DEF TypeOK
    <3> QED BY <1>1, <2>1, <3>1 DEF ai_getinp, TypeOK, Lines
  <2>2. CASE ~read
    BY <1>1, <2>2 DEF readVars, TypeOK
  <2> QED BY <2>1, <2>2
<1>4. /\ fout' \in Seq(SUBSET RwdTiles) /\ ai_gotrwd' \in SUBSET RwdTiles
      /\ ai_killtick' \in Nat
      /\ Len(fout') = IF replies THEN Len(fout) + 1 ELSE Len(fout)
      /\ ai_reply_tick' = IF replies THEN cur ELSE ai_reply_tick
  <2>1. CASE replies
    <3> DEFINE new == (moved \cap RwdTiles) \ ai_gotrwd
    <3>1. fout' = Append(fout, new) /\ new \in SUBSET RwdTiles
      BY <1>1, <2>1 DEF ai_reply
    <3>2. ai_gotrwd' \in SUBSET RwdTiles /\ ai_killtick' \in Nat /\ ai_reply_tick' = cur
      BY <1>1, <2>1 DEF ai_reply, TypeOK
    <3> QED BY <2>1, <3>1, <3>2 DEF TypeOK
  <2>2. CASE ~replies
    BY <1>1, <2>2 DEF replyVars, TypeOK
  <2> QED BY <2>1, <2>2
<1>5. ai_waitsreply' = ((ai_waitsreply \/ read) /\ ~replies)
  BY <1>1 DEF Waits
<1>6. TypeOK'
  <2>1. newest' \in Nat /\ lasttick' \in Nat /\ cur' \in Nat
    BY <1>1 DEF TypeOK
  <2>2. ai_rinp_tick' \in Nat /\ ai_reply_tick' \in Nat
    BY <1>3, <1>4 DEF TypeOK
  <2>3. ai_waitsreply' \in BOOLEAN
    BY <1>5
  <2> QED BY <1>1, <1>3, <1>4, <2>1, <2>2, <2>3 DEF TypeOK, envVars, tickVars
<1>7. GuardsBehind'
  BY <1>1, <1>3, <1>4 DEF GuardsBehind, TypeOK
<1> HIDE DEF read, replies
<1>8. Lockstep'
  <2>1. envPc' = envPc
    BY <1>1 DEF envVars
  <2>2. read => Len(fin) # 0
    BY <1>2 DEF read
  <2>3. replies => ai_waitsreply \/ read
    BY DEF replies
  <2>4. Owes \in Nat /\ Owes' \in Nat
    BY DEF Owes
  <2>5. Len(fin) + Len(fout) + Owes = Len(fin') + Len(fout') + Owes'
    <3>0. Len(fin) + Len(fout) + Owes <= 1
      BY DEF Lockstep, Owes
    <3>1. CASE read
      <4>1. Len(fin) = 1 /\ Len(fout) = 0 /\ Owes = 0
        BY <1>2, <2>2, <2>4, <3>0, <3>1, OnlyOne
      <4>2. Owes' = IF replies THEN 0 ELSE 1
        BY <1>5, <3>1 DEF Owes
      <4> QED BY <1>3, <1>4, <3>1, <4>1, <4>2
    <3>2. CASE ~read /\ replies
      <4>1. Owes = 1 /\ Owes' = 0
        BY <1>5, <2>3, <3>2 DEF Owes
      <4> QED BY <1>2, <1>3, <1>4, <3>2, <4>1
    <3>3. CASE ~read /\ ~replies
      <4>1. Owes' = Owes
        BY <1>5, <3>3 DEF Owes
      <4> QED BY <1>2, <1>3, <1>4, <3>3, <4>1
    <3> QED BY <3>1, <3>2, <3>3
  <2> QED BY <2>1, <2>5 DEF Lockstep, Owes
<1>9. AnsweredAtOnce'
  <2> SUFFICES ASSUME envPc' # "idle", fout' = <<>> PROVE newest' = askedAt'
    BY DEF AnsweredAtOnce
  <2>1. envPc # "idle" /\ askedAt' = askedAt
    BY <1>1 DEF envVars
  <2>2. Len(fout') = 0
    OBVIOUS
  <2>3. ~replies /\ fout = <<>>
    BY <1>2, <1>4, <2>2
  <2>4. newest = askedAt
    BY <2>1, <2>3 DEF AnsweredAtOnce
  <2>5. ~(cur > newest)
    <3> SUFFICES ASSUME cur > newest PROVE FALSE
      OBVIOUS
    <3>1. lasttick # cur /\ ai_rinp_tick # cur /\ ai_reply_tick # cur
      BY DEF GuardsBehind, TypeOK
    <3>2. ai_waitsreply \/ fin # <<>>
      BY <1>2, <2>1, <2>3 DEF Lockstep
    <3> QED BY <2>3, <3>1, <3>2 DEF replies, read
  <2> QED BY <1>1, <2>1, <2>4, <2>5 DEF TypeOK
<1>10. KillIsKept'
  <2>1. owesKill' = owesKill
    BY <1>1
  <2>2. CASE read
    <3>1. ai_wantskill' = (ai_wantskill \/ KillWritten) /\ fin' = <<>>
      BY <1>1, <2>2 DEF ai_getinp
    <3>2. ~KillWritten'
      BY <3>1 DEF KillWritten
    <3> QED BY <2>1, <3>1, <3>2, Zenon DEF KillIsKept
  <2>3. CASE ~read
    BY <1>1, <2>1, <2>3 DEF KillIsKept, KillWritten, readVars
  <2> QED BY <2>2, <2>3
<1>11. LastLine' /\ LatestAction'
  <2>1. lastAct' = lastAct
    BY <1>1 DEF envVars
  <2>2. CASE read
    <3>1. ai_inp' = fin[Len(fin)].act /\ fin' = <<>> /\ fin # <<>>
      BY <1>1, <2>2 DEF ai_getinp, read
    <3> QED BY <2>1, <3>1 DEF LastLine, LatestAction
  <2>3. CASE ~read
    BY <1>1, <2>1, <2>3 DEF LastLine, LatestAction, readVars
  <2> QED BY <2>2, <2>3
<1> QED BY <1>6, <1>7, <1>8, <1>9, <1>10, <1>11

\* Every step of the environment and of the client preserves the invariant.
LEMMA StepInv == IInv /\ [Next]_vars => IInv'
<1> SUFFICES ASSUME IInv, [Next]_vars PROVE IInv'
  OBVIOUS
<1>1. ASSUME NEW act \in Actions, Step(act) PROVE IInv'
  <2>1. owesKill' = (owesKill \/ FALSE)
    BY <1>1 DEF Step, IInv, TypeOK
  <2>2. /\ Write(act, FALSE) /\ envPc = "idle" /\ envPc' \in {"step", "reset"}
        /\ act \in Actions \cup {Stand} /\ FALSE \in BOOLEAN
    BY <1>1 DEF Step
  <2> QED BY <2>1, <2>2, WriteInv
<1>2. CASE Reset
  <2>1. owesKill' = (owesKill \/ TRUE)
    BY <1>2 DEF Reset
  <2>2. /\ Write(Stand, TRUE) /\ envPc = "idle" /\ envPc' \in {"step", "reset"}
        /\ Stand \in Actions \cup {Stand} /\ TRUE \in BOOLEAN
    BY <1>2 DEF Reset
  <2> QED BY <2>1, <2>2, WriteInv
<1>3. CASE ReadReply
  BY <1>3, ReadReplyInv
<1>4. ASSUME NEW moved \in SUBSET (RwdTiles \cup {"SPAWN"}), CharacterTick(moved)
      PROVE  IInv'
  BY <1>4, TickInv
<1>5. ASSUME NEW n \in 1..2, NEW skip \in BOOLEAN, Snapshot(n, skip) PROVE IInv'
  BY <1>5, SnapshotInv
<1>6. ASSUME NEW n \in 0..2, Predict(n) PROVE IInv'
  BY <1>6, PredictInv
<1>7. CASE UNCHANGED vars
  BY <1>7 DEF vars, envVars, readVars, replyVars, tickVars, IInv, TypeOK, GuardsBehind,
             LastLine, Lockstep, AnsweredAtOnce, KillIsKept, KillWritten, LatestAction
<1> QED BY <1>1, <1>2, <1>3, <1>4, <1>5, <1>6, <1>7 DEF Next

\* The invariant holds in every state.
LEMMA Invariance == Spec => []IInv
  BY InitInv, StepInv, PTL DEF Spec

\* The environment and the client take turns, however often and in whatever order
\* the client simulates its ticks: no action or reply is lost or doubled.
THEOREM TurnsAreTaken == Spec => []Lockstep
<1>1. IInv => Lockstep
  BY DEF IInv
<1> QED BY <1>1, Invariance, PTL

\* The environment is answered in the first new tick after it has written: the
\* ticks that ai_getinp and ai_reply refuse are never new ones.
THEOREM Answered == Spec => []AnsweredAtOnce
<1>1. IInv => AnsweredAtOnce
  BY DEF IInv
<1> QED BY <1>1, Invariance, PTL

\* The kill a reset asks for is kept until it is sent to the server.
THEOREM KillsAreKept == Spec => []KillIsKept
<1>1. IInv => KillIsKept
  BY DEF IInv
<1> QED BY <1>1, Invariance, PTL

\* The input that is sent to the server is the latest action written.
THEOREM LatestIsSent == Spec => []LatestAction
<1>1. IInv => LatestAction
  BY DEF IInv
<1> QED BY <1>1, Invariance, PTL

-----------------------------------------------------------------------------
(***************************************************************************)
(* The search.  The field leads downhill because entries are for open      *)
(* tiles and never promise less than the best distance (QueueInv); what    *)
(* was expanded is final because no entry is nearer (ExpandedInv).         *)
(***************************************************************************)

Entry(p) == [d |-> bd[p], p |-> p]

\* Entries are for open tiles and never promise less than the best distance.
QueueInv ==
  \A tv \in tilevs : ~issolid(tv.p) /\ bd[tv.p] <= tv.d

\* A tile that was reached and has no entry for its distance is expanded: it
\* offers no shorter way to a neighbour, and no entry is nearer.
Expanded(p) == bd[p] < Huge /\ Entry(p) \notin tilevs
ExpandedInv ==
  \A p \in Tiles : Expanded(p) =>
    /\ \A q \in Tiles : Passable(p, q) => bd[q] <= bd[p] + Length(p, q)
    /\ \A tv \in tilevs : bd[p] <= tv.d

FieldInv == FieldTypeOK /\ QueueInv /\ FieldDescends /\ ExpandedInv

\* The length of a step is a positive number.
LEMMA LengthType == \A p, q : Length(p, q) \in Nat \ {0}
BY LengthAssumption DEF Length

\* A tile is the pair of its coordinates.
LEMMA TilePair ==
  ASSUME NEW p \in Tiles
  PROVE  p = <<p[1], p[2]>> /\ p[1] \in 0 .. fldw - 1 /\ p[2] \in 0 .. fldh - 1
BY DEF Tiles

\* The number of a direction is not None, and ai_getfield finds the way back.
LEMMA EncodeBack ==
  ASSUME NEW d \in Dirs
  PROVE  /\ Encode(d) \in 0 .. 8 /\ Encode(d) # None
         /\ (Encode(d) % 3) - 1 = -d[1] /\ (Encode(d) \div 3) - 1 = -d[2]
<1>1. d[1] \in {-1, 0, 1} /\ d[2] \in {-1, 0, 1} /\ ~(d[1] = 0 /\ d[2] = 0)
  BY DEF Dirs
<1>2. CASE d[2] = -1
  BY <1>1, <1>2 DEF Encode, None
<1>3. CASE d[2] = 0
  BY <1>1, <1>3 DEF Encode, None
<1>4. CASE d[2] = 1
  BY <1>1, <1>4 DEF Encode, None
<1> QED
  BY <1>1, <1>2, <1>3, <1>4

\* One may step back where the loop went on, over the same distance.
LEMMA StepBack ==
  ASSUME NEW p \in Tiles, NEW q \in Tiles, Passable(p, q), ~issolid(p)
  PROVE  Passable(q, p) /\ Length(q, p) = Length(p, q) /\ p # q
<1>1. /\ p[1] \in Int /\ p[2] \in Int /\ q[1] \in Int /\ q[2] \in Int
  BY TilePair, SizeAssumption
<1>2. Toward(p, q) \in Dirs /\ Toward(q, p) \in Dirs
  BY <1>1 DEF Passable, Dirs, Toward
<1>3. IsDiagonal(Toward(p, q)) <=> IsDiagonal(Toward(q, p))
  BY <1>1 DEF IsDiagonal, Toward
<1>4. p # q
  BY <1>1, <1>2 DEF Toward, Dirs
<1> QED
  BY <1>2, <1>3, <1>4 DEF Passable, Length

\* FieldInv holds at the start.
LEMMA FieldInitInv == FieldInit => FieldInv
<1> SUFFICES ASSUME FieldInit PROVE FieldInv
  OBVIOUS
<1> USE LengthAssumption
<1>1. FieldTypeOK
  BY DEF FieldInit, FieldTypeOK, None
<1>2. QueueInv
  BY DEF FieldInit, QueueInv, issolid
<1>3. FieldDescends
  BY DEF FieldInit, FieldDescends
<1>4. ExpandedInv
  <2> SUFFICES ASSUME NEW p \in Tiles, Expanded(p) PROVE FALSE
    BY DEF ExpandedInv
  <2>1. map[p] = "finish"
    BY DEF FieldInit, Expanded
  <2> QED
    BY <2>1 DEF FieldInit, Expanded, Entry
<1> QED
  BY <1>1, <1>2, <1>3, <1>4 DEF FieldInv

\* What a turn of the loop does to a tile that it improves, and to the others.
LEMMA ExpandFacts ==
  ASSUME FieldInv, NEW tv \in tilevs, Expand(tv)
  PROVE  /\ tv.d \in Nat /\ tv.p \in Tiles /\ tv.p \notin Better(tv)
         /\ \A p, q \in Tiles : Passable(p, q)' <=> Passable(p, q)
         /\ \A p \in Better(tv) :
              /\ p \in Tiles /\ Passable(tv.p, p)
              /\ bd'[p] = tv.d + Length(tv.p, p) /\ bd'[p] < bd[p]
              /\ ai_field'[p] = Encode(Toward(tv.p, p))
         /\ \A p \in Tiles \ Better(tv) : bd'[p] = bd[p] /\ ai_field'[p] = ai_field[p]
         /\ \A p \in Tiles : bd[p] \in 0 .. Huge /\ bd'[p] \in 0 .. Huge /\ bd'[p] <= bd[p]
<1>1. tv.d \in Nat /\ tv.p \in Tiles
  BY DEF FieldInv, FieldTypeOK
<1>2. tv.p \notin Better(tv)
  BY <1>1, TilePair, SizeAssumption DEF Better, Passable, Toward, Dirs
<1>3. \A p, q \in Tiles : Passable(p, q)' <=> Passable(p, q)
  BY DEF Expand, Passable, issolid
<1>4. \A p \in Better(tv) :
        /\ p \in Tiles /\ Passable(tv.p, p)
        /\ bd'[p] = tv.d + Length(tv.p, p) /\ bd'[p] < bd[p]
        /\ ai_field'[p] = Encode(Toward(tv.p, p))
  BY DEF Expand, Better
<1>5. \A p \in Tiles \ Better(tv) : bd'[p] = bd[p] /\ ai_field'[p] = ai_field[p]
  BY DEF Expand
<1>6. \A p \in Tiles : bd[p] \in 0 .. Huge
  BY DEF FieldInv, FieldTypeOK
<1>7. \A p \in Tiles : bd'[p] \in 0 .. Huge /\ bd'[p] <= bd[p]
  BY <1>1, <1>4, <1>5, <1>6, LengthType, LengthAssumption
<1> QED
  BY <1>1, <1>2, <1>3, <1>4, <1>5, <1>6, <1>7

\* A turn of the loop preserves the types.
LEMMA ExpandTypeOK ==
  ASSUME FieldInv, NEW tv \in tilevs, Expand(tv)
  PROVE  FieldTypeOK'
<1>1. map' \in [Tiles -> TileKinds]
  BY DEF Expand, FieldInv, FieldTypeOK
<1>2. tilevs' \subseteq [d : Nat, p : Tiles]
  <2>1. Queued(tv) \subseteq [d : Nat, p : Tiles]
    BY ExpandFacts, LengthType DEF Queued, Better
  <2> QED
    BY <2>1 DEF Expand, FieldInv, FieldTypeOK
<1>3. bd' \in [Tiles -> 0 .. Huge]
  <2>1. bd' = [q \in Tiles |-> bd'[q]]
    BY DEF Expand
  <2> QED
    BY <2>1, ExpandFacts
<1>4. ai_field' \in [Tiles -> 0 .. 8]
  <2>1. \A q \in Better(tv) : Encode(Toward(tv.p, q)) \in 0 .. 8
    BY EncodeBack DEF Better, Passable
  <2> QED
    BY <2>1 DEF Expand, FieldInv, FieldTypeOK
<1> QED
  BY <1>1, <1>2, <1>3, <1>4 DEF FieldTypeOK

\* A turn of the loop preserves what is known of the entries.
LEMMA ExpandQueueInv ==
  ASSUME FieldInv, NEW tv \in tilevs, Expand(tv)
  PROVE  QueueInv'
<1> SUFFICES ASSUME NEW e \in tilevs' PROVE ~issolid(e.p)' /\ bd'[e.p] <= e.d
  BY DEF QueueInv
<1>1. CASE e \in tilevs
  <2>1. e.p \in Tiles /\ e.d \in Nat /\ bd[e.p] <= e.d /\ ~issolid(e.p)
    BY <1>1 DEF FieldInv, FieldTypeOK, QueueInv
  <2>2. bd'[e.p] <= bd[e.p] /\ bd[e.p] \in Int /\ bd'[e.p] \in Int
    BY <2>1, ExpandFacts
  <2> QED
    BY <2>1, <2>2 DEF Expand, issolid
<1>2. CASE e \in Queued(tv)
  <2> PICK q \in Better(tv) : e = [d |-> tv.d + Length(tv.p, q), p |-> q]
    BY <1>2 DEF Queued
  <2>1. e.p = q /\ e.d = bd'[q] /\ bd'[q] \in Int /\ Passable(tv.p, q)
    BY ExpandFacts
  <2> QED
    BY <2>1 DEF Passable, Expand, issolid
<1> QED
  BY <1>1, <1>2 DEF Expand

\* A turn of the loop keeps the field going downhill.
LEMMA ExpandFieldDescends ==
  ASSUME FieldInv, NEW tv \in tilevs, Expand(tv)
  PROVE  FieldDescends'
<1> SUFFICES ASSUME NEW p \in Tiles
             PROVE  /\ bd'[p] = 0 <=> map'[p] = "finish"
                    /\ map'[p] = "finish" => ai_field'[p] = None
                    /\ map'[p] # "finish" /\ bd'[p] < Huge => ai_field'[p] # None
                    /\ ai_field'[p] # None =>
                         /\ Onward(p)' \in Tiles
                         /\ Passable(p, Onward(p))'
                         /\ bd'[Onward(p)'] + Length(p, Onward(p)') <= bd'[p]
  BY DEF FieldDescends, Length
<1>1. map' = map
  BY DEF Expand
<1>2. CASE p \in Better(tv)
  <2>1. /\ tv.d \in Nat /\ tv.p \in Tiles /\ Passable(tv.p, p) /\ ~issolid(tv.p)
        /\ bd'[p] = tv.d + Length(tv.p, p) /\ bd'[p] < bd[p]
        /\ bd[p] \in 0 .. Huge /\ bd[tv.p] \in 0 .. Huge
        /\ bd'[tv.p] = bd[tv.p] /\ bd[tv.p] <= tv.d
        /\ ai_field'[p] = Encode(Toward(tv.p, p))
    BY <1>2, ExpandFacts DEF FieldInv, QueueInv
  <2>2. Toward(tv.p, p) \in Dirs
    BY <2>1 DEF Passable
  <2>3. Onward(p)' = tv.p
    <3>1. /\ Toward(tv.p, p)[1] = p[1] - tv.p[1] /\ Toward(tv.p, p)[2] = p[2] - tv.p[2]
      BY DEF Toward
    <3>2. /\ p[1] \in Int /\ p[2] \in Int /\ tv.p[1] \in Int /\ tv.p[2] \in Int
          /\ tv.p = <<tv.p[1], tv.p[2]>>
      BY <2>1, TilePair, SizeAssumption
    <3>3. ai_getfield(p)' = <<tv.p[1] - p[1], tv.p[2] - p[2]>>
      BY <2>1, <2>2, <3>1, <3>2, EncodeBack DEF ai_getfield
    <3> QED
      BY <3>2, <3>3 DEF Onward
  <2>4. Passable(p, tv.p)' /\ Length(p, tv.p) = Length(tv.p, p)
    BY <2>1, StepBack, ExpandFacts
  <2>5. Length(tv.p, p) \in Nat \ {0}
    BY LengthType
  <2>6. ai_field'[p] # None
    BY <2>1, <2>2, EncodeBack
  <2>7. bd'[p] # 0 /\ map[p] # "finish"
    BY <2>1, <2>5 DEF FieldInv, FieldDescends
  <2> QED
    BY <1>1, <2>1, <2>3, <2>4, <2>5, <2>6, <2>7
<1>3. CASE p \notin Better(tv)
  <2>1. bd'[p] = bd[p] /\ ai_field'[p] = ai_field[p] /\ bd[p] \in 0 .. Huge
    BY <1>3, ExpandFacts
  <2>2. Onward(p)' = Onward(p)
    BY <2>1 DEF Onward, ai_getfield
  <2>3. ASSUME ai_field[p] # None
        PROVE  /\ Onward(p) \in Tiles /\ Passable(p, Onward(p))'
               /\ bd'[Onward(p)] + Length(p, Onward(p)) <= bd[p]
    <3>1. /\ Onward(p) \in Tiles /\ Passable(p, Onward(p))
          /\ bd[Onward(p)] + Length(p, Onward(p)) <= bd[p]
      BY <2>3 DEF FieldInv, FieldDescends
    <3>2. Passable(p, Onward(p))'
      BY <3>1, <2>2, ExpandFacts
    <3>3. /\ bd'[Onward(p)] <= bd[Onward(p)]
          /\ bd'[Onward(p)] \in Int /\ bd[Onward(p)] \in Int
      BY <3>1, ExpandFacts
    <3> QED
      BY <2>1, <3>1, <3>2, <3>3, LengthType
  <2> QED
    BY <1>1, <2>1, <2>2, <2>3 DEF FieldInv, FieldDescends
<1> QED
  BY <1>2, <1>3

\* A turn of the loop never touches an expanded tile.
LEMMA ExpandedStays ==
  ASSUME FieldInv, NEW tv \in tilevs, Expand(tv), NEW p \in Tiles, Expanded(p)
  PROVE  p \notin Better(tv)
<1>1. bd[p] <= tv.d /\ tv.d \in Nat /\ bd[p] \in 0 .. Huge
  BY ExpandFacts DEF FieldInv, ExpandedInv
<1> QED
  BY <1>1, LengthType DEF Better

\* A turn of the loop preserves what is known of the expanded tiles.
LEMMA ExpandExpandedInv ==
  ASSUME FieldInv, NEW tv \in tilevs, Expand(tv)
  PROVE  ExpandedInv'
<1> SUFFICES ASSUME NEW p \in Tiles, Expanded(p)'
             PROVE  /\ \A q \in Tiles :
                         Passable(p, q)' => bd'[q] <= bd'[p] + Length(p, q)
                    /\ \A e \in tilevs' : bd'[p] <= e.d
  BY DEF ExpandedInv, Length
<1>1. bd'[p] < Huge /\ [d |-> bd'[p], p |-> p] \notin tilevs'
  BY DEF Expanded, Entry
<1>2. p \notin Better(tv)
  <2> SUFFICES ASSUME p \in Better(tv) PROVE FALSE
    OBVIOUS
  <2>1. [d |-> bd'[p], p |-> p] \in Queued(tv)
    BY ExpandFacts DEF Queued
  <2>2. [d |-> bd'[p], p |-> p] # tv
    BY ExpandFacts
  <2> QED
    BY <1>1, <2>1, <2>2 DEF Expand
<1>3. bd'[p] = bd[p] /\ bd[p] \in 0 .. Huge /\ tv.d \in Nat
  BY <1>2, ExpandFacts
<1>4. \A e \in tilevs' : tv.d <= e.d /\ (e \in tilevs \/ e.d \in Nat)
  BY ExpandFacts, LengthType DEF Expand, IsFirst, Queued
<1>5. \A e \in tilevs' : e.d \in Nat /\ tv.d <= e.d
  BY <1>4 DEF FieldInv, FieldTypeOK
<1>6. CASE Entry(p) \in tilevs
  <2>1. Entry(p) = tv
    BY <1>1, <1>3, <1>6 DEF Entry, Expand
  <2>2. tv.p = p /\ tv.d = bd[p]
    BY <2>1 DEF Entry
  <2>3. ASSUME NEW q \in Tiles, Passable(p, q)
        PROVE  bd'[q] <= bd[p] + Length(p, q)
    BY <2>2, <2>3, ExpandFacts, LengthType DEF Better
  <2> QED
    BY <1>3, <1>5, <2>2, <2>3, ExpandFacts
<1>7. CASE Entry(p) \notin tilevs
  <2>1. Expanded(p)
    BY <1>1, <1>3, <1>7 DEF Expanded
  <2>2. bd[p] <= tv.d
    BY <2>1 DEF FieldInv, ExpandedInv
  <2>3. ASSUME NEW q \in Tiles, Passable(p, q)
        PROVE  bd'[q] <= bd[p] + Length(p, q)
    <3>1. bd[q] <= bd[p] + Length(p, q)
      BY <2>1, <2>3 DEF FieldInv, ExpandedInv
    <3> QED
      BY <1>3, <3>1, ExpandFacts, LengthType
  <2> QED
    BY <1>3, <1>5, <2>2, <2>3, ExpandFacts
<1> QED
  BY <1>6, <1>7

\* FieldInv is an invariant of every turn of the loop.
LEMMA FieldNextInv == FieldInv /\ [FieldNext]_fieldVars => FieldInv'
<1> SUFFICES ASSUME FieldInv, [FieldNext]_fieldVars PROVE FieldInv'
  OBVIOUS
<1>1. CASE FieldNext
  <2> PICK tv \in tilevs : Expand(tv)
    BY <1>1 DEF FieldNext
  <2> QED
    BY ExpandTypeOK, ExpandQueueInv, ExpandFieldDescends, ExpandExpandedInv DEF FieldInv
<1>2. CASE UNCHANGED fieldVars
  BY <1>2 DEF fieldVars, FieldInv, FieldTypeOK, QueueInv, FieldDescends, ExpandedInv,
              Expanded, Entry, Onward, ai_getfield, Passable, issolid, Length
<1> QED
  BY <1>1, <1>2 DEF FieldNext

\* FieldInv holds throughout the search.
LEMMA FieldInvariance == FieldSpec => []FieldInv
BY FieldInitInv, FieldNextInv, PTL DEF FieldSpec

\* ai_setupfield keeps its tables well typed, on maps of every size.
THEOREM FieldTypeCorrect == FieldSpec => []FieldTypeOK
<1>1. FieldInv => FieldTypeOK
  BY DEF FieldInv
<1> QED
  BY <1>1, FieldInvariance, PTL

\* Whatever the map, and at every moment of the search, the field leads downhill
\* to a finish tile without entering a solid tile or cutting a solid corner.
THEOREM Descends == FieldSpec => []FieldDescends
<1>1. FieldInv => FieldDescends
  BY DEF FieldInv
<1> QED
  BY <1>1, FieldInvariance, PTL

\* When ai_setupfield returns, no way is shorter than the one the field follows.
THEOREM Optimal == FieldSpec => []NoShortcut
<1>1. FieldInv => NoShortcut
  BY DEF FieldInv, ExpandedInv, Expanded, NoShortcut
<1> QED
  BY <1>1, FieldInvariance, PTL

\* An expanded tile keeps its distance and its direction.
THEOREM Final == FieldSpec => ExpandedIsFinal
<1>1. FieldInv /\ [FieldNext]_fieldVars =>
        [\A p \in Tiles :
           bd[p] < Huge /\ [d |-> bd[p], p |-> p] \notin tilevs =>
             bd'[p] = bd[p] /\ ai_field'[p] = ai_field[p]]_fieldVars
  <2> SUFFICES ASSUME FieldInv, FieldNext, NEW p \in Tiles,
                      bd[p] < Huge, [d |-> bd[p], p |-> p] \notin tilevs
               PROVE  bd'[p] = bd[p] /\ ai_field'[p] = ai_field[p]
    OBVIOUS
  <2> PICK tv \in tilevs : Expand(tv)
    BY DEF FieldNext
  <2>1. p \notin Better(tv)
    BY ExpandedStays DEF Expanded, Entry
  <2> QED
    BY <2>1, ExpandFacts
<1> QED
  BY <1>1, FieldInvariance, PTL DEF FieldSpec, ExpandedIsFinal


-----------------------------------------------------------------------------
(***************************************************************************)
(* The field against the reference definition of the shortest walks.  A    *)
(* walk is never shorter than the distance, step by step (NoShortcut); and *)
(* following the field is a walk of just that length, with at most as many *)
(* steps as there are tiles nearer to the finish (FieldDescends).          *)
(* Both are inductions over numbers, by a least counterexample.            *)
(***************************************************************************)

MaxSteps == fldw * fldh - 1
NoStep == {<<p, 0>> : p \in {t \in Tiles : map[t] = "finish"}}

\* A set of numbers that is not empty has a least one.
LEMMA LeastNumber ==
  ASSUME NEW T, T \subseteq Nat, T # {}
  PROVE  \E x \in T : \A y \in T : x <= y
<1>1. \E x \in T : \A y \in T : ~ (<<y, x>> \in OpToRel(<, Nat))
  BY NatLessThanWellFounded, WFMin
<1>2. PICK x \in T : \A y \in T : ~ (y < x)
  BY <1>1 DEF OpToRel
<1> QED
  BY <1>2

\* Walks is defined: its equation has a solution, so the definition is one.
LEMMA WalksAre ==
  ASSUME MaxSteps \in Nat
  PROVE  /\ Walks[0] = NoStep
         /\ \A n \in 1 .. MaxSteps : Walks[n] = Longer(Walks[n - 1])
<1> DEFINE Solves(f, m) ==
             f = [n \in 0 .. m |-> IF n = 0 THEN NoStep ELSE Longer(f[n - 1])]
           T == {m \in Nat : ~ \E f : Solves(f, m)}
<1>1. T = {}
  <2> SUFFICES ASSUME T # {} PROVE FALSE
    OBVIOUS
  <2>1. PICK m \in T : \A k \in T : m <= k
    <3>1. T \subseteq Nat
      OBVIOUS
    <3> HIDE DEF T
    <3> QED BY <3>1, LeastNumber
  <2>2. CASE m = 0
    <3>1. Solves([n \in 0 .. 0 |-> NoStep], 0)
      OBVIOUS
    <3> QED BY <2>1, <2>2, <3>1
  <2>3. CASE m # 0
    <3>1. m \in Nat /\ m - 1 \in Nat /\ ~(m <= m - 1)
      BY <2>1, <2>3
    <3>2. PICK f : Solves(f, m - 1)
      BY <2>1, <3>1
    <3> DEFINE g == [n \in 0 .. m |-> IF n = m THEN Longer(f[m - 1]) ELSE f[n]]
    <3>3. \A n \in 0 .. m : g[n] = IF n = 0 THEN NoStep ELSE Longer(g[n - 1])
      <4> SUFFICES ASSUME NEW n \in 0 .. m
                   PROVE  g[n] = IF n = 0 THEN NoStep ELSE Longer(g[n - 1])
        OBVIOUS
      <4>1. CASE n = 0
        <5>1. 0 \in 0 .. m - 1 /\ 0 # m
          BY <3>1
        <5>2. f[0] = NoStep
          BY <3>2, <5>1
        <5> QED BY <4>1, <5>1, <5>2
      <4>2. CASE n # 0 /\ n # m
        <5>1. n \in 0 .. m - 1 /\ n - 1 \in 0 .. m /\ n - 1 # m
          BY <3>1, <4>2
        <5>2. f[n] = Longer(f[n - 1])
          BY <3>2, <4>2, <5>1
        <5> QED BY <4>2, <5>1, <5>2
      <4>3. CASE n = m /\ n # 0
        <5>1. m \in 0 .. m /\ m - 1 \in 0 .. m /\ m - 1 # m
          BY <3>1
        <5> QED BY <4>3, <5>1
      <4> QED BY <4>1, <4>2, <4>3
    <3>4. g = [n \in 0 .. m |-> g[n]]
      OBVIOUS
    <3>5. Solves(g, m)
      <4> HIDE DEF g
      <4> QED BY <3>3, <3>4
    <3> QED BY <2>1, <3>5
  <2> QED BY <2>2, <2>3
<1>2. PICK f : Solves(f, MaxSteps)
  BY <1>1
<1>3. Solves(Walks, MaxSteps)
  BY <1>2 DEF Walks, MaxSteps, NoStep
<1>4. 0 \in 0 .. MaxSteps /\ \A n \in 1 .. MaxSteps : n \in 0 .. MaxSteps /\ n # 0
  OBVIOUS
<1> QED BY <1>3, <1>4


\* A walk of at most i steps is one of at most j, for i <= j.
LEMMA WalksGrow ==
  ASSUME MaxSteps \in Nat, NEW i \in 0 .. MaxSteps
  PROVE  \A j \in i .. MaxSteps : Walks[i] \subseteq Walks[j]
<1> DEFINE T == {j \in i .. MaxSteps : ~ (Walks[i] \subseteq Walks[j])}
<1> SUFFICES ASSUME T # {} PROVE FALSE
  OBVIOUS
<1>1. PICK j \in T : \A k \in T : j <= k
  <2>1. T \subseteq Nat
    OBVIOUS
  <2> HIDE DEF T
  <2> QED BY <2>1, LeastNumber
<1>2. j # i
  BY <1>1
<1>3. j - 1 \in i .. MaxSteps /\ ~ (j <= j - 1) /\ j \in 1 .. MaxSteps
  BY <1>1, <1>2
<1>4. Walks[i] \subseteq Walks[j - 1]
  BY <1>1, <1>3
<1>5. Walks[j - 1] \subseteq Walks[j]
  BY <1>3, WalksAre DEF Longer
<1> QED BY <1>1, <1>4, <1>5

\* What is known of a walk w when the search has ended: it starts on an open tile,
\* and is no shorter than that tile's distance.
IsBounded(w) ==
  w \in Tiles \X Nat /\ ~issolid(w[1]) /\ bd[w[1]] <= w[2]

LEMMA LongerIsBounded ==
  ASSUME FieldInv, tilevs = {}, NEW S, \A w \in S : IsBounded(w)
  PROVE  \A w \in Longer(S) : IsBounded(w)
<1> SUFFICES ASSUME NEW x \in S, NEW p \in Tiles, ~issolid(p), Passable(p, x[1])
             PROVE  IsBounded(<<p, x[2] + Length(p, x[1])>>)
  BY DEF Longer
<1>1. x[1] \in Tiles /\ x[2] \in Nat /\ ~issolid(x[1]) /\ bd[x[1]] <= x[2]
  BY DEF IsBounded
<1>2. Passable(x[1], p) /\ Length(x[1], p) = Length(p, x[1])
  BY <1>1, StepBack
<1>3. bd[p] \in 0 .. Huge /\ bd[x[1]] \in 0 .. Huge
  BY <1>1 DEF FieldInv, FieldTypeOK
<1>4. bd[x[1]] < Huge => bd[p] <= bd[x[1]] + Length(p, x[1])
  BY <1>1, <1>2 DEF FieldInv, ExpandedInv, Expanded
<1>5. Length(p, x[1]) \in Nat
  BY LengthType
<1>6. bd[p] <= x[2] + Length(p, x[1]) /\ x[2] + Length(p, x[1]) \in Nat
  BY <1>1, <1>3, <1>4, <1>5, LengthAssumption
<1> QED BY <1>6 DEF IsBounded

\* When the search has ended no walk is shorter than the distance.
LEMMA WalksAreBounded ==
  ASSUME FieldInv, tilevs = {}, MaxSteps \in Nat
  PROVE  \A w \in Walks[MaxSteps] : IsBounded(w)
<1> DEFINE T == {n \in 0 .. MaxSteps : \E w \in Walks[n] : ~IsBounded(w)}
<1> SUFFICES ASSUME T # {} PROVE FALSE
  <2>1. MaxSteps \in 0 .. MaxSteps
    OBVIOUS
  <2> QED BY <2>1
<1>1. PICK n \in T : \A k \in T : n <= k
  <2>1. T \subseteq Nat
    OBVIOUS
  <2> HIDE DEF T
  <2> QED BY <2>1, LeastNumber
<1>2. CASE n = 0
  <2>1. \A p \in Tiles : map[p] = "finish" => IsBounded(<<p, 0>>)
    BY DEF IsBounded, issolid, FieldInv, FieldDescends
  <2> QED BY <1>1, <1>2, <2>1, WalksAre DEF NoStep
<1>3. CASE n # 0
  <2>1. n - 1 \in 0 .. MaxSteps /\ ~ (n <= n - 1) /\ n \in 1 .. MaxSteps
    BY <1>1, <1>3
  <2>2. \A w \in Walks[n - 1] : IsBounded(w)
    BY <1>1, <2>1
  <2>3. Walks[n] = Longer(Walks[n - 1])
    BY <2>1, WalksAre
  <2> QED BY <1>1, <2>2, <2>3, LongerIsBounded
<1> QED BY <1>2, <1>3

\* The tiles that are nearer to the finish than p.
Nearer(p) == {q \in Tiles : bd[q] < bd[p]}

\* There are fewer than the map has tiles, and more than are nearer than one of them.
LEMMA NearerCount ==
  ASSUME FieldInv, NEW p \in Tiles
  PROVE  /\ MaxSteps \in Nat /\ Cardinality(Nearer(p)) \in 0 .. MaxSteps
         /\ \A q \in Nearer(p) : Cardinality(Nearer(q)) + 1 <= Cardinality(Nearer(p))
<1>1. IsFiniteSet(Tiles) /\ Cardinality(Tiles) = fldw * fldh
  <2>1. fldw \in Nat /\ fldh \in Nat
    BY SizeAssumption
  <2>2. /\ IsFiniteSet(0 .. fldw - 1) /\ Cardinality(0 .. fldw - 1) = fldw
        /\ IsFiniteSet(0 .. fldh - 1) /\ Cardinality(0 .. fldh - 1) = fldh
    <3>1. \A n \in Nat : IsFiniteSet(0 .. n - 1) /\ Cardinality(0 .. n - 1) = n
      <4> TAKE n \in Nat
      <4>1. /\ IsFiniteSet(0 .. n - 1)
            /\ Cardinality(0 .. n - 1) = IF 0 > n - 1 THEN 0 ELSE (n - 1) - 0 + 1
        <5>1. 0 \in Int /\ n - 1 \in Int
          OBVIOUS
        <5> QED BY <5>1, FS_Interval
      <4>2. (IF 0 > n - 1 THEN 0 ELSE (n - 1) - 0 + 1) = n
        OBVIOUS
      <4> QED BY <4>1, <4>2
    <3> QED BY <2>1, <3>1
  <2> QED BY <2>2, FS_Product DEF Tiles
<1>2. \A q \in Tiles : bd[q] \in Int
  BY DEF FieldInv, FieldTypeOK
<1>3. \A q \in Tiles : IsFiniteSet(Nearer(q)) /\ Cardinality(Nearer(q)) \in Nat
  BY <1>1, FS_Subset, FS_CardinalityType DEF Nearer
<1>4. \A q \in Tiles : /\ IsFiniteSet(Nearer(q) \cup {q})
                       /\ Cardinality(Nearer(q) \cup {q}) = Cardinality(Nearer(q)) + 1
  <2> TAKE q \in Tiles
  <2>1. q \notin Nearer(q)
    BY <1>2 DEF Nearer
  <2> QED BY <1>3, <2>1, FS_AddElement
<1>5. Cardinality(Nearer(p)) + 1 <= Cardinality(Tiles)
  <2>1. Nearer(p) \cup {p} \in SUBSET Tiles
    BY DEF Nearer
  <2> QED BY <1>1, <1>4, <2>1, FS_Subset
<1>6. \A q \in Nearer(p) : Cardinality(Nearer(q)) + 1 <= Cardinality(Nearer(p))
  <2> TAKE q \in Nearer(p)
  <2>1. q \in Tiles /\ Nearer(q) \cup {q} \in SUBSET Nearer(p)
    BY <1>2 DEF Nearer
  <2>2. Cardinality(Nearer(q) \cup {q}) <= Cardinality(Nearer(p))
    BY <1>3, <2>1, FS_Subset
  <2> QED BY <1>4, <2>1, <2>2
<1>7. MaxSteps \in Nat /\ Cardinality(Nearer(p)) <= MaxSteps
  <2>1. PICK n : n = fldw * fldh
    OBVIOUS
  <2>2. n \in Int
    BY <2>1, SizeAssumption
  <2>3. PICK c \in Nat : c = Cardinality(Nearer(p))
    BY <1>3
  <2>4. c + 1 <= n
    BY <1>1, <1>5, <2>1, <2>3
  <2>5. n - 1 \in Nat /\ c <= n - 1
    BY <2>2, <2>4
  <2> QED BY <2>1, <2>3, <2>5 DEF MaxSteps
<1> QED BY <1>3, <1>6, <1>7


\* A tile that was reached is open.
ReachedIsOpen == \A p \in Tiles : bd[p] < Huge => ~issolid(p)

LEMMA OpenInvariance == FieldSpec => []ReachedIsOpen
<1>1. FieldInit => ReachedIsOpen
  BY LengthAssumption DEF FieldInit, ReachedIsOpen, issolid
<1>2. FieldInv /\ ReachedIsOpen /\ [FieldNext]_fieldVars => ReachedIsOpen'
  <2> SUFFICES ASSUME FieldInv, ReachedIsOpen, [FieldNext]_fieldVars
               PROVE  ReachedIsOpen'
    OBVIOUS
  <2>1. CASE FieldNext
    <3> PICK tv \in tilevs : Expand(tv)
      BY <2>1 DEF FieldNext
    <3> SUFFICES ASSUME NEW p \in Tiles, bd'[p] < Huge PROVE ~issolid(p)'
      BY DEF ReachedIsOpen
    <3>1. map' = map
      BY DEF Expand
    <3>2. CASE p \in Better(tv)
      BY <3>1, <3>2, ExpandFacts DEF Passable, issolid
    <3>3. CASE p \notin Better(tv)
      BY <3>1, <3>3, ExpandFacts DEF ReachedIsOpen, issolid
    <3> QED BY <3>2, <3>3
  <2>2. CASE UNCHANGED fieldVars
    BY <2>2 DEF fieldVars, ReachedIsOpen, issolid
  <2> QED BY <2>1, <2>2
<1> QED BY <1>1, <1>2, FieldInvariance, PTL DEF FieldSpec

\* p has a walk that is as short as its distance says, with at most one step per
\* tile that is nearer.
HasWalk(p) ==
  \E n \in 0 .. Cardinality(Nearer(p)), l \in Nat : <<p, l>> \in Walks[n] /\ l <= bd[p]

\* At every moment each tile that was reached has one: the way the field leads.
LEMMA ReachedHasWalk ==
  ASSUME FieldInv, ReachedIsOpen, NEW t \in Tiles, bd[t] < Huge
  PROVE  HasWalk(t)
<1> DEFINE T == {v \in Nat : v < Huge /\ \E p \in Tiles : bd[p] = v /\ ~HasWalk(p)}
<1>1. \A p \in Tiles : bd[p] \in 0 .. Huge
  BY DEF FieldInv, FieldTypeOK
<1> SUFFICES ASSUME T # {} PROVE FALSE
  BY <1>1
<1>2. PICK v \in T : \A k \in T : v <= k
  <2>1. T \subseteq Nat
    OBVIOUS
  <2> HIDE DEF T
  <2> QED BY <2>1, LeastNumber
<1>3. PICK p \in Tiles : bd[p] = v /\ v < Huge /\ v \in Nat /\ ~HasWalk(p)
  BY <1>2
<1>4. MaxSteps \in Nat /\ Cardinality(Nearer(p)) \in 0 .. MaxSteps
  BY NearerCount
<1>5. CASE map[p] = "finish"
  <2>1. <<p, 0>> \in Walks[0] /\ 0 <= bd[p] /\ 0 \in 0 .. Cardinality(Nearer(p))
    BY <1>3, <1>4, <1>5, WalksAre DEF NoStep
  <2> QED BY <1>3, <2>1 DEF HasWalk
<1>6. CASE map[p] # "finish"
  <2> DEFINE q == Onward(p)
  <2>1. q \in Tiles /\ Passable(p, q) /\ bd[q] + Length(p, q) <= bd[p]
    BY <1>3, <1>6 DEF FieldInv, FieldDescends
  <2>2. Length(p, q) \in Nat \ {0}
    BY LengthType
  <2> HIDE DEF q
  <2>3. bd[q] \in Nat /\ bd[q] < bd[p] /\ bd[q] < Huge
    BY <1>1, <1>3, <2>1, <2>2, LengthAssumption
  <2>4. HasWalk(q)
    BY <1>2, <1>3, <2>1, <2>3
  <2>5. PICK n \in 0 .. Cardinality(Nearer(q)), l \in Nat :
          <<q, l>> \in Walks[n] /\ l <= bd[q]
    BY <2>4 DEF HasWalk
  <2>6. q \in Nearer(p)
    BY <2>1, <2>3 DEF Nearer
  <2>7. PICK a \in Nat : a = Cardinality(Nearer(q))
    BY <2>1, NearerCount
  <2>8. a + 1 <= Cardinality(Nearer(p))
    BY <2>6, <2>7, NearerCount
  <2>9. /\ n + 1 \in 0 .. Cardinality(Nearer(p)) /\ n + 1 \in 1 .. MaxSteps
        /\ (n + 1) - 1 = n
    BY <1>4, <2>5, <2>7, <2>8
  <2>10. Walks[n + 1] = Longer(Walks[n])
    BY <1>4, <2>9, WalksAre
  <2>11. ~issolid(p)
    BY <1>3 DEF ReachedIsOpen
  <2>12. <<p, l + Length(p, q)>> \in Longer(Walks[n])
    <3> DEFINE x == <<q, l>>
    <3>1. x[1] = q /\ x[2] = l /\ x \in Walks[n]
      BY <2>5
    <3> HIDE DEF x
    <3> QED BY <2>1, <2>11, <3>1 DEF Longer
  <2>13. l + Length(p, q) \in Nat /\ l + Length(p, q) <= bd[p]
    BY <1>3, <2>1, <2>2, <2>3, <2>5
  <2> QED BY <1>3, <2>9, <2>10, <2>12, <2>13 DEF HasWalk
<1> QED BY <1>5, <1>6

\* When ai_setupfield returns, the distance of every tile is the length of its
\* shortest walk to a finish tile, or stands for none: on maps of every size.
THEOREM Shortest == FieldSpec => []IsShortest
<1>1. FieldInv /\ ReachedIsOpen => IsShortest
  <2> SUFFICES ASSUME FieldInv, ReachedIsOpen, tilevs = {}, NEW p \in Tiles
               PROVE  bd[p] = Min({Huge} \cup
                                  {x[2] : x \in {w \in Walks[MaxSteps] : w[1] = p}})
    BY DEF IsShortest, MaxSteps
  <2> DEFINE S == {Huge} \cup {x[2] : x \in {w \in Walks[MaxSteps] : w[1] = p}}
  <2>1. MaxSteps \in Nat /\ Cardinality(Nearer(p)) \in 0 .. MaxSteps
    BY NearerCount
  <2>2. bd[p] \in 0 .. Huge
    BY DEF FieldInv, FieldTypeOK
  <2>3. \A l \in S : l \in Nat /\ bd[p] <= l
    <3>1. \A w \in Walks[MaxSteps] : w[1] = p => w[2] \in Nat /\ bd[p] <= w[2]
      BY <2>1, WalksAreBounded DEF IsBounded
    <3> QED BY <2>2, <3>1, LengthAssumption
  <2>4. bd[p] \in S
    <3>1. CASE bd[p] = Huge
      BY <3>1
    <3>2. CASE bd[p] # Huge
      <4>1. bd[p] < Huge
        BY <2>2, <3>2, LengthAssumption
      <4>2. PICK n \in 0 .. Cardinality(Nearer(p)), l \in Nat :
              <<p, l>> \in Walks[n] /\ l <= bd[p]
        BY <4>1, ReachedHasWalk DEF HasWalk
      <4>3. n \in 0 .. MaxSteps /\ MaxSteps \in n .. MaxSteps
        BY <2>1, <4>2
      <4>4. <<p, l>> \in Walks[MaxSteps]
        BY <2>1, <4>2, <4>3, WalksGrow
      <4> DEFINE w == <<p, l>>
      <4>5. w \in Walks[MaxSteps] /\ w[1] = p /\ w[2] = l
        BY <4>4
      <4> HIDE DEF w
      <4>6. l \in S
        BY <4>5
      <4>7. bd[p] <= l
        BY <2>3, <4>6
      <4>8. bd[p] = l
        BY <2>2, <4>2, <4>7
      <4> QED BY <4>6, <4>8
    <3> QED BY <3>1, <3>2
  <2> HIDE DEF S
  <2>5. \A x \in S : (\A y \in S : x <= y) <=> x = bd[p]
    BY <2>2, <2>3, <2>4
  <2>6. Min(S) = bd[p]
    BY <2>4, <2>5 DEF Min
  <2> QED BY <2>6 DEF S
<1> QED BY <1>1, FieldInvariance, OpenInvariance, PTL
=============================================================================
