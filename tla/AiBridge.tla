------------------------------- MODULE AiBridge -------------------------------
(***************************************************************************)
(* The bridge between a learning environment and a game client: KoGEnv     *)
(* (AIenv/kogenv.py) writes an action to one fifo and waits for a line on  *)
(* another; the client reads and answers while it simulates its character  *)
(* (engine/client/ai.cpp, game/client/prediction/entities/character.cpp)   *)
(* and sends the action to the server with its next input                  *)
(* (game/client/components/controls.cpp).                                  *)
(*                                                                         *)
(* The client simulates a tick many times: each prediction starts again at *)
(* the tick of the latest snapshot.  What the character moves through is   *)
(* arbitrary, as is the speed of the two processes.                        *)
(***************************************************************************)
EXTENDS Naturals, Sequences

CONSTANTS Actions,    \* what step may ask the character to do
          Stand,      \* what reset asks it to do
          Local,      \* the input of the client's own controls
          KillTicks,  \* ticks a freeze is not rewarded again (10)
          Latency,    \* MaxLatencyTicks
          MaxTick     \* bound on the ticks

ASSUME ActionsAssumption == Local \notin Actions \cup {Stand}
ASSUME TicksAssumption ==
  KillTicks \in Nat /\ Latency \in Nat \ {0} /\ MaxTick \in Nat

RwdTiles == {"FREEZE", "START", "FINISH"}

VARIABLES
  envPc, isdone,         \* KoGEnv
  fin, fout,             \* lines in the fifos to and from the client
  ai_inp, ai_gaveinp, ai_wantskill, ai_waitsreply,
  ai_rinp_tick, ai_reply_tick, ai_gotrwd, ai_killtick,
  lasttick,              \* static variable of CCharacter::Tick
  GameTick, PredTick,    \* the client's m_aCurGameTick and m_aPredTick
  cur, last,             \* ticks the running simulation has still to do
  Repredict,
  lastAct, owesKill,     \* history: last action written, reset without a kill,
  newest, askedAt        \* newest tick simulated, and that when it was written

envVars == <<envPc, isdone, lastAct, askedAt>>
readVars == <<fin, ai_inp, ai_gaveinp, ai_wantskill, ai_rinp_tick>>
replyVars == <<fout, ai_reply_tick, ai_gotrwd, ai_killtick>>
tickVars == <<GameTick, PredTick, last, Repredict>>
vars == <<envVars, readVars, replyVars, tickVars, ai_waitsreply, lasttick, cur,
          owesKill, newest>>

Init ==
  /\ envPc = "idle" /\ isdone = FALSE
  /\ fin = <<>> /\ fout = <<>>
  /\ ai_inp = Local
  /\ ai_gaveinp = FALSE /\ ai_wantskill = FALSE /\ ai_waitsreply = FALSE
  /\ ai_rinp_tick = 0 /\ ai_reply_tick = 0
  /\ ai_gotrwd = {} /\ ai_killtick = 0
  /\ lasttick = 0
  /\ GameTick = 1 /\ PredTick = 1
  /\ cur = 1 /\ last = 0
  /\ Repredict = FALSE
  /\ lastAct = Local /\ owesKill = FALSE
  /\ newest = 0 /\ askedAt = 0

KillWritten == \E i \in 1..Len(fin) : fin[i].kill

-----------------------------------------------------------------------------
(* The environment.  A learner steps it until it is done, then resets it;   *)
(* it may reset it at any time.                                            *)

\* fifowrite.
Write(act, kill) ==
  /\ fin' = Append(fin, [act |-> act, kill |-> kill])
  /\ lastAct' = act /\ askedAt' = newest
  /\ UNCHANGED <<isdone, ai_inp, ai_gaveinp, ai_wantskill, ai_rinp_tick, replyVars,
                 tickVars, ai_waitsreply, lasttick, cur, newest>>

\* step up to the blocking read.
Step(act) ==
  /\ envPc = "idle" /\ ~isdone
  /\ envPc' = "step"
  /\ Write(act, FALSE)
  /\ UNCHANGED owesKill

\* reset up to the blocking read.
Reset ==
  /\ envPc = "idle"
  /\ envPc' = "reset"
  /\ Write(Stand, TRUE)
  /\ owesKill' = TRUE

\* The rest of step and reset; reset does not look at the rewards.
ReadReply ==
  /\ envPc # "idle" /\ fout # <<>>
  /\ isdone' = (envPc = "step"
                 /\ (isdone \/ Head(fout) \cap {"FREEZE", "FINISH"} # {}))
  /\ envPc' = "idle"
  /\ fout' = Tail(fout)
  /\ UNCHANGED <<readVars, ai_reply_tick, ai_gotrwd, ai_killtick, tickVars, lastAct,
                 askedAt, ai_waitsreply, lasttick, cur, owesKill, newest>>

-----------------------------------------------------------------------------
(* A frame of the client.                                                  *)

\* OnNewSnapshot: the world is advanced to the tick of the snapshot, or skips to
\* it when there is no character or the gap is too long.
Snapshot(n, skip) ==
  /\ cur > last
  /\ GameTick + n <= MaxTick
  /\ GameTick' = GameTick + n
  /\ IF skip THEN UNCHANGED <<cur, last>>
             ELSE cur' = GameTick + 1 /\ last' = GameTick + n
  /\ Repredict' = TRUE
  /\ UNCHANGED <<envVars, readVars, replyVars, PredTick, ai_waitsreply, lasttick,
                 owesKill, newest>>

\* CControls::SnapInput: a new action is sent to the server, and so is a kill.
SnapInput ==
  /\ ai_gaveinp' = FALSE
  /\ ai_inp' = IF ai_gaveinp THEN ai_inp ELSE Local
  /\ ai_wantskill' = FALSE
  /\ owesKill' = (owesKill /\ (ai_wantskill => KillWritten))

\* CClient::Update after the snapshots: SendInput for a new predicted tick and,
\* if the prediction is sane, OnPredict, which simulates from the latest snapshot.
Predict(n) ==
  LET p == PredTick + n IN
  /\ cur > last
  /\ n > 0 \/ Repredict
  /\ p <= MaxTick
  /\ PredTick' = p
  /\ IF p > GameTick /\ p < GameTick + Latency
       THEN cur' = GameTick + 1 /\ last' = p
       ELSE UNCHANGED <<cur, last>>
  /\ Repredict' = FALSE
  /\ IF n > 0 THEN SnapInput
              ELSE UNCHANGED <<ai_gaveinp, ai_inp, ai_wantskill, owesKill>>
  /\ UNCHANGED <<envVars, fin, ai_rinp_tick, replyVars, GameTick, ai_waitsreply,
                 lasttick, newest>>

\* Mutant: a step that follows a reset takes its kill back.
ai_getinpReplacesKill(tick) ==
  /\ ai_rinp_tick' = tick
  /\ ai_inp' = fin[Len(fin)].act
  /\ ai_wantskill' = fin[Len(fin)].kill
  /\ ai_gaveinp' = TRUE
  /\ fin' = <<>>

\* Mutant: an input that is still to be sent is not overwritten.
ai_getinpKeepsOld(tick) ==
  /\ ai_rinp_tick' = tick
  /\ ai_inp' = IF ai_gaveinp THEN ai_inp ELSE fin[Len(fin)].act
  /\ ai_wantskill' = (ai_wantskill \/ KillWritten)
  /\ ai_gaveinp' = TRUE
  /\ fin' = <<>>

\* ai_getinp when the fifo has something to read.
ai_getinp(tick) ==
  /\ ai_rinp_tick' = tick
  /\ ai_inp' = fin[Len(fin)].act
  /\ ai_wantskill' = (ai_wantskill \/ KillWritten)
  /\ ai_gaveinp' = TRUE
  /\ fin' = <<>>

\* ai_reply when a reply is due; moved is what the character moved through.
ai_reply(tick, moved) ==
  LET new  == (moved \cap RwdTiles) \ ai_gotrwd
      kill == IF "FREEZE" \in new THEN tick ELSE ai_killtick
      got  == (ai_gotrwd \cup new) \
                (IF tick >= kill + KillTicks THEN {"FREEZE"} ELSE {})
      respawn == "SPAWN" \in moved /\ tick <= kill + KillTicks
  IN
  /\ ai_reply_tick' = tick
  /\ ai_gotrwd' = IF respawn THEN {} ELSE got
  /\ ai_killtick' = IF respawn THEN 0 ELSE kill
  /\ fout' = Append(fout, new)

\* Mutant: a reply does not settle the request.
WaitsStill(read, replies) == ai_waitsreply \/ read

\* ai_waitsreply after a tick in which input was read, or a reply written.
Waits(read, replies) == (ai_waitsreply \/ read) /\ ~replies

\* Mutant: the reply comes before the new input is read.
SimulateRepliesFirst(moved) ==
  LET skip    == lasttick = cur
      read    == ~skip /\ ai_rinp_tick # cur /\ fin # <<>>
      replies == ~skip /\ ai_reply_tick # cur /\ ai_waitsreply
  IN
  /\ cur' = cur + 1
  /\ lasttick' = cur
  /\ newest' = IF cur > newest THEN cur ELSE newest
  /\ IF read THEN ai_getinp(cur) ELSE UNCHANGED readVars
  /\ IF replies THEN ai_reply(cur, moved) ELSE UNCHANGED replyVars
  /\ ai_waitsreply' = Waits(read, replies)
  /\ UNCHANGED <<envVars, tickVars, owesKill>>

\* CCharacter::Tick of the character the environment controls.
Simulate(moved) ==
  LET skip    == lasttick = cur
      read    == ~skip /\ ai_rinp_tick # cur /\ fin # <<>>
      replies == ~skip /\ ai_reply_tick # cur /\ (ai_waitsreply \/ read)
  IN
  /\ cur' = cur + 1
  /\ lasttick' = cur
  /\ newest' = IF cur > newest THEN cur ELSE newest
  /\ IF read THEN ai_getinp(cur) ELSE UNCHANGED readVars
  /\ IF replies THEN ai_reply(cur, moved) ELSE UNCHANGED replyVars
  /\ ai_waitsreply' = Waits(read, replies)
  /\ UNCHANGED <<envVars, tickVars, owesKill>>

\* A tick of the loop in OnPredict, or in OnNewSnapshot.
CharacterTick(moved) == cur <= last /\ Simulate(moved)

-----------------------------------------------------------------------------
Next ==
  \/ \E act \in Actions : Step(act)
  \/ Reset
  \/ ReadReply
  \/ \E moved \in SUBSET (RwdTiles \cup {"SPAWN"}) : CharacterTick(moved)
  \/ \E n \in 1..2, skip \in BOOLEAN : Snapshot(n, skip)
  \/ \E n \in 0..2 : Predict(n)

Spec == Init /\ [][Next]_vars

-----------------------------------------------------------------------------
(* Properties.                                                             *)

\* Lockstep: what the environment waits for is in exactly one place, as a line
\* to the client, a reply the client owes, or a line from it, and nothing is
\* under way otherwise.  It is why ai_getinp may poll the descriptor and read
\* through stdio, and why a reply belongs to the action last written.
Lockstep ==
  Len(fin) + Len(fout) + (IF ai_waitsreply THEN 1 ELSE 0) =
    (IF envPc = "idle" THEN 0 ELSE 1)

\* The environment is never left waiting: an action is answered in the first
\* tick, new to the client, that is simulated after it is written, although the
\* client reads and answers no tick twice and simulates most of them again.
AnsweredAtOnce == envPc # "idle" /\ fout = <<>> => newest = askedAt

\* The kill of a reset is sent: until SnapInput sends it, it is in the fifo or
\* wanted by the client, whatever steps follow; and nothing else asks for one.
KillIsKept == owesKill <=> ai_wantskill \/ KillWritten

\* An input that waits to be sent to the server is the environment's latest.
LatestAction == ai_gaveinp /\ fin = <<>> => ai_inp = lastAct
=============================================================================
