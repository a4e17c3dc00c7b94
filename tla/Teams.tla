-------------------------------- MODULE Teams --------------------------------
(***************************************************************************)
(* The teams of a DDRace server: CGameTeams and CTeamsCore                 *)
(* (game/server/teams.cpp, game/teamscore.cpp) with the handlers that      *)
(* drive them: tiles and team changes (gamemodes/DDRace.cpp), chat         *)
(* commands (ddracechat.cpp), the death and the spawn of characters        *)
(* (player.cpp, entities/character.cpp), and saving and loading a team     *)
(* (score.cpp, scoreworker.cpp, save.cpp).                                 *)
(*                                                                         *)
(* sv_team is 1, the default; the super team of cheats is left out.  Time  *)
(* is left out: what waits for a tick may happen at any later step.  A     *)
(* handler calls others that change the same arrays, so each is an         *)
(* operator from the arrays, a record, to the arrays after it.             *)
(***************************************************************************)
EXTENDS Integers, FiniteSets, FiniteSetsExt, Functions

CONSTANTS Clients,
          NumTeams,      \* teams 1 .. NumTeams (63)
          MaxTeamSize,   \* sv_max_team_size
          RejoinTeam0,   \* sv_rejoin_team_0
          MaxSaves       \* bound: teams saved at a time

ASSUME TeamsAssumption ==
  /\ IsFiniteSet(Clients) /\ NumTeams \in Nat \ {0} /\ MaxTeamSize \in Nat \ {0}
  /\ RejoinTeam0 \in BOOLEAN /\ MaxSaves \in Nat

None == "none"
NoResult == [status |-> None]   \* m_apSaveTeamResult is null
FLOCK == 0
Teams == 0..NumTeams

\* m_DDRaceState of a living character; otherwise out, spec or dead.
Races == {"NONE", "STARTED", "FINISHED"}

VARIABLES
  g,       \* the arrays of CGameTeams and the characters
  saves,   \* the saved teams in the database
  rank     \* history: who got a rank in the last step

vars == <<g, saves, rank>>

Init ==
  /\ g = [m_aTeam |-> [c \in Clients |-> FLOCK],
          chr |-> [c \in Clients |-> "out"],
          m_aTeeStarted |-> {}, m_aTeeFinished |-> {},
          m_aTeamState |-> [t \in Teams |-> "EMPTY"],
          m_aTeamLocked |-> {}, m_aPractice |-> {},
          m_aInvited |-> [t \in Teams |-> {}],
          killTick |-> {},                        \* teams with m_aTeamUnfinishableKillTick
          m_VotedForPractice |-> {},
          m_SwapTargetsClientID |-> [c \in Clients |-> None],
          m_apSaveTeamResult |-> [t \in Teams |-> NoResult],
          practised |-> {}]                       \* history: raced while in practice mode
  /\ saves = {}
  /\ rank = {}

-----------------------------------------------------------------------------
(* Helpers of CGameTeams.                                                  *)

Members(s, t) == {c \in Clients : s.m_aTeam[c] = t}
IsPlaying(s, c) == s.chr[c] \in Races
Playing(s, t) == {c \in Members(s, t) : IsPlaying(s, c)}
GetSaving(s, t) == t # FLOCK /\ s.m_apSaveTeamResult[t].status # None

WithChr(s, C, v) == [s EXCEPT !.chr = [c \in Clients |-> IF c \in C THEN v ELSE @[c]]]

ResetRoundState(s, t) ==
  [s EXCEPT !.m_aInvited[t] = {}, !.m_aPractice = @ \ {t}, !.killTick = @ \ {t},
            !.m_VotedForPractice = @ \ Members(s, t),
            !.m_SwapTargetsClientID =
               [c \in Clients |-> IF s.m_aTeam[c] = t THEN None ELSE @[c]]]

\* Mutant: the team is emptied when one is left behind.
LeavesEmptyOffByOne(s, c, t) ==
  LET old == s.m_aTeam[c]
  IN t # old /\ old # FLOCK /\ s.m_aTeamState[old] # "EMPTY" /\ Cardinality(Members(s, old)) <= 2

\* c goes to team t and nobody else is in its team.
LeavesEmpty(s, c, t) ==
  LET old == s.m_aTeam[c]
  IN t # old /\ old # FLOCK /\ s.m_aTeamState[old] # "EMPTY" /\ Cardinality(Members(s, old)) <= 1

ClearTee(s, c) == [s EXCEPT !.m_aTeeStarted = @ \ {c}, !.m_aTeeFinished = @ \ {c}]

SetForceCharacterTeam(s, c, t) ==
  LET old == s.m_aTeam[c]
      left == IF LeavesEmpty(s, c, t)
                THEN ResetRoundState([ClearTee(s, c) EXCEPT !.m_aTeamState[old] = "EMPTY",
                                                            !.m_aTeamLocked = @ \ {old}], old)
                ELSE ClearTee(s, c)
      moved == [left EXCEPT
                 !.m_aTeam[c] = t,
                 !.m_VotedForPractice = IF old # t THEN @ \ {c} ELSE @,
                 !.m_SwapTargetsClientID[c] = IF old # t THEN None ELSE @]
  IN IF moved.m_aTeamState[t] = "EMPTY" /\ t \notin moved.m_aTeamLocked
       THEN [moved EXCEPT !.m_aTeamState[t] = "OPEN"] ELSE moved

MoveAll(s, C, t) == FoldSet(LAMBDA c, acc : SetForceCharacterTeam(acc, c, t), s, C)

\* Mutant: a spoilt team finishes too.
TeamFinishedSpoilt(s, t) ==
  s.m_aTeamState[t] \in {"STARTED", "UNFINISHABLE"} /\ Members(s, t) \subseteq s.m_aTeeFinished

TeamFinished(s, t) ==
  s.m_aTeamState[t] = "STARTED" /\ Members(s, t) \subseteq s.m_aTeeFinished

\* OnFinish for all, OnTeamFinish.
OnTeamFinish(s, C, t) ==
  LET s1 == [s EXCEPT !.m_aTeamState[t] = "FINISHED"]
  IN IF RejoinTeam0 /\ t \notin s.m_aTeamLocked THEN MoveAll(s1, C, FLOCK) ELSE s1

\* Those who get a rank in CheckTeamFinished.
Ranks(s, t) == IF TeamFinished(s, t) /\ t \notin s.m_aPractice THEN Playing(s, t) ELSE {}

CheckTeamFinished(s, t) ==
  LET C == Playing(s, t)
      done == WithChr([s EXCEPT !.m_aTeeStarted = @ \ C, !.m_aTeeFinished = @ \ C],
                      C, "FINISHED")
  IN IF ~TeamFinished(s, t) \/ C = {} THEN s
     ELSE IF t \in s.m_aPractice THEN [done EXCEPT !.m_aTeamState[t] = "FINISHED"]
     ELSE OnTeamFinish(done, C, t)

-----------------------------------------------------------------------------
(* The death of a character.                                               *)

Dead(s, C) == [WithChr(s, C, "dead") EXCEPT !.practised = @ \ C]

\* A tee that has not started leaves a team that has.
Spoil(s, c) ==
  LET t == s.m_aTeam[c]
  IN IF s.m_aTeamState[t] = "STARTED" /\ c \notin s.m_aTeeStarted
       THEN [s EXCEPT !.m_aTeamState[t] = "UNFINISHABLE", !.killTick = @ \cup {t}] ELSE s

\* Mutant: the others live on when practice mode ends.
DeathInLockedTeamAlone(s, c) ==
  LET t == s.m_aTeam[c]
      s1 == SetForceCharacterTeam(s, c, t)
  IN [s1 EXCEPT !.m_aTeamState[t] = "OPEN", !.m_aPractice = @ \ {t},
                !.m_VotedForPractice = @ \ Members(s, t)]

\* OnCharacterDeath in a locked team: the others die too, and stay in the team.
DeathInLockedTeam(s, c) ==
  LET t == s.m_aTeam[c]
      s1 == SetForceCharacterTeam(s, c, t)
      C == Playing(s1, t)
  IN IF s1.m_aTeamState[t] = "OPEN" THEN s1
     ELSE [Dead(s1, C) EXCEPT !.m_aTeamState[t] = "OPEN", !.m_aPractice = @ \ {t},
                              !.m_VotedForPractice = @ \ Members(s, t),
                              !.m_aTeeStarted = @ \ C, !.m_aTeeFinished = @ \ C]

\* CCharacter::Die and CGameTeams::OnCharacterDeath; game is WEAPON_GAME.
Die(s, c, game) ==
  LET t == s.m_aTeam[c]
      s1 == Dead(s, {c})
  IN IF GetSaving(s, t) THEN s1
     ELSE IF t \in s.m_aTeamLocked /\ ~game THEN DeathInLockedTeam(s1, c)
     ELSE CheckTeamFinished(SetForceCharacterTeam(Spoil(s1, c), c, FLOCK), t)

\* Who gets a rank because c dies.
DieRanks(s, c, game) ==
  LET t == s.m_aTeam[c]
  IN IF GetSaving(s, t) \/ (t \in s.m_aTeamLocked /\ ~game) THEN {}
     ELSE Ranks(SetForceCharacterTeam(Spoil(Dead(s, {c}), c), c, FLOCK), t)

\* KillTeam; who is not playing is left alone.
KillTeam(s, t) ==
  FoldSet(LAMBDA c, acc : IF IsPlaying(acc, c) THEN Die(acc, c, FALSE) ELSE acc,
          [s EXCEPT !.m_VotedForPractice = @ \ Members(s, t)], Members(s, t))

-----------------------------------------------------------------------------
(* Every action ends in Set: the new arrays, who got a rank, and the       *)
(* history of practice mode.                                               *)

Set(s, ranked) ==
  /\ g' = [s EXCEPT !.practised = @ \cup
             {c \in Clients : s.chr[c] = "STARTED" /\ s.m_aTeam[c] \in s.m_aPractice}]
  /\ rank' = ranked

Connect(c) ==
  /\ g.chr[c] = "out"
  /\ Set([g EXCEPT !.chr[c] = "dead"], {})
  /\ UNCHANGED saves

\* OnPlayerDisconnect, and the player is deleted.
Disconnect(c) ==
  LET s == IF IsPlaying(g, c) THEN Die(g, c, TRUE) ELSE g
      s1 == SetForceCharacterTeam(s, c, FLOCK)
  IN /\ g.chr[c] # "out"
     /\ Set([s1 EXCEPT !.chr[c] = "out", !.m_VotedForPractice = @ \ {c},
                       !.m_SwapTargetsClientID[c] = None],
            IF IsPlaying(g, c) THEN DieRanks(g, c, TRUE) ELSE {})
     /\ UNCHANGED saves

\* DDRaceInit: in a locked team the race is that of another member.
SpawnRace(s, c) ==
  LET t == s.m_aTeam[c]
      others == Playing(s, t) \ {c}
  IN IF t \in s.m_aTeamLocked /\ others # {} THEN {s.chr[d] : d \in others} ELSE {"NONE"}

\* TryRespawn, CGameTeams::OnCharacterSpawn, DDRaceInit.
Respawn(c) ==
  LET t == g.m_aTeam[c]
      stays == GetSaving(g, t) \/ t \in g.m_aTeamLocked
      s == SetForceCharacterTeam(g, c, FLOCK)
      s1 == IF stays THEN g ELSE CheckTeamFinished(s, t)
  IN /\ g.chr[c] = "dead"
     /\ \E race \in SpawnRace(s1, c) :
          Set([s1 EXCEPT !.chr[c] = race], IF stays THEN {} ELSE Ranks(s, t))
     /\ UNCHANGED saves

\* The player kills himself, or is killed by the world or another.
Kill(c) ==
  /\ IsPlaying(g, c)
  /\ Set(Die(g, c, FALSE), DieRanks(g, c, FALSE))
  /\ UNCHANGED saves

\* DoTeamChange to the spectators; the character dies in the flock.
Spectate(c) ==
  LET t == g.m_aTeam[c]
      left == SetForceCharacterTeam(g, c, FLOCK)
      s == IF IsPlaying(g, c) THEN Dead(CheckTeamFinished(left, t), {c}) ELSE g
  IN /\ g.chr[c] \notin {"out", "spec"}
     /\ Set([s EXCEPT !.chr[c] = "spec"], IF IsPlaying(g, c) THEN Ranks(left, t) ELSE {})
     /\ UNCHANGED saves

\* DoTeamChange to the game.
Play(c) ==
  /\ g.chr[c] = "spec"
  /\ Set([g EXCEPT !.chr[c] = "dead"], {})
  /\ UNCHANGED saves

-----------------------------------------------------------------------------
(* Tiles.                                                                  *)

\* OnCharacterStart for a team: all members race from now on, those that have not
\* been at the start too.
StartTeam(s, c, t) ==
  LET waiting == \E d \in Playing(s, t) : s.chr[d] = "FINISHED"
      started == [s EXCEPT !.m_aTeeStarted = @ \cup {c}]
  IN IF waiting THEN [s EXCEPT !.chr[c] = "NONE"]
     ELSE IF s.m_aTeamState[t] \in {"EMPTY", "OPEN"}
       THEN [WithChr(started, Playing(s, t), "STARTED") EXCEPT
               !.m_aTeamState[t] = "STARTED", !.killTick = @ \ {t}]
     ELSE started

\* HandleCharacterTiles on a start tile: no start while the team is saving.
Start(c) ==
  LET t == g.m_aTeam[c]
  IN /\ IsPlaying(g, c)
     /\ t # FLOCK => g.chr[c] # "FINISHED" \/ GetSaving(g, t)
     /\ Set(IF GetSaving(g, t) THEN Die(g, c, FALSE)
            ELSE IF t = FLOCK
              THEN [g EXCEPT !.m_aTeeStarted = @ \cup {c}, !.chr[c] = "STARTED"]
            ELSE StartTeam(g, c, t), {})
     /\ UNCHANGED saves

MarkFinished(s, c) ==
  IF c \in s.m_aTeeStarted THEN [s EXCEPT !.m_aTeeFinished = @ \cup {c}] ELSE s

\* On a finish tile, OnCharacterFinish.
Finish(c) ==
  LET t == g.m_aTeam[c]
      marked == MarkFinished(g, c)
  IN /\ g.chr[c] = "STARTED"
     /\ IF t = FLOCK THEN Set([g EXCEPT !.chr[c] = "FINISHED"], {c})
        ELSE Set(CheckTeamFinished(marked, t), Ranks(marked, t))
     /\ UNCHANGED saves

-----------------------------------------------------------------------------
(* Commands.                                                               *)

Lock(c) ==
  /\ g.chr[c] # "out" /\ g.m_aTeam[c] # FLOCK
  /\ Set([g EXCEPT !.m_aTeamLocked = @ \cup {g.m_aTeam[c]}], {})
  /\ UNCHANGED saves

\* By command, or on a tile.
Unlock(c) ==
  /\ g.chr[c] # "out" /\ g.m_aTeam[c] \in g.m_aTeamLocked
  /\ Set([g EXCEPT !.m_aTeamLocked = @ \ {g.m_aTeam[c]}], {})
  /\ UNCHANGED saves

Invite(c, d) ==
  /\ g.chr[c] # "out" /\ g.chr[d] # "out" /\ g.m_aTeam[c] # FLOCK
  /\ d \notin g.m_aInvited[g.m_aTeam[c]]
  /\ Set([g EXCEPT !.m_aInvited[g.m_aTeam[c]] = @ \cup {d}], {})
  /\ UNCHANGED saves

\* Mutant: only the team that is left must not be saving.
MayChangeToSaving(c, t) ==
  /\ g.m_aTeamState[t] \in {"EMPTY", "OPEN"}
  /\ g.chr[c] = "NONE"
  /\ g.m_aTeam[c] \notin g.m_aPractice
  /\ ~GetSaving(g, g.m_aTeam[c])

\* SetCharacterTeam lets c go to t.
MayChange(c, t) ==
  /\ g.m_aTeamState[t] \in {"EMPTY", "OPEN"}
  /\ g.chr[c] = "NONE"
  /\ g.m_aTeam[c] \notin g.m_aPractice
  /\ ~GetSaving(g, t) /\ ~GetSaving(g, g.m_aTeam[c])

JoinTeam(c, t) ==
  /\ IsPlaying(g, c) /\ t # g.m_aTeam[c]
  /\ t \in g.m_aTeamLocked => c \in g.m_aInvited[t]
  /\ t # FLOCK => Cardinality(Members(g, t)) < MaxTeamSize
  /\ MayChange(c, t)
  /\ Set(SetForceCharacterTeam(g, c, t), {})
  /\ UNCHANGED saves

\* /practice, a vote of the team.
Practice(c, vote) ==
  LET t == g.m_aTeam[c]
      votes == IF vote THEN g.m_VotedForPractice \cup {c} ELSE g.m_VotedForPractice \ {c}
      passed == Cardinality(votes \cap Members(g, t)) >= Cardinality(Members(g, t)) \div 2 + 1
  IN /\ g.chr[c] # "out" /\ t # FLOCK /\ t \notin g.m_aPractice
     /\ vote # (c \in g.m_VotedForPractice)
     /\ Set([g EXCEPT !.m_VotedForPractice = votes,
                      !.m_aPractice = IF passed THEN @ \cup {t} ELSE @], {})
     /\ UNCHANGED saves

\* What /swap needs: the same team, which races.
MaySwap(c, d) ==
  /\ c # d /\ g.chr[c] # "out" /\ g.chr[d] # "out" /\ g.m_aTeam[c] = g.m_aTeam[d]
  /\ IF g.m_aTeam[c] = FLOCK THEN {g.chr[c], g.chr[d]} = {"STARTED"}
                             ELSE g.m_aTeamState[g.m_aTeam[c]] = "STARTED"

RequestTeamSwap(c, d) ==
  /\ MaySwap(c, d) /\ g.m_SwapTargetsClientID[d] # c /\ g.m_SwapTargetsClientID[c] # d
  /\ Set([g EXCEPT !.m_SwapTargetsClientID[c] = d], {})
  /\ UNCHANGED saves

Exchange(C, c, d) ==
  (C \ {c, d}) \cup (IF c \in C THEN {d} ELSE {}) \cup (IF d \in C THEN {c} ELSE {})

\* SwapTeamCharacters in time, or too late; the code takes it that both have a
\* character.
SwapTeamCharacters(c, d, late) ==
  LET t == g.m_aTeam[c]
      s == [g EXCEPT !.m_SwapTargetsClientID =
                        [e \in Clients |-> IF g.m_aTeam[e] = t THEN None ELSE @[e]]]
  IN /\ MaySwap(c, d) /\ g.m_SwapTargetsClientID[d] = c
     /\ IsPlaying(g, c) /\ IsPlaying(g, d)
     /\ Set(IF late THEN s
            ELSE [s EXCEPT !.chr[c] = g.chr[d], !.chr[d] = g.chr[c],
                           !.m_aTeeStarted = Exchange(@, c, d),
                           !.m_aTeeFinished = Exchange(@, c, d),
                           !.practised = Exchange(@, c, d)], {})
     /\ UNCHANGED saves

-----------------------------------------------------------------------------
(* Saving and loading.  A saved team has what CSaveTeam keeps.             *)

Saved(s, t) ==
  [tees |-> [c \in Members(s, t) |->
               [chr |-> s.chr[c], started |-> c \in s.m_aTeeStarted,
                finished |-> c \in s.m_aTeeFinished]],
   locked |-> t \in s.m_aTeamLocked, practice |-> t \in s.m_aPractice]

\* CScore::SaveTeam: the team is saved and killed, and the database works on it.
SaveTeam(c) ==
  LET t == g.m_aTeam[c]
  IN /\ Cardinality(saves) < MaxSaves
     /\ g.chr[c] # "out" /\ t # FLOCK /\ ~GetSaving(g, t)
     /\ g.m_aTeamState[t] = "STARTED" /\ Playing(g, t) = Members(g, t)
     /\ Set(KillTeam([g EXCEPT !.m_apSaveTeamResult[t] =
                        [status |-> "SAVING", team |-> Saved(g, t)]], t), {})
     /\ UNCHANGED saves

\* CScore::LoadTeam; the members at this moment are those that are looked for.
LoadTeam(c) ==
  LET t == g.m_aTeam[c]
  IN /\ g.chr[c] # "out" /\ t # FLOCK /\ ~GetSaving(g, t)
     /\ g.m_aTeamState[t] = "OPEN"
     /\ Set([g EXCEPT !.m_apSaveTeamResult[t] =
               [status |-> "LOADING", members |-> Members(g, t)]], {})
     /\ UNCHANGED saves

\* CScoreWorker::SaveTeam and LoadTeam: a save that is loaded is deleted.
DatabaseSaves(t, ok) ==
  LET r == g.m_apSaveTeamResult[t]
  IN /\ r.status = "SAVING"
     /\ Set([g EXCEPT !.m_apSaveTeamResult[t].status =
                         IF ok THEN "SAVE_SUCCESS" ELSE "SAVE_FAILED"], {})
     /\ saves' = IF ok THEN saves \cup {r.team} ELSE saves

DatabaseLoads(t, save) ==
  LET r == g.m_apSaveTeamResult[t]
  IN /\ r.status = "LOADING" /\ r.members = DOMAIN save.tees
     /\ Set([g EXCEPT !.m_apSaveTeamResult[t] =
                         [status |-> "LOAD_SUCCESS", team |-> save]], {})
     /\ saves' = saves \ {save}

DatabaseLoadFails(t) ==
  /\ g.m_apSaveTeamResult[t].status = "LOADING"
  /\ Set([g EXCEPT !.m_apSaveTeamResult[t] = [status |-> "LOAD_FAILED"]], {})
  /\ UNCHANGED saves

\* CSaveTeam::Load, for the tees that are in the team now.
LoadSaved(s, t, team) ==
  LET C == {c \in Members(s, t) \cap DOMAIN team.tees : s.chr[c] # "out"}
      With(S, field) == (S \ C) \cup {c \in C : team.tees[c][field]}
  IN IF Members(s, t) = {} THEN s
     ELSE [s EXCEPT
             !.m_aTeamState[t] = "STARTED",
             !.m_aTeamLocked = IF team.locked THEN @ \cup {t} ELSE @ \ {t},
             !.m_aPractice = IF team.practice THEN @ \cup {t} ELSE @ \ {t},
             !.chr = [c \in Clients |-> IF c \in C THEN team.tees[c].chr ELSE @[c]],
             !.m_aTeeStarted = With(@, "started"),
             !.m_aTeeFinished = With(@, "finished"),
             !.practised = @ \ C]

\* ProcessSaveTeam for the team.
ProcessSaveTeam(t) ==
  LET r == g.m_apSaveTeamResult[t]
      s == [g EXCEPT !.m_apSaveTeamResult[t] = NoResult]
      players == {c \in Members(g, t) : g.chr[c] # "out"}
  IN /\ r.status \notin {None, "SAVING", "LOADING"}
     /\ Set(CASE r.status = "SAVE_SUCCESS" -> MoveAll(s, players, FLOCK)
              [] r.status \in {"SAVE_FAILED", "LOAD_SUCCESS"} -> LoadSaved(s, t, r.team)
              [] r.status = "LOAD_FAILED" -> s, {})
     /\ UNCHANGED saves

-----------------------------------------------------------------------------
\* CGameTeams::Tick: a team that cannot finish is killed, unless it practises.
Tick(t) ==
  /\ t \in g.killTick /\ g.m_aTeamState[t] = "UNFINISHABLE"
  /\ Set(IF t \in g.m_aPractice THEN [g EXCEPT !.killTick = @ \ {t}] ELSE KillTeam(g, t), {})
  /\ UNCHANGED saves

Next ==
  \/ \E c \in Clients : \/ Connect(c) \/ Disconnect(c) \/ Respawn(c) \/ Kill(c)
                        \/ Spectate(c) \/ Play(c) \/ Start(c) \/ Finish(c)
                        \/ Lock(c) \/ Unlock(c) \/ SaveTeam(c) \/ LoadTeam(c)
  \/ \E c \in Clients, t \in Teams : JoinTeam(c, t)
  \/ \E c \in Clients, vote \in BOOLEAN : Practice(c, vote)
  \/ \E c, d \in Clients : Invite(c, d) \/ RequestTeamSwap(c, d)
  \/ \E c, d \in Clients, late \in BOOLEAN : SwapTeamCharacters(c, d, late)
  \/ \E t \in Teams : \/ ProcessSaveTeam(t) \/ Tick(t) \/ DatabaseLoadFails(t)
                      \/ \E ok \in BOOLEAN : DatabaseSaves(t, ok)
                      \/ \E save \in saves : DatabaseLoads(t, save)

Spec == Init /\ [][Next]_vars

-----------------------------------------------------------------------------
(* Properties.                                                             *)

\* A team is EMPTY exactly when nobody is in it, whatever made the last one
\* leave; then nothing is left of its last round: no lock, invitation, practice
\* mode or kill that would meet the next players (GetFirstEmptyTeam offers it).
EmptyTeamsAreFresh ==
  \A t \in Teams \ {FLOCK} :
    /\ g.m_aTeamState[t] = "EMPTY" <=> Members(g, t) = {}
    /\ g.m_aTeamState[t] = "EMPTY" =>
         t \notin g.m_aTeamLocked \cup g.m_aPractice \cup g.killTick /\ g.m_aInvited[t] = {}

\* Nobody gets a rank with a character that has raced in practice mode.
RankIsClean == rank \cap g.practised = {}

\* A team that can no longer finish does not.
UnfinishableStays ==
  [][\A t \in Teams : g.m_aTeamState[t] = "UNFINISHABLE" =>
       g'.m_aTeamState[t] \in {"UNFINISHABLE", "OPEN", "EMPTY"}]_vars

\* While a team is being saved or loaded nobody joins it on his own.
SavingIsClosed ==
  [][\A t \in Teams \ {FLOCK} : GetSaving(g, t) /\ GetSaving(g', t) =>
       Members(g', t) \subseteq Members(g, t)]_vars
=============================================================================
