----------------------------- MODULE TeamsProofs -----------------------------
(***************************************************************************)
(* Proofs about the teams, for any number of players and of teams.         *)
(***************************************************************************)
EXTENDS Teams, FiniteSetTheorems, TLAPS

(***************************************************************************)
(* What is inductive is said of the arrays, a record, as every helper of   *)
(* the model is an operator on them.                                       *)
(***************************************************************************)

Chrs == Races \cup {"out", "spec", "dead"}
States == {"EMPTY", "OPEN", "STARTED", "UNFINISHABLE", "FINISHED"}

Tees == [chr : Chrs, started : BOOLEAN, finished : BOOLEAN]
SavedTeams ==
  [tees : UNION {[C -> Tees] : C \in SUBSET Clients}, locked : BOOLEAN, practice : BOOLEAN]

Results ==
  {NoResult} \cup [status : {"LOAD_FAILED"}]
    \cup [status : {"LOADING"}, members : SUBSET Clients]
    \cup [status : {"SAVING", "SAVE_SUCCESS", "SAVE_FAILED", "LOAD_SUCCESS"},
          team : SavedTeams]

Arrays ==
  [m_aTeam : [Clients -> Teams], chr : [Clients -> Chrs],
   m_aTeeStarted : SUBSET Clients, m_aTeeFinished : SUBSET Clients,
   m_aTeamState : [Teams -> States],
   m_aTeamLocked : SUBSET Teams, m_aPractice : SUBSET Teams,
   m_aInvited : [Teams -> SUBSET Clients], killTick : SUBSET Teams,
   m_VotedForPractice : SUBSET Clients,
   m_SwapTargetsClientID : [Clients -> Clients \cup {None}],
   m_apSaveTeamResult : [Teams -> Results],
   practised : SUBSET Clients]

\* The flock never races as a team, practises or is saved.
FlockInv(s) ==
  /\ s.m_aTeamState[FLOCK] \in {"EMPTY", "OPEN"}
  /\ FLOCK \notin s.m_aPractice
  /\ s.m_apSaveTeamResult[FLOCK] = NoResult

\* EmptyTeamsAreFresh, of the arrays s.
FreshInv(s) ==
  \A t \in Teams \ {FLOCK} :
    /\ s.m_aTeamState[t] = "EMPTY" <=> Members(s, t) = {}
    /\ s.m_aTeamState[t] = "EMPTY" =>
         t \notin s.m_aTeamLocked \cup s.m_aPractice \cup s.killTick /\ s.m_aInvited[t] = {}

\* A team that is saved or loaded can finish.
SavingInv(s) == \A t \in Teams : GetSaving(s, t) => s.m_aTeamState[t] # "UNFINISHABLE"

\* Who raced in practice mode, but for X, still plays in a team that practises.
CleanInv(s, X) ==
  \A c \in s.practised \ X : IsPlaying(s, c) /\ s.m_aTeam[c] \in s.m_aPractice

\* What every helper keeps.
HelperInv(s, X) ==
  s \in Arrays /\ FlockInv(s) /\ FreshInv(s) /\ SavingInv(s) /\ CleanInv(s, X)

\* A result is for the members there are, or more.
ClosedInv(s) ==
  \A t \in Teams :
    LET r == s.m_apSaveTeamResult[t] IN
    /\ r.status \in {"SAVING", "SAVE_SUCCESS", "SAVE_FAILED", "LOAD_SUCCESS"} =>
         Members(s, t) \subseteq DOMAIN r.team.tees
    /\ r.status = "LOADING" => Members(s, t) \subseteq r.members

\* Nobody races in a team that is being saved.
QuietInv(s) ==
  \A t \in Teams : s.m_apSaveTeamResult[t].status \in {"SAVING", "SAVE_SUCCESS"} =>
    \A c \in Members(s, t) : s.chr[c] # "STARTED" /\ c \notin s.practised

TeamsInv ==
  HelperInv(g, {}) /\ ClosedInv(g) /\ QuietInv(g) /\ saves \subseteq SavedTeams

\* What a helper does at most, from the arrays s to the arrays r: a tee leaves for
\* the flock, a team that does not race does not race after it either, and
\* nobody starts.  Only JoinTeam, StartTeam and LoadSaved do more.
Follows(s, r) ==
  /\ r.m_apSaveTeamResult = s.m_apSaveTeamResult
  /\ \A c \in Clients : r.m_aTeam[c] = s.m_aTeam[c] \/ r.m_aTeam[c] = FLOCK
  /\ \A t \in Teams : s.m_aTeamState[t] \notin {"STARTED", "FINISHED"} =>
                        r.m_aTeamState[t] \notin {"STARTED", "FINISHED"}
  /\ \A c \in Clients : r.chr[c] = "STARTED" => s.chr[c] = "STARTED"
  /\ r.practised \subseteq s.practised

-----------------------------------------------------------------------------
(* The helpers.                                                            *)

\* Helpers in a row do no more than one.
LEMMA FollowsOn ==
  ASSUME NEW a, NEW b, NEW d, Follows(a, b), Follows(b, d)
  PROVE  Follows(a, d)
BY DEF Follows

\* The fields of typed arrays.
LEMMA ArraysAre ==
  ASSUME NEW s \in Arrays
  PROVE  /\ s.m_aTeam \in [Clients -> Teams] /\ s.chr \in [Clients -> Chrs]
         /\ s.m_aTeeStarted \in SUBSET Clients /\ s.m_aTeeFinished \in SUBSET Clients
         /\ s.m_aTeamState \in [Teams -> States]
         /\ s.m_aTeamLocked \in SUBSET Teams /\ s.m_aPractice \in SUBSET Teams
         /\ s.m_aInvited \in [Teams -> SUBSET Clients] /\ s.killTick \in SUBSET Teams
         /\ s.m_VotedForPractice \in SUBSET Clients
         /\ s.m_SwapTargetsClientID \in [Clients -> Clients \cup {None}]
         /\ s.m_apSaveTeamResult \in [Teams -> Results]
         /\ s.practised \in SUBSET Clients
BY DEF Arrays

\* The team that is left empty has no other member.
LEMMA LeavesEmptyIs ==
  ASSUME NEW s \in Arrays, NEW c \in Clients, NEW t \in Teams
  PROVE  LeavesEmpty(s, c, t) <=>
           /\ t # s.m_aTeam[c] /\ s.m_aTeam[c] # FLOCK
           /\ s.m_aTeamState[s.m_aTeam[c]] # "EMPTY"
           /\ Members(s, s.m_aTeam[c]) = {c}
<1> DEFINE M == Members(s, s.m_aTeam[c])
<1>1. IsFiniteSet(M) /\ c \in M
  BY TeamsAssumption, FS_Subset DEF Members
<1>2. Cardinality(M) \in Nat /\ (Cardinality(M) = 0 <=> M = {})
  BY <1>1, FS_CardinalityType, FS_EmptySet
<1>3. Cardinality(M) = 1 <=> \E x : M = {x}
  BY <1>1, FS_Singleton
<1> HIDE DEF M
<1>4. Cardinality(M) <= 1 <=> M = {c}
  BY <1>1, <1>2, <1>3
<1> QED BY <1>4 DEF LeavesEmpty, M

\* SetForceCharacterTeam, field by field.
LEMMA SetForceIs ==
  ASSUME NEW s \in Arrays, NEW c \in Clients, NEW t \in Teams
  PROVE  LET r == SetForceCharacterTeam(s, c, t)
             old == s.m_aTeam[c]
             empties == LeavesEmpty(s, c, t)
         IN /\ r \in Arrays
            /\ r.m_aTeam = [s.m_aTeam EXCEPT ![c] = t] /\ r.chr = s.chr
            /\ r.m_apSaveTeamResult = s.m_apSaveTeamResult /\ r.practised = s.practised
            /\ r.m_aTeamLocked = IF empties THEN s.m_aTeamLocked \ {old} ELSE s.m_aTeamLocked
            /\ r.m_aPractice = IF empties THEN s.m_aPractice \ {old} ELSE s.m_aPractice
            /\ r.killTick = IF empties THEN s.killTick \ {old} ELSE s.killTick
            /\ r.m_aInvited = IF empties THEN [s.m_aInvited EXCEPT ![old] = {}]
                                         ELSE s.m_aInvited
            /\ \A u \in Teams :
                 r.m_aTeamState[u] =
                   IF u = t THEN IF s.m_aTeamState[t] = "EMPTY" /\ t \notin s.m_aTeamLocked
                                   THEN "OPEN" ELSE s.m_aTeamState[t]
                   ELSE IF empties /\ u = old THEN "EMPTY" ELSE s.m_aTeamState[u]
<1> DEFINE old == s.m_aTeam[c]
           empties == LeavesEmpty(s, c, t)
           tee == ClearTee(s, c)
           closed == [tee EXCEPT !.m_aTeamState[old] = "EMPTY", !.m_aTeamLocked = @ \ {old}]
           left == IF empties THEN ResetRoundState(closed, old) ELSE tee
           moved == [left EXCEPT
                      !.m_aTeam[c] = t,
                      !.m_VotedForPractice = IF old # t THEN @ \ {c} ELSE @,
                      !.m_SwapTargetsClientID[c] = IF old # t THEN None ELSE @]
           r == SetForceCharacterTeam(s, c, t)
<1>1. old \in Teams /\ (empties => old # t) /\ "EMPTY" \in States /\ "OPEN" \in States
  BY ArraysAre DEF LeavesEmpty, States
<1> HIDE DEF empties
<1>2. /\ tee \in Arrays
      /\ tee = [s EXCEPT !.m_aTeeStarted = tee.m_aTeeStarted,
                         !.m_aTeeFinished = tee.m_aTeeFinished]
  BY DEF Arrays, ClearTee
<1>3. closed \in Arrays
  BY <1>1, <1>2 DEF Arrays
<1>4. left \in Arrays
  <2>1. /\ [closed.m_aInvited EXCEPT ![old] = {}] \in [Teams -> SUBSET Clients]
        /\ [d \in Clients |-> IF closed.m_aTeam[d] = old THEN None
                              ELSE closed.m_SwapTargetsClientID[d]]
             \in [Clients -> Clients \cup {None}]
        /\ closed.m_VotedForPractice \ Members(closed, old) \in SUBSET Clients
    BY <1>1, <1>3, ArraysAre
  <2> HIDE DEF closed
  <2>2. ResetRoundState(closed, old) \in Arrays
    BY <1>3, <2>1 DEF Arrays, ResetRoundState
  <2> QED BY <1>2, <2>2
<1>5. moved \in Arrays
  <2>1. /\ [left.m_aTeam EXCEPT ![c] = t] \in [Clients -> Teams]
        /\ [left.m_SwapTargetsClientID EXCEPT ![c] = IF old # t THEN None ELSE @]
             \in [Clients -> Clients \cup {None}]
        /\ (IF old # t THEN left.m_VotedForPractice \ {c} ELSE left.m_VotedForPractice)
             \in SUBSET Clients
    BY <1>4, ArraysAre
  <2> HIDE DEF left
  <2> QED BY <1>4, <2>1 DEF Arrays
<1>6. /\ left.m_aTeam = s.m_aTeam /\ left.chr = s.chr /\ left.practised = s.practised
      /\ left.m_apSaveTeamResult = s.m_apSaveTeamResult
      /\ left.m_aTeamLocked = IF empties THEN s.m_aTeamLocked \ {old} ELSE s.m_aTeamLocked
      /\ left.m_aPractice = IF empties THEN s.m_aPractice \ {old} ELSE s.m_aPractice
      /\ left.killTick = IF empties THEN s.killTick \ {old} ELSE s.killTick
      /\ left.m_aInvited = IF empties THEN [s.m_aInvited EXCEPT ![old] = {}] ELSE s.m_aInvited
      /\ left.m_aTeamState = IF empties THEN [s.m_aTeamState EXCEPT ![old] = "EMPTY"]
                                        ELSE s.m_aTeamState
  <2>1. CASE empties
    <3>1. /\ closed.m_aTeam = s.m_aTeam /\ closed.chr = s.chr
          /\ closed.practised = s.practised
          /\ closed.m_apSaveTeamResult = s.m_apSaveTeamResult
          /\ closed.m_aTeamLocked = s.m_aTeamLocked \ {old}
          /\ closed.m_aPractice = s.m_aPractice /\ closed.killTick = s.killTick
          /\ closed.m_aInvited = s.m_aInvited
          /\ closed.m_aTeamState = [s.m_aTeamState EXCEPT ![old] = "EMPTY"]
      BY DEF Arrays, ClearTee
    <3> HIDE DEF closed
    <3>2. left = ResetRoundState(closed, old)
      BY <2>1
    <3> QED BY <1>3, <2>1, <3>1, <3>2 DEF Arrays, ResetRoundState
  <2>2. CASE ~empties
    BY <2>2 DEF Arrays, ClearTee
  <2> QED BY <2>1, <2>2
<1> HIDE DEF left
<1>7. /\ moved.m_aTeam = [s.m_aTeam EXCEPT ![c] = t] /\ moved.chr = left.chr
      /\ moved.practised = left.practised
      /\ moved.m_apSaveTeamResult = left.m_apSaveTeamResult
      /\ moved.m_aTeamLocked = left.m_aTeamLocked /\ moved.m_aPractice = left.m_aPractice
      /\ moved.killTick = left.killTick /\ moved.m_aInvited = left.m_aInvited
      /\ moved.m_aTeamState = left.m_aTeamState
  BY <1>4, <1>6 DEF Arrays
<1> HIDE DEF moved
<1>8. r = IF moved.m_aTeamState[t] = "EMPTY" /\ t \notin moved.m_aTeamLocked
            THEN [moved EXCEPT !.m_aTeamState[t] = "OPEN"] ELSE moved
  BY DEF SetForceCharacterTeam, moved, left, closed, tee, old, empties
<1>9. r \in Arrays
  <2>1. [moved.m_aTeamState EXCEPT ![t] = "OPEN"] \in [Teams -> States]
    <3>1. moved.m_aTeamState \in [Teams -> States]
      BY <1>5, ArraysAre
    <3> QED BY <1>1, <3>1
  <2>2. [moved EXCEPT !.m_aTeamState[t] = "OPEN"] \in Arrays
    BY <1>5, <2>1 DEF Arrays
  <2> HIDE DEF r
  <2> QED BY <1>5, <1>8, <2>2
<1>10. /\ r.m_aTeam = moved.m_aTeam /\ r.chr = moved.chr /\ r.practised = moved.practised
       /\ r.m_apSaveTeamResult = moved.m_apSaveTeamResult
       /\ r.m_aTeamLocked = moved.m_aTeamLocked /\ r.m_aPractice = moved.m_aPractice
       /\ r.killTick = moved.killTick /\ r.m_aInvited = moved.m_aInvited
  BY <1>5, <1>8 DEF Arrays
<1>11. \A u \in Teams : r.m_aTeamState[u] =
          IF u = t /\ moved.m_aTeamState[t] = "EMPTY" /\ t \notin moved.m_aTeamLocked
            THEN "OPEN" ELSE moved.m_aTeamState[u]
  <2>1. moved.m_aTeamState \in [Teams -> States]
    BY <1>5, ArraysAre
  <2> QED BY <1>5, <1>8, <2>1 DEF Arrays
<1>12. \A u \in Teams : moved.m_aTeamState[u] =
                          IF empties /\ u = old THEN "EMPTY" ELSE s.m_aTeamState[u]
  <2>1. s.m_aTeamState \in [Teams -> States]
    BY ArraysAre
  <2> QED BY <1>1, <1>6, <1>7, <2>1
<1>13. t \in moved.m_aTeamLocked <=> t \in s.m_aTeamLocked
  BY <1>1, <1>6, <1>7
<1>14. \A u \in Teams :
         r.m_aTeamState[u] =
           IF u = t THEN IF s.m_aTeamState[t] = "EMPTY" /\ t \notin s.m_aTeamLocked
                           THEN "OPEN" ELSE s.m_aTeamState[t]
           ELSE IF empties /\ u = old THEN "EMPTY" ELSE s.m_aTeamState[u]
  BY <1>1, <1>11, <1>12, <1>13
<1> HIDE DEF r
<1> QED
  BY <1>6, <1>7, <1>9, <1>10, <1>14 DEF empties, r

\* SetForceCharacterTeam keeps the invariant; a tee that raced in practice mode
\* is not moved.
LEMMA SetForceInv ==
  ASSUME NEW s, NEW X, HelperInv(s, X), NEW c \in Clients, NEW t \in Teams,
         c \in s.practised \ X => t = s.m_aTeam[c]
  PROVE  LET r == SetForceCharacterTeam(s, c, t)
         IN /\ HelperInv(r, X)
            /\ t \in {FLOCK, s.m_aTeam[c]} => Follows(s, r)
            /\ \A d \in Clients : r.m_aTeam[d] = IF d = c THEN t ELSE s.m_aTeam[d]
            /\ r.chr = s.chr /\ r.practised = s.practised
            /\ r.m_apSaveTeamResult = s.m_apSaveTeamResult
            /\ \A u \in Teams : r.m_aTeamState[u] \in {"OPEN", "EMPTY", s.m_aTeamState[u]}
<1> DEFINE old == s.m_aTeam[c]
           empties == LeavesEmpty(s, c, t)
<1> PICK r : r = SetForceCharacterTeam(s, c, t)
  OBVIOUS
<1>1. s \in Arrays /\ old \in Teams /\ FLOCK \in Teams
  BY ArraysAre, TeamsAssumption DEF HelperInv, Teams, FLOCK
<1>2. empties <=> /\ t # old /\ old # FLOCK /\ s.m_aTeamState[old] # "EMPTY"
                  /\ Members(s, old) = {c}
  BY <1>1, LeavesEmptyIs
<1>3. /\ r \in Arrays
      /\ r.m_aTeam = [s.m_aTeam EXCEPT ![c] = t] /\ r.chr = s.chr
      /\ r.m_apSaveTeamResult = s.m_apSaveTeamResult /\ r.practised = s.practised
      /\ r.m_aTeamLocked = IF empties THEN s.m_aTeamLocked \ {old} ELSE s.m_aTeamLocked
      /\ r.m_aPractice = IF empties THEN s.m_aPractice \ {old} ELSE s.m_aPractice
      /\ r.killTick = IF empties THEN s.killTick \ {old} ELSE s.killTick
      /\ r.m_aInvited = IF empties THEN [s.m_aInvited EXCEPT ![old] = {}] ELSE s.m_aInvited
      /\ \A u \in Teams :
           r.m_aTeamState[u] =
             IF u = t THEN IF s.m_aTeamState[t] = "EMPTY" /\ t \notin s.m_aTeamLocked
                             THEN "OPEN" ELSE s.m_aTeamState[t]
             ELSE IF empties /\ u = old THEN "EMPTY" ELSE s.m_aTeamState[u]
  BY <1>1, SetForceIs
<1> HIDE DEF empties
<1>4. \A d \in Clients : r.m_aTeam[d] = IF d = c THEN t ELSE s.m_aTeam[d]
  BY <1>1, <1>3, ArraysAre
<1>5. FlockInv(r)
  BY <1>1, <1>2, <1>3 DEF HelperInv, FlockInv
<1>6. FreshInv(r)
  <2> SUFFICES ASSUME NEW u \in Teams \ {FLOCK}
               PROVE  /\ r.m_aTeamState[u] = "EMPTY" <=> Members(r, u) = {}
                      /\ r.m_aTeamState[u] = "EMPTY" =>
                           /\ u \notin r.m_aTeamLocked \cup r.m_aPractice \cup r.killTick
                           /\ r.m_aInvited[u] = {}
    BY DEF FreshInv
  <2>1. /\ s.m_aTeamState[u] = "EMPTY" <=> Members(s, u) = {}
        /\ s.m_aTeamState[u] = "EMPTY" =>
             /\ u \notin s.m_aTeamLocked \cup s.m_aPractice \cup s.killTick
             /\ s.m_aInvited[u] = {}
    BY DEF HelperInv, FreshInv
  <2>2. CASE u = t
    <3>1. c \in Members(r, u)
      BY <1>4, <2>2 DEF Members
    <3> QED BY <1>3, <2>1, <2>2, <3>1
  <2>3. CASE u # t /\ u = old
    <3>1. c \in Members(s, u) /\ Members(r, u) = Members(s, u) \ {c}
      BY <1>4, <2>3 DEF Members
    <3>2. s.m_aTeamState[old] # "EMPTY"
      BY <2>1, <2>3, <3>1
    <3>3. CASE empties
      <4>1. Members(r, u) = {} /\ r.m_aTeamState[u] = "EMPTY"
        BY <1>2, <1>3, <2>3, <3>1, <3>3
      <4>2. r.m_aInvited[u] = {}
        BY <1>1, <1>3, <2>3, <3>3, ArraysAre
      <4> QED BY <1>3, <2>3, <3>3, <4>1, <4>2
    <3>4. CASE ~empties
      <4>1. Members(r, u) # {}
        BY <1>2, <2>3, <3>1, <3>2, <3>4
      <4> QED BY <1>3, <2>3, <3>2, <3>4, <4>1
    <3> QED BY <3>3, <3>4
  <2>4. CASE u # t /\ u # old
    <3>1. Members(r, u) = Members(s, u)
      BY <1>4, <2>4 DEF Members
    <3>2. r.m_aInvited[u] = s.m_aInvited[u] /\ r.m_aTeamState[u] = s.m_aTeamState[u]
      BY <1>1, <1>3, <2>4, ArraysAre
    <3> QED BY <1>3, <2>1, <3>1, <3>2
  <2> QED BY <2>2, <2>3, <2>4
<1>7. SavingInv(r)
  BY <1>1, <1>3 DEF HelperInv, SavingInv, GetSaving
<1>8. CleanInv(r, X)
  <2> SUFFICES ASSUME NEW d \in s.practised \ X
               PROVE  IsPlaying(r, d) /\ r.m_aTeam[d] \in r.m_aPractice
    BY <1>3 DEF CleanInv
  <2>1. d \in Clients /\ IsPlaying(s, d) /\ s.m_aTeam[d] \in s.m_aPractice
    BY <1>1, ArraysAre DEF HelperInv, CleanInv
  <2>2. IsPlaying(r, d) /\ r.m_aTeam[d] = s.m_aTeam[d]
    BY <1>3, <1>4, <2>1 DEF IsPlaying
  <2>3. empties => s.m_aTeam[d] # old
    BY <1>2, <2>1 DEF Members
  <2> QED BY <1>3, <2>1, <2>2, <2>3
<1>9. t \in {FLOCK, old} => Follows(s, r)
  <2>1. SUFFICES ASSUME t \in {FLOCK, old} PROVE Follows(s, r)
    OBVIOUS
  <2>2. \A d \in Clients : r.m_aTeam[d] \in {s.m_aTeam[d], FLOCK}
    BY <1>4, <2>1
  <2>3. \A u \in Teams : s.m_aTeamState[u] \notin {"STARTED", "FINISHED"} =>
                           r.m_aTeamState[u] \notin {"STARTED", "FINISHED"}
    BY <1>3
  <2> QED BY <1>3, <2>2, <2>3 DEF Follows
<1>10. HelperInv(r, X)
  BY <1>3, <1>5, <1>6, <1>7, <1>8 DEF HelperInv
<1>11. \A u \in Teams : r.m_aTeamState[u] \in {"OPEN", "EMPTY", s.m_aTeamState[u]}
  BY <1>3
<1> QED BY <1>3, <1>4, <1>9, <1>10, <1>11

\* The teams are the same in s and r.
SameTeams(s, r) ==
  /\ r.m_aTeam = s.m_aTeam /\ r.m_aTeamState = s.m_aTeamState
  /\ r.m_aTeamLocked = s.m_aTeamLocked /\ r.m_aPractice = s.m_aPractice
  /\ r.m_aInvited = s.m_aInvited /\ r.killTick = s.killTick
  /\ r.m_apSaveTeamResult = s.m_apSaveTeamResult

\* What does not touch the teams keeps the invariant, if it does of who practised.
LEMMA SameTeamsInv ==
  ASSUME NEW s, NEW Y, HelperInv(s, Y), NEW r \in Arrays, NEW X, CleanInv(r, X),
         SameTeams(s, r)
  PROVE  HelperInv(r, X)
<1>1. FreshInv(r)
  BY DEF HelperInv, FreshInv, Members, SameTeams
<1> QED BY <1>1 DEF HelperInv, FlockInv, SavingInv, GetSaving, SameTeams

\* The dead have not raced in practice mode.
LEMMA DeadInv ==
  ASSUME NEW s, NEW X, HelperInv(s, X), NEW C \in SUBSET Clients
  PROVE  LET r == Dead(s, C)
         IN /\ HelperInv(r, X \ C) /\ Follows(s, r) /\ SameTeams(s, r)
            /\ \A c \in C : r.chr[c] = "dead" /\ c \notin r.practised
            /\ \A c \in Clients \ C : r.chr[c] = s.chr[c]
<1> DEFINE chr == [c \in Clients |-> IF c \in C THEN "dead" ELSE s.chr[c]]
<1> PICK r : r = Dead(s, C)
  OBVIOUS
<1>1. s \in Arrays /\ s.chr \in [Clients -> Chrs] /\ s.practised \in SUBSET Clients
  BY ArraysAre DEF HelperInv
<1>2. chr \in [Clients -> Chrs]
  BY <1>1 DEF Chrs
<1>3. /\ \A c \in C : chr[c] = "dead"
      /\ \A c \in Clients \ C : chr[c] = s.chr[c]
  OBVIOUS
<1>4. r = [s EXCEPT !.chr = chr, !.practised = @ \ C]
  BY <1>1 DEF Dead, WithChr, Arrays
<1> HIDE DEF chr
<1>5. r \in Arrays /\ r.chr = chr /\ r.practised = s.practised \ C
  BY <1>1, <1>2, <1>4 DEF Arrays
<1>6. SameTeams(s, r)
  BY <1>1, <1>4 DEF Arrays, SameTeams
<1>7. CleanInv(r, X \ C)
  BY <1>1, <1>3, <1>5, <1>6 DEF HelperInv, CleanInv, IsPlaying, SameTeams
<1>8. HelperInv(r, X \ C)
  BY <1>5, <1>6, <1>7, SameTeamsInv
<1>9. Follows(s, r)
  BY <1>3, <1>5, <1>6 DEF Follows, SameTeams
<1> QED BY <1>3, <1>5, <1>6, <1>8, <1>9

LEMMA AllDeadInv ==
  ASSUME NEW s, HelperInv(s, {}), NEW C \in SUBSET Clients
  PROVE  LET r == Dead(s, C)
         IN /\ HelperInv(r, {}) /\ Follows(s, r) /\ SameTeams(s, r)
            /\ \A c \in C : r.chr[c] = "dead" /\ c \notin r.practised
            /\ \A c \in Clients \ C : r.chr[c] = s.chr[c]
<1> PICK X : X = {}
  OBVIOUS
<1>1. X \ C = X /\ HelperInv(s, X)
  OBVIOUS
<1> PICK r : r = Dead(s, C)
  OBVIOUS
<1>2. /\ HelperInv(r, X \ C) /\ Follows(s, r) /\ SameTeams(s, r)
      /\ \A c \in C : r.chr[c] = "dead" /\ c \notin r.practised
      /\ \A c \in Clients \ C : r.chr[c] = s.chr[c]
  BY <1>1, DeadInv
<1> QED BY <1>1, <1>2

\* A team is spoilt that is not being saved.
LEMMA SpoilInv ==
  ASSUME NEW s, NEW X, HelperInv(s, X), NEW c \in Clients, ~GetSaving(s, s.m_aTeam[c])
  PROVE  LET r == Spoil(s, c)
         IN HelperInv(r, X) /\ Follows(s, r) /\ r.m_aTeam = s.m_aTeam /\ r.practised = s.practised
<1> DEFINE t == s.m_aTeam[c]
           state == [s.m_aTeamState EXCEPT ![t] = "UNFINISHABLE"]
<1> PICK r : r = Spoil(s, c)
  OBVIOUS
<1>1. /\ s \in Arrays /\ t \in Teams /\ s.m_aTeamState \in [Teams -> States]
      /\ s.m_aTeam \in [Clients -> Teams]
  BY ArraysAre DEF HelperInv
<1>2. CASE ~ (s.m_aTeamState[t] = "STARTED" /\ c \notin s.m_aTeeStarted)
  BY <1>2 DEF Spoil, Follows
<1>3. CASE s.m_aTeamState[t] = "STARTED" /\ c \notin s.m_aTeeStarted
  <2>1. /\ state \in [Teams -> States]
        /\ \A u \in Teams : state[u] = IF u = t THEN "UNFINISHABLE" ELSE s.m_aTeamState[u]
    BY <1>1 DEF States
  <2>2. r = [s EXCEPT !.m_aTeamState = state, !.killTick = @ \cup {t}]
    BY <1>1, <1>3 DEF Spoil, Arrays
  <2> HIDE DEF state
  <2>3. r \in Arrays /\ r.m_aTeamState = state /\ r.killTick = s.killTick \cup {t}
    <3>1. s.killTick \cup {t} \in SUBSET Teams
      BY <1>1, ArraysAre
    <3>2. r \in Arrays
      BY <1>1, <2>1, <2>2, <3>1 DEF Arrays
    <3> QED BY <1>1, <2>2, <3>2 DEF Arrays
  <2>4. /\ r.m_aTeam = s.m_aTeam /\ r.chr = s.chr /\ r.practised = s.practised
        /\ r.m_aTeamLocked = s.m_aTeamLocked /\ r.m_aPractice = s.m_aPractice
        /\ r.m_aInvited = s.m_aInvited /\ r.m_apSaveTeamResult = s.m_apSaveTeamResult
    BY <1>1, <2>2 DEF Arrays
  <2>5. t # FLOCK
    BY <1>3 DEF HelperInv, FlockInv
  <2>6. FlockInv(r)
    BY <2>1, <2>3, <2>4, <2>5, TeamsAssumption DEF HelperInv, FlockInv, Teams, FLOCK
  <2>7. FreshInv(r)
    BY <1>3, <2>1, <2>3, <2>4 DEF HelperInv, FreshInv, Members
  <2>8. SavingInv(r)
    BY <2>1, <2>3, <2>4 DEF HelperInv, SavingInv, GetSaving
  <2>9. CleanInv(r, X)
    BY <2>4 DEF HelperInv, CleanInv, IsPlaying
  <2>10. Follows(s, r)
    BY <1>3, <2>1, <2>3, <2>4 DEF Follows
  <2> QED BY <2>3, <2>4, <2>6, <2>7, <2>8, <2>9, <2>10 DEF HelperInv
<1> QED BY <1>2, <1>3


-----------------------------------------------------------------------------
(***************************************************************************)
(* The folds over the members of a team.  FoldSet is a recursive function  *)
(* on the subsets of a set; for a finite set it is shown to exist, and     *)
(* what is said of its values is shown by induction over the subsets, both *)
(* by a least counterexample.                                              *)
(***************************************************************************)

Pick(C) == CHOOSE x \in C : TRUE
Rest(C) == C \ {Pick(C)}

\* A set of numbers that is not empty has a least one.
LEMMA LeastNumber ==
  ASSUME NEW T, T \subseteq Nat, T # {}
  PROVE  \E x \in T : \A y \in T : x <= y
<1>1. \E x \in T : \A y \in T : ~ (<<y, x>> \in OpToRel(<, Nat))
  BY NatLessThanWellFounded, WFMin
<1>2. PICK x \in T : \A y \in T : ~ (y < x)
  BY <1>1 DEF OpToRel
<1> QED
  BY <1>2

\* The subset without the picked element is smaller.
LEMMA RestIs ==
  ASSUME NEW S, IsFiniteSet(S), NEW C \in SUBSET S
  PROVE  /\ Cardinality(C) \in Nat
         /\ C # {} => /\ Pick(C) \in C /\ Rest(C) \in SUBSET S
                      /\ Cardinality(Rest(C)) = Cardinality(C) - 1
<1>1. IsFiniteSet(C)
  BY FS_Subset
<1>2. C # {} => Pick(C) \in C
  BY DEF Pick
<1> QED BY <1>1, <1>2, FS_CardinalityType, FS_RemoveElement DEF Rest

\* Induction over the subsets of a finite set.
LEMMA SubsetInduction ==
  ASSUME NEW S, IsFiniteSet(S), NEW T, {} \in T,
         \A C \in SUBSET S : C # {} /\ Rest(C) \in T => C \in T
  PROVE  SUBSET S \subseteq T
<1> DEFINE N == {n \in Nat : \E C \in SUBSET S : Cardinality(C) = n /\ C \notin T}
<1> SUFFICES ASSUME N # {} PROVE FALSE
  BY RestIs
<1>1. PICK n \in N : \A k \in N : n <= k
  <2>1. N \subseteq Nat
    OBVIOUS
  <2> HIDE DEF N
  <2> QED BY <2>1, LeastNumber
<1>2. PICK C \in SUBSET S : Cardinality(C) = n /\ C \notin T
  BY <1>1
<1>3. C # {}
  BY <1>2
<1>4. Rest(C) \in SUBSET S /\ Cardinality(Rest(C)) = n - 1 /\ n \in Nat
  BY <1>2, <1>3, RestIs
<1>5. n - 1 \in Nat /\ ~ (n <= n - 1)
  BY <1>4, <1>3, RestIs
<1>6. Rest(C) \notin T
  BY <1>2, <1>3
<1> QED BY <1>1, <1>4, <1>5, <1>6

\* f is the fold of the function step over S.
IsFold(f, S, base, step) ==
  f = [C \in SUBSET S |-> IF C = {} THEN base ELSE step[<<Pick(C), f[Rest(C)]>>]]

\* A fold with a function exists.
LEMMA FoldExists ==
  ASSUME NEW S, IsFiniteSet(S), NEW base, NEW step
  PROVE  \E f : IsFold(f, S, base, step)
<1> DEFINE Upto(n) == {C \in SUBSET S : Cardinality(C) <= n}
           Solves(f, n) == f = [C \in Upto(n) |-> IF C = {} THEN base
                                                  ELSE step[<<Pick(C), f[Rest(C)]>>]]
           T == {n \in Nat : ~ \E f : Solves(f, n)}
<1>1. T = {}
  <2> SUFFICES ASSUME T # {} PROVE FALSE
    OBVIOUS
  <2>1. PICK m \in T : \A k \in T : m <= k
    <3>1. T \subseteq Nat
      OBVIOUS
    <3> HIDE DEF T
    <3> QED BY <3>1, LeastNumber
  <2>2. CASE m = 0
    <3>1. \A C \in Upto(0) : C = {}
      <4> SUFFICES ASSUME NEW C \in SUBSET S, Cardinality(C) <= 0 PROVE C = {}
        OBVIOUS
      <4>1. Cardinality(C) = 0 /\ IsFiniteSet(C)
        BY RestIs, FS_Subset
      <4> QED BY <4>1, FS_EmptySet
    <3> DEFINE f == [C \in Upto(0) |-> base]
    <3>2. Solves(f, 0)
      <4>1. f = [C \in Upto(0) |-> IF C = {} THEN base ELSE step[<<Pick(C), f[Rest(C)]>>]]
        <5> HIDE DEF Upto
        <5> QED BY <3>1
      <4> QED BY <4>1
    <3> HIDE DEF f, Solves
    <3> QED BY <2>1, <2>2, <3>2
  <2>3. CASE m # 0
    <3>1. m \in Nat /\ m - 1 \in Nat /\ ~(m <= m - 1)
      BY <2>1, <2>3
    <3>2. PICK f : Solves(f, m - 1)
      BY <2>1, <3>1
    <3> DEFINE g1 == [C \in Upto(m) |-> IF C \in Upto(m - 1) THEN f[C]
                                        ELSE step[<<Pick(C), f[Rest(C)]>>]]
    <3>3. \A C \in Upto(m) : C # {} => Rest(C) \in Upto(m - 1) /\ Rest(C) \in Upto(m)
      <4> SUFFICES ASSUME NEW C \in SUBSET S, Cardinality(C) <= m, C # {}
                   PROVE  Rest(C) \in Upto(m - 1) /\ Rest(C) \in Upto(m)
        OBVIOUS
      <4>1. PICK n \in Nat : n = Cardinality(C)
        BY RestIs
      <4>2. Rest(C) \in SUBSET S /\ Cardinality(Rest(C)) = n - 1
        BY <4>1, RestIs
      <4>3. n - 1 <= m - 1 /\ n - 1 <= m
        BY <3>1, <4>1
      <4> QED BY <4>2, <4>3
    <3>4. {} \in Upto(m - 1)
      BY <3>1, FS_EmptySet
    <3> HIDE DEF Upto
    <3>5. \A C \in Upto(m - 1) :
            f[C] = IF C = {} THEN base ELSE step[<<Pick(C), f[Rest(C)]>>]
      BY <3>2
    <3>6. \A C \in Upto(m) :
            g1[C] = IF C = {} THEN base ELSE step[<<Pick(C), g1[Rest(C)]>>]
      <4> TAKE C \in Upto(m)
      <4>1. CASE C = {}
        BY <3>4, <3>5, <4>1
      <4>2. CASE C # {}
        <5>1. g1[Rest(C)] = f[Rest(C)]
          BY <3>3, <4>2
        <5>2. g1[C] = step[<<Pick(C), f[Rest(C)]>>]
          BY <3>5, <4>2
        <5> QED BY <4>2, <5>1, <5>2
      <4> QED BY <4>1, <4>2
    <3>7. g1 = [C \in Upto(m) |-> g1[C]]
      OBVIOUS
    <3>8. Solves(g1, m)
      <4> HIDE DEF g1
      <4> QED BY <3>6, <3>7
    <3> HIDE DEF Solves
    <3> QED BY <2>1, <3>8
  <2> QED BY <2>2, <2>3
<1>2. Cardinality(S) \in Nat
  BY FS_CardinalityType
<1>3. Upto(Cardinality(S)) = SUBSET S
  BY FS_Subset
<1>4. PICK f : Solves(f, Cardinality(S))
  BY <1>1, <1>2
<1> HIDE DEF Upto
<1>5. IsFold(f, S, base, step)
  BY <1>3, <1>4 DEF IsFold
<1> QED BY <1>5


\* Players who have not raced in practice mode are moved to the flock.
LEMMA MoveAllInv ==
  ASSUME NEW s, NEW X, HelperInv(s, X), NEW C \in SUBSET Clients,
         \A c \in C : c \notin s.practised \ X
  PROVE  LET r == MoveAll(s, C, FLOCK)
         IN HelperInv(r, X) /\ Follows(s, r)
<1> DEFINE G == {a \in Arrays : HelperInv(a, X) /\ Follows(s, a)}
           step == [z \in C \X G |-> SetForceCharacterTeam(z[2], z[1], FLOCK)]
           OneByOne(f) == f = [D \in SUBSET C |->
                                 IF D = {} THEN s
                                 ELSE SetForceCharacterTeam(f[Rest(D)], Pick(D), FLOCK)]
<1>1. s \in G
  BY DEF HelperInv, Follows
<1>2. ASSUME NEW c \in C, NEW a \in G
      PROVE  SetForceCharacterTeam(a, c, FLOCK) \in G
  <2>1. HelperInv(a, X) /\ Follows(s, a) /\ c \notin a.practised \ X /\ FLOCK \in Teams
    BY TeamsAssumption DEF Follows, Teams, FLOCK
  <2>2. /\ HelperInv(SetForceCharacterTeam(a, c, FLOCK), X)
        /\ Follows(a, SetForceCharacterTeam(a, c, FLOCK))
    BY <2>1, SetForceInv
  <2> QED BY <2>1, <2>2, FollowsOn DEF HelperInv
<1>3. IsFiniteSet(C)
  BY TeamsAssumption, FS_Subset
<1> HIDE DEF G
<1>4. \E f : OneByOne(f)
  <2>1. PICK f : f = [D \in SUBSET C |-> IF D = {} THEN s ELSE step[<<Pick(D), f[Rest(D)]>>]]
    <3> HIDE DEF step
    <3>1. \E f : IsFold(f, C, s, step)
      BY <1>3, FoldExists
    <3> QED BY <3>1 DEF IsFold
  <2>2. \A D \in SUBSET C : f[D] \in G
    <3> DEFINE T == {D \in SUBSET C : f[D] \in G}
    <3>1. {} \in T
      BY <1>1, <2>1
    <3>2. ASSUME NEW D \in SUBSET C, D # {}, Rest(D) \in T PROVE D \in T
      <4>1. Pick(D) \in C
        BY <1>3, <3>2, RestIs
      <4> QED BY <1>2, <2>1, <3>2, <4>1
    <3> HIDE DEF T
    <3>3. SUBSET C \subseteq T
      BY <1>3, <3>1, <3>2, SubsetInduction
    <3> QED BY <3>3 DEF T
  <2>3. \A D \in SUBSET C : D # {} =>
          step[<<Pick(D), f[Rest(D)]>>] = SetForceCharacterTeam(f[Rest(D)], Pick(D), FLOCK)
    BY <1>3, <2>2, RestIs
  <2> HIDE DEF step
  <2>4. [D \in SUBSET C |-> IF D = {} THEN s ELSE step[<<Pick(D), f[Rest(D)]>>]]
          = [D \in SUBSET C |-> IF D = {} THEN s
                               ELSE SetForceCharacterTeam(f[Rest(D)], Pick(D), FLOCK)]
    BY <2>3
  <2> QED BY <2>1, <2>4
<1>5. \E f : OneByOne(f) /\ MoveAll(s, C, FLOCK) = f[C]
  BY <1>4 DEF MoveAll, FoldSet, MapThenFoldSet, Rest, Pick
<1>6. PICK f : OneByOne(f) /\ MoveAll(s, C, FLOCK) = f[C]
  BY <1>5
<1>7. f[C] \in G
  <2> DEFINE T == {D \in SUBSET C : f[D] \in G}
  <2>1. {} \in T
    BY <1>1, <1>6
  <2>2. ASSUME NEW D \in SUBSET C, D # {}, Rest(D) \in T PROVE D \in T
    <3>1. Pick(D) \in C
      BY <1>3, <2>2, RestIs
    <3> QED BY <1>2, <1>6, <2>2, <3>1
  <2> HIDE DEF T
  <2>3. SUBSET C \subseteq T
    BY <1>3, <2>1, <2>2, SubsetInduction
  <2> QED BY <2>3 DEF T
<1> QED BY <1>6, <1>7 DEF G


-----------------------------------------------------------------------------
(* Finishing and dying.                                                    *)

\* A team that has all finished is finished, whatever practice mode says.
LEMMA FinishedInv ==
  ASSUME NEW s, NEW X, HelperInv(s, X), NEW t \in Teams, TeamFinished(s, t),
         Playing(s, t) # {}
  PROVE  LET C == Playing(s, t)
             done == WithChr([s EXCEPT !.m_aTeeStarted = @ \ C, !.m_aTeeFinished = @ \ C],
                             C, "FINISHED")
             r == [done EXCEPT !.m_aTeamState[t] = "FINISHED"]
         IN /\ HelperInv(r, X) /\ Follows(s, r)
            /\ \A c \in C : r.chr[c] # "STARTED"
            /\ r.practised = s.practised
<1> DEFINE C == Playing(s, t)
           done == WithChr([s EXCEPT !.m_aTeeStarted = @ \ C, !.m_aTeeFinished = @ \ C],
                           C, "FINISHED")
           chr == [c \in Clients |-> IF c \in C THEN "FINISHED" ELSE s.chr[c]]
           state == [s.m_aTeamState EXCEPT ![t] = "FINISHED"]
<1> PICK r : r = [done EXCEPT !.m_aTeamState[t] = "FINISHED"]
  OBVIOUS
<1>1. /\ s \in Arrays /\ s.chr \in [Clients -> Chrs] /\ s.m_aTeamState \in [Teams -> States]
      /\ s.m_aTeamState[t] = "STARTED" /\ C \in SUBSET Clients
  BY ArraysAre DEF HelperInv, TeamFinished, Playing, Members
<1>2. /\ chr \in [Clients -> Chrs]
      /\ \A c \in Clients : chr[c] = IF c \in C THEN "FINISHED" ELSE s.chr[c]
  BY <1>1 DEF Chrs, Races
<1>3. /\ state \in [Teams -> States]
      /\ \A u \in Teams : state[u] = IF u = t THEN "FINISHED" ELSE s.m_aTeamState[u]
  BY <1>1 DEF States
<1> HIDE DEF C
<1>4. r = [s EXCEPT !.m_aTeeStarted = @ \ C, !.m_aTeeFinished = @ \ C, !.chr = chr,
                    !.m_aTeamState = state]
  BY <1>1 DEF WithChr, Arrays
<1> HIDE DEF chr, state, done
<1>5. /\ s.m_aTeeStarted \ C \in SUBSET Clients /\ s.m_aTeeFinished \ C \in SUBSET Clients
  BY <1>1, ArraysAre
<1>6. r \in Arrays
  BY <1>1, <1>2, <1>3, <1>4, <1>5 DEF Arrays
<1>7. /\ r.chr = chr /\ r.m_aTeamState = state
      /\ r.m_aTeam = s.m_aTeam /\ r.practised = s.practised
      /\ r.m_aTeamLocked = s.m_aTeamLocked /\ r.m_aPractice = s.m_aPractice
      /\ r.m_aInvited = s.m_aInvited /\ r.killTick = s.killTick
      /\ r.m_apSaveTeamResult = s.m_apSaveTeamResult
  BY <1>1, <1>4 DEF Arrays
<1>8. t # FLOCK
  BY <1>1 DEF HelperInv, FlockInv
<1>9. FlockInv(r)
  BY <1>3, <1>7, <1>8, TeamsAssumption DEF HelperInv, FlockInv, Teams, FLOCK
<1>10. FreshInv(r)
  BY <1>1, <1>3, <1>7 DEF HelperInv, FreshInv, Members
<1>11. SavingInv(r)
  BY <1>3, <1>7 DEF HelperInv, SavingInv, GetSaving
<1>12. CleanInv(r, X)
  BY <1>1, <1>2, <1>7, ArraysAre DEF HelperInv, CleanInv, IsPlaying, Races
<1>13. Follows(s, r)
  BY <1>1, <1>2, <1>3, <1>7 DEF Follows
<1>14. \A c \in C : r.chr[c] # "STARTED"
  BY <1>1, <1>2, <1>7
<1> QED
  BY <1>6, <1>7, <1>9, <1>10, <1>11, <1>12, <1>13, <1>14 DEF HelperInv, C, done

\* CheckTeamFinished; who gets a rank has not practised, and does not race on.
LEMMA CheckFinishedInv ==
  ASSUME NEW s, NEW X, HelperInv(s, X), NEW t \in Teams
  PROVE  LET r == CheckTeamFinished(s, t)
         IN /\ HelperInv(r, X) /\ Follows(s, r)
            /\ \A c \in Ranks(s, t) : r.chr[c] # "STARTED" /\ c \notin r.practised \ X
            /\ Ranks(s, t) \subseteq Playing(s, t)
<1> DEFINE C == Playing(s, t)
           done == WithChr([s EXCEPT !.m_aTeeStarted = @ \ C, !.m_aTeeFinished = @ \ C],
                           C, "FINISHED")
           s1 == [done EXCEPT !.m_aTeamState[t] = "FINISHED"]
<1> PICK r : r = CheckTeamFinished(s, t)
  OBVIOUS
<1>1. CASE ~TeamFinished(s, t) \/ C = {}
  <2>1. r = s /\ Ranks(s, t) = {}
    BY <1>1 DEF CheckTeamFinished, Ranks
  <2>2. Follows(s, s)
    BY DEF Follows
  <2> QED BY <2>1, <2>2
<1>2. CASE TeamFinished(s, t) /\ C # {}
  <2>1. /\ HelperInv(s1, X) /\ Follows(s, s1) /\ s1.practised = s.practised
        /\ \A c \in C : s1.chr[c] # "STARTED"
    BY <1>2, FinishedInv
  <2> HIDE DEF done
  <2>2. CASE t \in s.m_aPractice
    <3>1. r = s1 /\ Ranks(s, t) = {}
      BY <1>2, <2>2 DEF CheckTeamFinished, Ranks, done
    <3> HIDE DEF s1
    <3> QED BY <2>1, <3>1
  <2>3. CASE t \notin s.m_aPractice
    <3>1. r = OnTeamFinish(done, C, t) /\ Ranks(s, t) = C
      BY <1>2, <2>3 DEF CheckTeamFinished, Ranks, done
    <3>2. r = s1 \/ r = MoveAll(s1, C, FLOCK)
      BY <3>1 DEF OnTeamFinish
    <3> HIDE DEF s1
    <3>3. \A c \in C : c \notin s.practised \ X
      BY <2>3 DEF HelperInv, CleanInv, Playing, Members
    <3>4. C \in SUBSET Clients
      BY DEF Playing, Members
    <3> HIDE DEF C
    <3>5. HelperInv(MoveAll(s1, C, FLOCK), X) /\ Follows(s1, MoveAll(s1, C, FLOCK))
      BY <2>1, <3>3, <3>4, MoveAllInv
    <3>6. Follows(s1, s1)
      BY DEF Follows
    <3>7. HelperInv(r, X) /\ Follows(s1, r)
      BY <2>1, <3>2, <3>5, <3>6
    <3>8. Follows(s, r)
      BY <2>1, <3>7, FollowsOn
    <3>9. \A c \in C : r.chr[c] # "STARTED" /\ c \notin r.practised \ X
      BY <2>1, <3>3, <3>4, <3>7 DEF Follows
    <3> QED BY <3>1, <3>7, <3>8, <3>9 DEF C
  <2> QED BY <2>2, <2>3
<1> QED BY <1>1, <1>2


\* The same, of arrays where all that practised still do.
LEMMA CheckFinishedClean ==
  ASSUME NEW s, HelperInv(s, {}), NEW t \in Teams
  PROVE  LET r == CheckTeamFinished(s, t)
         IN /\ HelperInv(r, {}) /\ Follows(s, r)
            /\ \A c \in Ranks(s, t) : r.chr[c] # "STARTED" /\ c \notin r.practised
            /\ Ranks(s, t) \subseteq Playing(s, t)
<1> PICK X : X = {}
  OBVIOUS
<1> PICK r : r = CheckTeamFinished(s, t)
  OBVIOUS
<1>1. HelperInv(s, X) /\ \A c : c \notin X
  OBVIOUS
<1>2. /\ HelperInv(r, X) /\ Follows(s, r)
      /\ \A c \in Ranks(s, t) : r.chr[c] # "STARTED" /\ c \notin r.practised \ X
      /\ Ranks(s, t) \subseteq Playing(s, t)
  BY <1>1, CheckFinishedInv
<1> QED BY <1>1, <1>2

\* Arrays with some new fields.
LEMMA ArraysWith ==
  ASSUME NEW s \in Arrays, NEW state \in [Teams -> States], NEW P \in SUBSET Teams,
         NEW V \in SUBSET Clients, NEW S \in SUBSET Clients, NEW F \in SUBSET Clients
  PROVE  [s EXCEPT !.m_aTeamState = state, !.m_aPractice = P, !.m_VotedForPractice = V,
                   !.m_aTeeStarted = S, !.m_aTeeFinished = F] \in Arrays
BY DEF Arrays

\* In a locked team all die; nobody of it has then practised.
LEMMA LockedDeathInv ==
  ASSUME NEW s, HelperInv(s, {}), NEW c \in Clients
  PROVE  LET r == DeathInLockedTeam(s, c)
         IN HelperInv(r, {}) /\ Follows(s, r)
<1> PICK t : t = s.m_aTeam[c]
  OBVIOUS
<1> PICK r : r = DeathInLockedTeam(s, c)
  OBVIOUS
<1> PICK s1 : s1 = SetForceCharacterTeam(s, c, t)
  OBVIOUS
<1>1. s \in Arrays /\ t \in Teams
  BY ArraysAre DEF HelperInv
<1>2. HelperInv(s1, {}) /\ Follows(s, s1)
  BY <1>1, SetForceInv
<1>3. c \notin {} /\ s1.m_aTeam[c] = t
  BY <1>1, SetForceInv
<1>4. c \in Members(s1, t) /\ s1 \in Arrays
  BY <1>2, <1>3 DEF Members, HelperInv
<1>5. CASE s1.m_aTeamState[t] = "OPEN"
  BY <1>2, <1>5 DEF DeathInLockedTeam
<1>6. CASE s1.m_aTeamState[t] # "OPEN"
  <2> PICK C : C = Playing(s1, t)
    OBVIOUS
  <2> PICK d : d = Dead(s1, C)
    OBVIOUS
  <2>1. C \in SUBSET Clients
    BY DEF Playing, Members
  <2>2. /\ HelperInv(d, {}) /\ Follows(s1, d) /\ SameTeams(s1, d)
        /\ \A e \in C : d.chr[e] = "dead" /\ e \notin d.practised
        /\ \A e \in Clients \ C : d.chr[e] = s1.chr[e]
    BY <1>2, <2>1, AllDeadInv
  <2>3. d.m_aTeam = s1.m_aTeam
    BY <2>2 DEF SameTeams
  <2>16. d \in Arrays
    BY <2>2 DEF HelperInv
  <2>4. PICK V, P, S, F : /\ V = d.m_VotedForPractice \ Members(s, t)
                          /\ P = d.m_aPractice \ {t}
                          /\ S = d.m_aTeeStarted \ C /\ F = d.m_aTeeFinished \ C
    OBVIOUS
  <2>5. PICK state : state = [d.m_aTeamState EXCEPT ![t] = "OPEN"]
    OBVIOUS
  <2>6. r = [d EXCEPT !.m_aTeamState = state, !.m_aPractice = P, !.m_VotedForPractice = V,
                      !.m_aTeeStarted = S, !.m_aTeeFinished = F]
    BY <1>6, <2>4, <2>5, <2>16 DEF DeathInLockedTeam, Arrays
  <2>7. /\ V \in SUBSET Clients /\ P \in SUBSET Teams
        /\ S \in SUBSET Clients /\ F \in SUBSET Clients
    BY <2>3, <2>16, <2>4, ArraysAre
  <2>8. /\ state \in [Teams -> States]
        /\ \A u \in Teams : state[u] = IF u = t THEN "OPEN" ELSE d.m_aTeamState[u]
    BY <1>1, <2>3, <2>16, <2>5, ArraysAre DEF States
  <2>9. r \in Arrays
    <3>1. state \in [Teams -> States]
      BY <2>8
    <3>2. [d EXCEPT !.m_aTeamState = state, !.m_aPractice = P, !.m_VotedForPractice = V,
                    !.m_aTeeStarted = S, !.m_aTeeFinished = F] \in Arrays
      BY <2>7, <2>16, <3>1, ArraysWith
    <3> QED BY <2>6, <3>2
  <2>10. /\ r.m_aTeamState = state /\ r.m_aPractice = P
         /\ r.m_aTeam = d.m_aTeam /\ r.chr = d.chr /\ r.practised = d.practised
         /\ r.m_aTeamLocked = d.m_aTeamLocked /\ r.m_aInvited = d.m_aInvited
         /\ r.killTick = d.killTick /\ r.m_apSaveTeamResult = d.m_apSaveTeamResult
    BY <2>6, <2>16 DEF Arrays
  <2>11. FlockInv(r)
    BY <2>2, <2>4, <2>8, <2>10, TeamsAssumption DEF HelperInv, FlockInv, Teams, FLOCK
  <2>12. FreshInv(r)
    <3>1. c \in Members(r, t)
      BY <1>4, <2>3, <2>10 DEF Members
    <3>2. \A u \in Teams : Members(r, u) = Members(d, u)
      BY <2>10 DEF Members
    <3> SUFFICES ASSUME NEW u \in Teams \ {FLOCK}
                 PROVE  /\ r.m_aTeamState[u] = "EMPTY" <=> Members(r, u) = {}
                        /\ r.m_aTeamState[u] = "EMPTY" =>
                             /\ u \notin r.m_aTeamLocked \cup r.m_aPractice \cup r.killTick
                             /\ r.m_aInvited[u] = {}
      BY DEF FreshInv
    <3>3. CASE u = t
      BY <2>8, <2>10, <3>1, <3>3
    <3>4. CASE u # t
      <4>1. /\ d.m_aTeamState[u] = "EMPTY" <=> Members(d, u) = {}
            /\ d.m_aTeamState[u] = "EMPTY" =>
                 /\ u \notin d.m_aTeamLocked \cup d.m_aPractice \cup d.killTick
                 /\ d.m_aInvited[u] = {}
        BY <2>2 DEF HelperInv, FreshInv
      <4>2. r.m_aTeamState[u] = d.m_aTeamState[u]
        BY <2>8, <2>10, <3>4
      <4> QED BY <2>4, <2>10, <3>2, <4>1, <4>2
    <3> QED BY <3>3, <3>4
  <2>13. SavingInv(r)
    BY <2>2, <2>8, <2>10 DEF HelperInv, SavingInv, GetSaving
  <2>14. CleanInv(r, {})
    <3> SUFFICES ASSUME NEW e \in d.practised
                 PROVE  IsPlaying(r, e) /\ r.m_aTeam[e] \in r.m_aPractice
      BY <2>10 DEF CleanInv
    <3>1. IsPlaying(d, e) /\ d.m_aTeam[e] \in d.m_aPractice /\ e \in Clients
      BY <2>2, <2>3, <2>16, ArraysAre DEF HelperInv, CleanInv
    <3>2. e \notin C
      BY <2>2
    <3>3. IsPlaying(s1, e)
      BY <2>2, <3>1, <3>2 DEF IsPlaying
    <3>4. d.m_aTeam[e] # t
      BY <2>3, <3>1, <3>2, <3>3 DEF Playing, Members
    <3> QED BY <2>4, <2>10, <3>1, <3>4 DEF IsPlaying
  <2>15. Follows(d, r)
    BY <2>8, <2>10 DEF Follows
  <2> QED
    BY <1>2, <2>2, <2>9, <2>11, <2>12, <2>13, <2>14, <2>15, FollowsOn DEF HelperInv
<1> QED BY <1>5, <1>6

\* The death of a character; who gets a rank by it has not practised.
LEMMA DieInv ==
  ASSUME NEW s, HelperInv(s, {}), NEW c \in Clients, NEW game
  PROVE  LET r == Die(s, c, game)
         IN /\ HelperInv(r, {}) /\ Follows(s, r)
            /\ r.chr[c] # "STARTED" /\ c \notin r.practised
            /\ \A d \in DieRanks(s, c, game) : r.chr[d] # "STARTED" /\ d \notin r.practised
<1> PICK t : t = s.m_aTeam[c]
  OBVIOUS
<1> PICK r : r = Die(s, c, game)
  OBVIOUS
<1> PICK s1 : s1 = Dead(s, {c})
  OBVIOUS
<1>1. s \in Arrays /\ t \in Teams /\ FLOCK \in Teams
  BY ArraysAre, TeamsAssumption DEF HelperInv, Teams, FLOCK
<1>2. /\ HelperInv(s1, {}) /\ Follows(s, s1) /\ SameTeams(s, s1)
      /\ s1.chr[c] # "STARTED" /\ c \notin s1.practised
  <2>1. {c} \in SUBSET Clients
    OBVIOUS
  <2> QED BY <2>1, AllDeadInv
<1>3. s1.m_aTeam = s.m_aTeam /\ s1.m_apSaveTeamResult = s.m_apSaveTeamResult
  BY <1>2 DEF SameTeams
<1>4. CASE GetSaving(s, t)
  BY <1>2, <1>4 DEF Die, DieRanks
<1>5. CASE ~GetSaving(s, t) /\ t \in s.m_aTeamLocked /\ ~game
  <2>1. r = DeathInLockedTeam(s1, c) /\ DieRanks(s, c, game) = {}
    BY <1>5 DEF Die, DieRanks
  <2>2. HelperInv(r, {}) /\ Follows(s1, r)
    BY <1>2, <2>1, LockedDeathInv
  <2>3. Follows(s, r)
    BY <1>2, <2>2, FollowsOn
  <2> QED BY <1>2, <2>1, <2>2, <2>3 DEF Follows
<1>6. CASE ~GetSaving(s, t) /\ ~ (t \in s.m_aTeamLocked /\ ~game)
  <2> PICK s2 : s2 = Spoil(s1, c)
    OBVIOUS
  <2> PICK s3 : s3 = SetForceCharacterTeam(s2, c, FLOCK)
    OBVIOUS
  <2>1. r = CheckTeamFinished(s3, t) /\ DieRanks(s, c, game) = Ranks(s3, t)
    BY <1>6 DEF Die, DieRanks
  <2>2. HelperInv(s2, {}) /\ Follows(s1, s2)
    BY <1>2, <1>3, <1>6, SpoilInv DEF GetSaving
  <2>3. c \notin s2.practised
    BY <1>2, <2>2 DEF Follows
  <2>4. HelperInv(s3, {}) /\ Follows(s2, s3)
    BY <1>1, <2>2, <2>3, SetForceInv
  <2>5. /\ HelperInv(r, {}) /\ Follows(s3, r)
        /\ \A d \in Ranks(s3, t) : r.chr[d] # "STARTED" /\ d \notin r.practised
    BY <1>1, <2>1, <2>4, CheckFinishedClean
  <2>6. Follows(s1, r)
    BY <2>2, <2>4, <2>5, FollowsOn
  <2>7. Follows(s, r)
    BY <1>2, <2>6, FollowsOn
  <2> QED BY <1>2, <2>1, <2>5, <2>6, <2>7 DEF Follows
<1> QED BY <1>4, <1>5, <1>6


\* KillTeam does to a tee.
KillTee(s, c) == IF IsPlaying(s, c) THEN Die(s, c, FALSE) ELSE s

LEMMA KillTeeInv ==
  ASSUME NEW s, HelperInv(s, {}), NEW c \in Clients
  PROVE  LET r == KillTee(s, c)
         IN /\ HelperInv(r, {}) /\ Follows(s, r)
            /\ r.chr[c] # "STARTED" /\ c \notin r.practised
<1>1. CASE IsPlaying(s, c)
  BY <1>1, DieInv DEF KillTee
<1>2. CASE ~IsPlaying(s, c)
  <2>1. s.chr[c] # "STARTED" /\ c \notin s.practised
    BY <1>2 DEF IsPlaying, Races, HelperInv, CleanInv
  <2> QED BY <1>2, <2>1 DEF KillTee, Follows
<1> QED BY <1>1, <1>2

\* KillTeam: nobody of the team races after it.
LEMMA KillTeamInv ==
  ASSUME NEW s, HelperInv(s, {}), NEW t \in Teams
  PROVE  LET r == KillTeam(s, t)
         IN /\ HelperInv(r, {}) /\ Follows(s, r)
            /\ \A c \in Members(s, t) : r.chr[c] # "STARTED" /\ c \notin r.practised
<1> DEFINE M == Members(s, t)
           base == [s EXCEPT !.m_VotedForPractice = @ \ M]
           G == {a \in Arrays : HelperInv(a, {}) /\ Follows(s, a)}
           Done(a, D) == \A c \in D : a.chr[c] # "STARTED" /\ c \notin a.practised
           step == [z \in M \X G |-> KillTee(z[2], z[1])]
           OneByOne(f) == f = [D \in SUBSET M |->
                                 IF D = {} THEN base ELSE KillTee(f[Rest(D)], Pick(D))]
<1>1. base \in G
  <2>1. s \in Arrays /\ s.m_VotedForPractice \ M \in SUBSET Clients
    BY ArraysAre DEF HelperInv
  <2>2. base \in Arrays /\ SameTeams(s, base) /\ base.chr = s.chr
        /\ base.practised = s.practised
    BY <2>1 DEF Arrays, SameTeams
  <2>3. CleanInv(base, {})
    BY <2>2 DEF HelperInv, CleanInv, IsPlaying, SameTeams
  <2>4. HelperInv(base, {})
    BY <2>2, <2>3, SameTeamsInv
  <2>5. Follows(s, base)
    BY <2>2 DEF Follows, SameTeams
  <2> QED BY <2>2, <2>4, <2>5
<1>2. M \in SUBSET Clients /\ IsFiniteSet(M)
  BY TeamsAssumption, FS_Subset DEF Members
<1>3. ASSUME NEW c \in M, NEW a \in G
      PROVE  /\ KillTee(a, c) \in G /\ Follows(a, KillTee(a, c))
             /\ Done(KillTee(a, c), {c})
  <2>1. HelperInv(a, {}) /\ Follows(s, a) /\ c \in Clients
    BY <1>2
  <2>2. /\ HelperInv(KillTee(a, c), {}) /\ Follows(a, KillTee(a, c))
        /\ KillTee(a, c).chr[c] # "STARTED" /\ c \notin KillTee(a, c).practised
    BY <2>1, KillTeeInv
  <2>3. Follows(s, KillTee(a, c))
    BY <2>1, <2>2, FollowsOn
  <2> QED BY <2>2, <2>3 DEF HelperInv
<1>4. \A a, r : \A D \in SUBSET Clients : Done(a, D) /\ Follows(a, r) => Done(r, D)
  BY DEF Follows
<1> HIDE DEF M, base, G, Done
<1>5. \E f : OneByOne(f)
  <2>1. PICK f : f = [D \in SUBSET M |->
                        IF D = {} THEN base ELSE step[<<Pick(D), f[Rest(D)]>>]]
    <3> HIDE DEF step
    <3>1. \E f : IsFold(f, M, base, step)
      BY <1>2, FoldExists
    <3> QED BY <3>1 DEF IsFold
  <2>2. \A D \in SUBSET M : f[D] \in G
    <3> DEFINE T == {D \in SUBSET M : f[D] \in G}
    <3>1. {} \in T
      BY <1>1, <2>1
    <3>2. ASSUME NEW D \in SUBSET M, D # {}, Rest(D) \in T PROVE D \in T
      <4>1. Pick(D) \in M
        BY <1>2, <3>2, RestIs
      <4> QED BY <1>3, <2>1, <3>2, <4>1
    <3> HIDE DEF T
    <3>3. SUBSET M \subseteq T
      BY <1>2, <3>1, <3>2, SubsetInduction
    <3> QED BY <3>3 DEF T
  <2>3. \A D \in SUBSET M : D # {} =>
          step[<<Pick(D), f[Rest(D)]>>] = KillTee(f[Rest(D)], Pick(D))
    BY <1>2, <2>2, RestIs
  <2> HIDE DEF step
  <2>4. [D \in SUBSET M |-> IF D = {} THEN base ELSE step[<<Pick(D), f[Rest(D)]>>]]
          = [D \in SUBSET M |-> IF D = {} THEN base ELSE KillTee(f[Rest(D)], Pick(D))]
    BY <2>3
  <2> QED BY <2>1, <2>4
<1>6. \E f : OneByOne(f) /\ KillTeam(s, t) = f[M]
  BY <1>5 DEF KillTeam, FoldSet, MapThenFoldSet, Rest, Pick, KillTee, M, base
<1>7. PICK f : OneByOne(f) /\ KillTeam(s, t) = f[M]
  BY <1>6
<1>8. f[M] \in G /\ Done(f[M], M)
  <2> DEFINE T == {D \in SUBSET M : f[D] \in G /\ Done(f[D], D)}
  <2>1. {} \in T
    BY <1>1, <1>7 DEF Done
  <2>2. ASSUME NEW D \in SUBSET M, D # {}, Rest(D) \in T PROVE D \in T
    <3>1. Pick(D) \in M /\ D = Rest(D) \cup {Pick(D)} /\ Rest(D) \in SUBSET Clients
      <4>1. Pick(D) \in D /\ Rest(D) \in SUBSET M
        BY <1>2, <2>2, RestIs
      <4>2. D = Rest(D) \cup {Pick(D)}
        BY <4>1 DEF Rest
      <4> QED BY <1>2, <2>2, <4>1, <4>2
    <3>2. f[D] = KillTee(f[Rest(D)], Pick(D)) /\ f[Rest(D)] \in G
          /\ Done(f[Rest(D)], Rest(D))
      BY <1>7, <2>2
    <3>3. f[D] \in G /\ Done(f[D], Rest(D)) /\ Done(f[D], {Pick(D)})
      BY <1>3, <1>4, <3>1, <3>2
    <3>4. Done(f[D], D)
      BY <3>1, <3>3 DEF Done
    <3> QED BY <3>3, <3>4
  <2> HIDE DEF T
  <2>3. SUBSET M \subseteq T
    BY <1>2, <2>1, <2>2, SubsetInduction
  <2> QED BY <2>3 DEF T
<1> QED BY <1>7, <1>8 DEF M, G, Done


-----------------------------------------------------------------------------
(***************************************************************************)
(* The steps.  Each ends in Set: what is shown of an action is that the    *)
(* arrays it gives to Set are as they should be after the arrays g.        *)
(***************************************************************************)

StepOK(r, ranked) ==
  /\ HelperInv(r, {}) /\ ClosedInv(r) /\ QuietInv(r)
  /\ \A t \in Teams : g.m_aTeamState[t] = "UNFINISHABLE" =>
                        r.m_aTeamState[t] \notin {"STARTED", "FINISHED"}
  /\ \A t \in Teams \ {FLOCK} : GetSaving(g, t) /\ GetSaving(r, t) =>
                                  Members(r, t) \subseteq Members(g, t)
  /\ \A c \in ranked : r.chr[c] # "STARTED" /\ c \notin r.practised

\* The part of Follows that is about the teams.
Stays(s, r) ==
  /\ r.m_apSaveTeamResult = s.m_apSaveTeamResult
  /\ \A c \in Clients : r.m_aTeam[c] = s.m_aTeam[c] \/ r.m_aTeam[c] = FLOCK
  /\ \A t \in Teams : s.m_aTeamState[t] \notin {"STARTED", "FINISHED"} =>
                        r.m_aTeamState[t] \notin {"STARTED", "FINISHED"}

\* No result means no status that says something of the members.
LEMMA NoResultIs ==
  /\ NoResult.status = None
  /\ None \notin {"SAVING", "SAVE_SUCCESS", "SAVE_FAILED", "LOAD_SUCCESS", "LOADING",
                  "LOAD_FAILED"}
BY DEF NoResult, None

\* Where nobody joins a team the results stay right.
LEMMA StaysClosed ==
  ASSUME NEW s, NEW r, FlockInv(s), ClosedInv(s), Stays(s, r)
  PROVE  /\ ClosedInv(r)
         /\ \A t \in Teams \ {FLOCK} : Members(r, t) \subseteq Members(s, t)
<1>1. \A t \in Teams \ {FLOCK} : Members(r, t) \subseteq Members(s, t)
  BY DEF Stays, Members
<1>2. ClosedInv(r)
  <2> SUFFICES ASSUME NEW t \in Teams
               PROVE  /\ r.m_apSaveTeamResult[t].status
                           \in {"SAVING", "SAVE_SUCCESS", "SAVE_FAILED", "LOAD_SUCCESS"} =>
                           Members(r, t) \subseteq DOMAIN r.m_apSaveTeamResult[t].team.tees
                      /\ r.m_apSaveTeamResult[t].status = "LOADING" =>
                           Members(r, t) \subseteq r.m_apSaveTeamResult[t].members
    BY DEF ClosedInv
  <2>1. CASE t = FLOCK
    BY <2>1, NoResultIs DEF Stays, FlockInv
  <2>2. CASE t # FLOCK
    <3>1. /\ s.m_apSaveTeamResult[t].status
               \in {"SAVING", "SAVE_SUCCESS", "SAVE_FAILED", "LOAD_SUCCESS"} =>
               Members(s, t) \subseteq DOMAIN s.m_apSaveTeamResult[t].team.tees
          /\ s.m_apSaveTeamResult[t].status = "LOADING" =>
               Members(s, t) \subseteq s.m_apSaveTeamResult[t].members
      BY DEF ClosedInv
    <3>2. Members(r, t) \subseteq Members(s, t)
      BY <1>1, <2>2
    <3>3. r.m_apSaveTeamResult = s.m_apSaveTeamResult
      BY DEF Stays
    <3> QED BY <3>1, <3>2, <3>3
  <2> QED BY <2>1, <2>2
<1> QED BY <1>1, <1>2

\* A helper alone keeps a saved team quiet.
LEMMA FollowsQuiet ==
  ASSUME NEW s, NEW r, FlockInv(s), QuietInv(s), Follows(s, r)
  PROVE  QuietInv(r)
<1> SUFFICES ASSUME NEW t \in Teams,
                    r.m_apSaveTeamResult[t].status \in {"SAVING", "SAVE_SUCCESS"},
                    NEW c \in Members(r, t)
             PROVE  r.chr[c] # "STARTED" /\ c \notin r.practised
  BY DEF QuietInv
<1>1. s.m_apSaveTeamResult[t].status \in {"SAVING", "SAVE_SUCCESS"} /\ t # FLOCK
  BY NoResultIs DEF Follows, FlockInv
<1>2. c \in Members(s, t) /\ c \in Clients
  BY <1>1 DEF Follows, Members
<1>3. s.chr[c] # "STARTED" /\ c \notin s.practised
  BY <1>1, <1>2 DEF QuietInv
<1> QED BY <1>2, <1>3 DEF Follows

\* A step in which nobody joins a team, and no team starts that could not.
LEMMA StaysStep ==
  ASSUME TeamsInv, NEW r, NEW ranked, HelperInv(r, {}), Stays(g, r), QuietInv(r),
         \A c \in ranked : r.chr[c] # "STARTED" /\ c \notin r.practised
  PROVE  StepOK(r, ranked)
<1>1. /\ ClosedInv(r)
      /\ \A t \in Teams \ {FLOCK} : Members(r, t) \subseteq Members(g, t)
  BY StaysClosed DEF TeamsInv, HelperInv
<1>2. \A t \in Teams : g.m_aTeamState[t] = "UNFINISHABLE" =>
                         r.m_aTeamState[t] \notin {"STARTED", "FINISHED"}
  BY DEF Stays
<1> QED BY <1>1, <1>2 DEF StepOK

\* A step that is a row of helpers.
LEMMA FollowsStep ==
  ASSUME TeamsInv, NEW r, NEW ranked, HelperInv(r, {}), Follows(g, r),
         \A c \in ranked : r.chr[c] # "STARTED" /\ c \notin r.practised
  PROVE  StepOK(r, ranked)
<1>1. QuietInv(r)
  BY FollowsQuiet DEF TeamsInv, HelperInv
<1>2. Stays(g, r)
  BY DEF Follows, Stays
<1> QED BY <1>1, <1>2, StaysStep

\* Nobody gets a rank: the last condition is void.
LEMMA FollowsUnranked ==
  ASSUME TeamsInv, NEW r, HelperInv(r, {}), Follows(g, r)
  PROVE  StepOK(r, {})
<1>1. \A c \in {} : r.chr[c] # "STARTED" /\ c \notin r.practised
  OBVIOUS
<1> QED BY <1>1, FollowsStep

\* One character changes: it plays on, or has not practised.
LEMMA ChrInv ==
  ASSUME NEW s, HelperInv(s, {}), NEW c \in Clients, NEW v \in Chrs,
         v \in Races \/ c \notin s.practised
  PROVE  LET r == [s EXCEPT !.chr[c] = v]
         IN /\ HelperInv(r, {}) /\ SameTeams(s, r) /\ r.practised = s.practised
            /\ \A d \in Clients : r.chr[d] = IF d = c THEN v ELSE s.chr[d]
            /\ v # "STARTED" => Follows(s, r)
<1> DEFINE chr == [s.chr EXCEPT ![c] = v]
<1> PICK r : r = [s EXCEPT !.chr[c] = v]
  OBVIOUS
<1>1. s \in Arrays /\ s.chr \in [Clients -> Chrs]
  BY ArraysAre DEF HelperInv
<1>2. /\ chr \in [Clients -> Chrs]
      /\ \A d \in Clients : chr[d] = IF d = c THEN v ELSE s.chr[d]
  BY <1>1
<1>3. r = [s EXCEPT !.chr = chr]
  BY <1>1 DEF Arrays
<1> HIDE DEF chr
<1>4. r \in Arrays /\ r.chr = chr
  BY <1>1, <1>2, <1>3 DEF Arrays
<1>5. SameTeams(s, r) /\ r.practised = s.practised
  BY <1>1, <1>3 DEF Arrays, SameTeams
<1>6. CleanInv(r, {})
  <2>1. s.practised \in SUBSET Clients
    BY <1>1, ArraysAre
  <2> QED BY <1>2, <1>4, <1>5, <2>1 DEF HelperInv, CleanInv, IsPlaying, SameTeams
<1>7. HelperInv(r, {})
  BY <1>4, <1>5, <1>6, SameTeamsInv
<1>8. v # "STARTED" => Follows(s, r)
  BY <1>2, <1>4, <1>5 DEF Follows, SameTeams
<1> QED BY <1>2, <1>4, <1>5, <1>7, <1>8

\* Only marks, votes and swaps change.
LEMMA MarksInv ==
  ASSUME NEW s, HelperInv(s, {}), NEW r \in Arrays, SameTeams(s, r),
         r.chr = s.chr, r.practised = s.practised
  PROVE  HelperInv(r, {}) /\ Follows(s, r)
<1>1. CleanInv(r, {})
  BY DEF HelperInv, CleanInv, IsPlaying, SameTeams
<1>2. HelperInv(r, {})
  BY <1>1, SameTeamsInv
<1> QED BY <1>2 DEF Follows, SameTeams

\* What a step must do: TeamsInv holds after it, nobody gets an undeserved rank,
\* and the two action properties hold of it.
Keeps ==
  /\ TeamsInv'
  /\ RankIsClean'
  /\ \A t \in Teams : g.m_aTeamState[t] = "UNFINISHABLE" =>
                        g'.m_aTeamState[t] \in {"UNFINISHABLE", "OPEN", "EMPTY"}
  /\ \A t \in Teams \ {FLOCK} : GetSaving(g, t) /\ GetSaving(g', t) =>
                                  Members(g', t) \subseteq Members(g, t)

\* Set keeps what was shown of the arrays: who practises from now on plays in a
\* team that practises, which is not a saved one.
LEMMA SetKeeps ==
  ASSUME TeamsInv, NEW r, NEW ranked, StepOK(r, ranked), Set(r, ranked),
         saves' \subseteq SavedTeams
  PROVE  Keeps
<1> DEFINE racing == {c \in Clients : r.chr[c] = "STARTED" /\ r.m_aTeam[c] \in r.m_aPractice}
<1> PICK h : h = g'
  OBVIOUS
<1>1. h = [r EXCEPT !.practised = r.practised \cup racing] /\ r \in Arrays
  BY DEF Set, StepOK, HelperInv
<1>2. racing \in SUBSET Clients /\ r.practised \in SUBSET Clients
  BY <1>1, ArraysAre
<1> HIDE DEF racing
<1>3. h \in Arrays /\ h.practised = r.practised \cup racing
  BY <1>1, <1>2 DEF Arrays
<1>4. SameTeams(r, h) /\ h.chr = r.chr
  BY <1>1, <1>3 DEF Arrays, SameTeams
<1>5. CleanInv(h, {})
  BY <1>3, <1>4 DEF StepOK, HelperInv, CleanInv, IsPlaying, SameTeams, racing, Races
<1>6. HelperInv(h, {})
  BY <1>3, <1>4, <1>5, SameTeamsInv DEF StepOK
<1>7. \A t \in Teams : Members(h, t) = Members(r, t)
  BY <1>4 DEF Members, SameTeams
<1>8. ClosedInv(h)
  BY <1>4, <1>7 DEF StepOK, ClosedInv, SameTeams
<1>9. QuietInv(h)
  BY <1>3, <1>4, <1>7 DEF StepOK, QuietInv, SameTeams, racing
<1>10. TeamsInv'
  BY <1>6, <1>8, <1>9 DEF TeamsInv
<1>11. RankIsClean'
  <2>1. rank' = ranked /\ \A c \in ranked : r.chr[c] # "STARTED" /\ c \notin r.practised
    BY DEF Set, StepOK
  <2>2. rank' \cap h.practised = {}
    BY <1>3, <2>1 DEF racing
  <2> QED BY <2>2 DEF RankIsClean
<1>12. \A t \in Teams : g.m_aTeamState[t] = "UNFINISHABLE" =>
                          h.m_aTeamState[t] \in {"UNFINISHABLE", "OPEN", "EMPTY"}
  <2>1. \A t \in Teams : h.m_aTeamState[t] \in States
    BY <1>3, ArraysAre
  <2> QED BY <1>4, <2>1 DEF StepOK, SameTeams, States
<1>13. \A t \in Teams \ {FLOCK} : GetSaving(g, t) /\ GetSaving(h, t) =>
                                    Members(h, t) \subseteq Members(g, t)
  BY <1>4, <1>7 DEF StepOK, SameTeams, GetSaving
<1> QED BY <1>10, <1>11, <1>12, <1>13 DEF Keeps

\* A step with no saved team changed.
LEMMA SameSavesKeeps ==
  ASSUME TeamsInv, NEW r, NEW ranked, StepOK(r, ranked), Set(r, ranked), UNCHANGED saves
  PROVE  Keeps
<1>1. saves' \subseteq SavedTeams
  BY DEF TeamsInv
<1> QED BY <1>1, SetKeeps

\* The lock, the invitations and the practice mode of a team with a member change.
LEMMA FlagsInv ==
  ASSUME NEW s, HelperInv(s, {}), NEW c \in Clients, NEW r \in Arrays,
         r.m_aTeam = s.m_aTeam, r.m_aTeamState = s.m_aTeamState, r.killTick = s.killTick,
         r.m_apSaveTeamResult = s.m_apSaveTeamResult,
         r.chr = s.chr, r.practised = s.practised,
         s.m_aPractice \subseteq r.m_aPractice,
         r.m_aPractice \subseteq s.m_aPractice \cup ({s.m_aTeam[c]} \ {FLOCK}),
         r.m_aTeamLocked \subseteq s.m_aTeamLocked \cup {s.m_aTeam[c]},
         \A t \in Teams : t # s.m_aTeam[c] => r.m_aInvited[t] = s.m_aInvited[t]
  PROVE  HelperInv(r, {}) /\ Follows(s, r)
<1> DEFINE t == s.m_aTeam[c]
<1>1. c \in Members(s, t) /\ \A u \in Teams : Members(r, u) = Members(s, u)
  BY DEF Members
<1>2. FlockInv(r)
  BY DEF HelperInv, FlockInv
<1>3. FreshInv(r)
  <2> SUFFICES ASSUME NEW u \in Teams \ {FLOCK}
               PROVE  /\ r.m_aTeamState[u] = "EMPTY" <=> Members(r, u) = {}
                      /\ r.m_aTeamState[u] = "EMPTY" =>
                           /\ u \notin r.m_aTeamLocked \cup r.m_aPractice \cup r.killTick
                           /\ r.m_aInvited[u] = {}
    BY DEF FreshInv
  <2>1. /\ s.m_aTeamState[u] = "EMPTY" <=> Members(s, u) = {}
        /\ s.m_aTeamState[u] = "EMPTY" =>
             /\ u \notin s.m_aTeamLocked \cup s.m_aPractice \cup s.killTick
             /\ s.m_aInvited[u] = {}
    BY DEF HelperInv, FreshInv
  <2>2. CASE u = t
    BY <1>1, <2>1, <2>2
  <2>3. CASE u # t
    BY <1>1, <2>1, <2>3
  <2> QED BY <2>2, <2>3
<1>4. SavingInv(r)
  BY DEF HelperInv, SavingInv, GetSaving
<1>5. CleanInv(r, {})
  BY DEF HelperInv, CleanInv, IsPlaying
<1>6. Follows(s, r)
  BY DEF Follows
<1> QED BY <1>2, <1>3, <1>4, <1>5, <1>6 DEF HelperInv

LEMMA LockKeeps ==
  ASSUME TeamsInv, NEW c \in Clients, Lock(c)
  PROVE  Keeps
<1> DEFINE r == [g EXCEPT !.m_aTeamLocked = @ \cup {g.m_aTeam[c]}]
<1>1. HelperInv(g, {}) /\ g \in Arrays /\ g.m_aTeam[c] \in Teams
  BY ArraysAre DEF TeamsInv, HelperInv
<1>2. g.m_aTeamLocked \cup {g.m_aTeam[c]} \in SUBSET Teams
  BY <1>1, ArraysAre
<1>3. r \in Arrays
  BY <1>1, <1>2 DEF Arrays
<1>4. HelperInv(r, {}) /\ Follows(g, r)
  <2>1. /\ r.m_aTeam = g.m_aTeam /\ r.m_aTeamState = g.m_aTeamState
        /\ r.killTick = g.killTick /\ r.m_apSaveTeamResult = g.m_apSaveTeamResult
        /\ r.chr = g.chr /\ r.practised = g.practised /\ r.m_aPractice = g.m_aPractice
        /\ r.m_aInvited = g.m_aInvited
        /\ r.m_aTeamLocked = g.m_aTeamLocked \cup {g.m_aTeam[c]}
    BY <1>1 DEF Arrays
  <2> HIDE DEF r
  <2> QED BY <1>1, <1>3, <2>1, FlagsInv
<1>5. Set(r, {}) /\ UNCHANGED saves
  BY DEF Lock
<1> HIDE DEF r
<1> QED BY <1>4, <1>5, FollowsUnranked, SameSavesKeeps

LEMMA UnlockKeeps ==
  ASSUME TeamsInv, NEW c \in Clients, Unlock(c)
  PROVE  Keeps
<1> DEFINE r == [g EXCEPT !.m_aTeamLocked = @ \ {g.m_aTeam[c]}]
<1>1. HelperInv(g, {}) /\ g \in Arrays
  BY DEF TeamsInv, HelperInv
<1>2. g.m_aTeamLocked \ {g.m_aTeam[c]} \in SUBSET Teams
  BY <1>1, ArraysAre
<1>3. r \in Arrays
  BY <1>1, <1>2 DEF Arrays
<1>4. HelperInv(r, {}) /\ Follows(g, r)
  <2>1. /\ r.m_aTeam = g.m_aTeam /\ r.m_aTeamState = g.m_aTeamState
        /\ r.killTick = g.killTick /\ r.m_apSaveTeamResult = g.m_apSaveTeamResult
        /\ r.chr = g.chr /\ r.practised = g.practised /\ r.m_aPractice = g.m_aPractice
        /\ r.m_aInvited = g.m_aInvited
        /\ r.m_aTeamLocked = g.m_aTeamLocked \ {g.m_aTeam[c]}
    BY <1>1 DEF Arrays
  <2> HIDE DEF r
  <2> QED BY <1>1, <1>3, <2>1, FlagsInv
<1>5. Set(r, {}) /\ UNCHANGED saves
  BY DEF Unlock
<1> HIDE DEF r
<1> QED BY <1>4, <1>5, FollowsUnranked, SameSavesKeeps

LEMMA InviteKeeps ==
  ASSUME TeamsInv, NEW c \in Clients, NEW d \in Clients, Invite(c, d)
  PROVE  Keeps
<1> DEFINE t == g.m_aTeam[c]
           invited == [g.m_aInvited EXCEPT ![t] = @ \cup {d}]
           r == [g EXCEPT !.m_aInvited = invited]
<1>1. HelperInv(g, {}) /\ g \in Arrays /\ t \in Teams
  BY ArraysAre DEF TeamsInv, HelperInv
<1>2. /\ invited \in [Teams -> SUBSET Clients]
      /\ \A u \in Teams : u # t => invited[u] = g.m_aInvited[u]
  BY <1>1, ArraysAre
<1>3. Set(r, {}) /\ UNCHANGED saves
  BY <1>1 DEF Invite, Arrays
<1> HIDE DEF invited
<1>4. r \in Arrays
  BY <1>1, <1>2 DEF Arrays
<1>5. HelperInv(r, {}) /\ Follows(g, r)
  <2>1. /\ r.m_aTeam = g.m_aTeam /\ r.m_aTeamState = g.m_aTeamState
        /\ r.killTick = g.killTick /\ r.m_apSaveTeamResult = g.m_apSaveTeamResult
        /\ r.chr = g.chr /\ r.practised = g.practised /\ r.m_aPractice = g.m_aPractice
        /\ r.m_aInvited = invited /\ r.m_aTeamLocked = g.m_aTeamLocked
    BY <1>1 DEF Arrays
  <2> HIDE DEF r
  <2> QED BY <1>1, <1>2, <1>4, <2>1, FlagsInv
<1> HIDE DEF r
<1> QED BY <1>3, <1>5, FollowsUnranked, SameSavesKeeps

LEMMA PracticeKeeps ==
  ASSUME TeamsInv, NEW c \in Clients, NEW vote \in BOOLEAN, Practice(c, vote)
  PROVE  Keeps
<1> DEFINE t == g.m_aTeam[c]
<1> PICK votes : votes = IF vote THEN g.m_VotedForPractice \cup {c}
                                 ELSE g.m_VotedForPractice \ {c}
  OBVIOUS
<1> PICK passed : passed = (Cardinality(votes \cap Members(g, t))
                              >= Cardinality(Members(g, t)) \div 2 + 1)
  OBVIOUS
<1> PICK practice : practice = IF passed THEN g.m_aPractice \cup {t} ELSE g.m_aPractice
  OBVIOUS
<1> PICK r : r = [g EXCEPT !.m_VotedForPractice = votes, !.m_aPractice = practice]
  OBVIOUS
<1>1. HelperInv(g, {}) /\ g \in Arrays /\ t \in Teams /\ t # FLOCK
  BY ArraysAre DEF TeamsInv, HelperInv, Practice
<1>2. votes \in SUBSET Clients /\ practice \in SUBSET Teams
  BY <1>1, ArraysAre
<1>3. Set(r, {}) /\ UNCHANGED saves
  BY DEF Practice
<1>4. r \in Arrays
  BY <1>1, <1>2 DEF Arrays
<1>5. HelperInv(r, {}) /\ Follows(g, r)
  <2>1. /\ r.m_aTeam = g.m_aTeam /\ r.m_aTeamState = g.m_aTeamState
        /\ r.killTick = g.killTick /\ r.m_apSaveTeamResult = g.m_apSaveTeamResult
        /\ r.chr = g.chr /\ r.practised = g.practised /\ r.m_aPractice = practice
        /\ r.m_aInvited = g.m_aInvited /\ r.m_aTeamLocked = g.m_aTeamLocked
    BY <1>1 DEF Arrays
  <2>2. /\ g.m_aPractice \subseteq practice
        /\ practice \subseteq g.m_aPractice \cup ({t} \ {FLOCK})
    BY <1>1
  <2> QED BY <1>1, <1>4, <2>1, <2>2, FlagsInv
<1> QED BY <1>3, <1>5, FollowsUnranked, SameSavesKeeps

LEMMA RequestTeamSwapKeeps ==
  ASSUME TeamsInv, NEW c \in Clients, NEW d \in Clients, RequestTeamSwap(c, d)
  PROVE  Keeps
<1> DEFINE swaps == [g.m_SwapTargetsClientID EXCEPT ![c] = d]
           r == [g EXCEPT !.m_SwapTargetsClientID = swaps]
<1>1. HelperInv(g, {}) /\ g \in Arrays
  BY DEF TeamsInv, HelperInv
<1>2. swaps \in [Clients -> Clients \cup {None}]
  BY <1>1, ArraysAre
<1>3. Set(r, {}) /\ UNCHANGED saves
  BY <1>1 DEF RequestTeamSwap, Arrays
<1> HIDE DEF swaps
<1>4. r \in Arrays
  BY <1>1, <1>2 DEF Arrays
<1>5. SameTeams(g, r) /\ r.chr = g.chr /\ r.practised = g.practised
  BY <1>1 DEF Arrays, SameTeams
<1> HIDE DEF r
<1>6. HelperInv(r, {}) /\ Follows(g, r)
  BY <1>1, <1>4, <1>5, MarksInv
<1> QED BY <1>3, <1>6, FollowsUnranked, SameSavesKeeps

\* A player comes, or comes back from the spectators: he has no character yet.
LEMMA ArrivesKeeps ==
  ASSUME TeamsInv, NEW c \in Clients, Connect(c) \/ Play(c)
  PROVE  Keeps
<1> DEFINE r == [g EXCEPT !.chr[c] = "dead"]
<1>1. HelperInv(g, {}) /\ "dead" \in Chrs /\ g.chr[c] \in {"out", "spec"}
  BY DEF TeamsInv, Connect, Play, Chrs
<1>2. c \notin g.practised
  BY <1>1 DEF HelperInv, CleanInv, IsPlaying, Races
<1>3. HelperInv(r, {}) /\ Follows(g, r)
  BY <1>1, <1>2, ChrInv
<1>4. Set(r, {}) /\ UNCHANGED saves
  BY DEF Connect, Play
<1> HIDE DEF r
<1> QED BY <1>3, <1>4, FollowsUnranked, SameSavesKeeps

LEMMA KillKeeps ==
  ASSUME TeamsInv, NEW c \in Clients, Kill(c)
  PROVE  Keeps
<1> DEFINE r == Die(g, c, FALSE)
           ranked == DieRanks(g, c, FALSE)
<1>1. /\ HelperInv(r, {}) /\ Follows(g, r)
      /\ \A d \in ranked : r.chr[d] # "STARTED" /\ d \notin r.practised
  BY DieInv DEF TeamsInv
<1>2. Set(r, ranked) /\ UNCHANGED saves
  BY DEF Kill
<1> HIDE DEF r, ranked
<1>3. StepOK(r, ranked)
  BY <1>1, FollowsStep
<1> QED BY <1>2, <1>3, SameSavesKeeps

\* A character that has not practised is removed.
LEMMA DisconnectedInv ==
  ASSUME NEW s, HelperInv(s, {}), NEW c \in Clients, c \notin s.practised
  PROVE  LET r == [s EXCEPT !.chr[c] = "out", !.m_VotedForPractice = @ \ {c},
                            !.m_SwapTargetsClientID[c] = None]
         IN /\ HelperInv(r, {}) /\ Follows(s, r)
            /\ \A d \in Clients : r.chr[d] = "STARTED" => s.chr[d] = "STARTED"
<1> DEFINE r == [s EXCEPT !.chr[c] = "out", !.m_VotedForPractice = @ \ {c},
                          !.m_SwapTargetsClientID[c] = None]
           swaps == [s.m_SwapTargetsClientID EXCEPT ![c] = None]
           votes == s.m_VotedForPractice \ {c}
<1> PICK d : d = [s EXCEPT !.chr[c] = "out"]
  OBVIOUS
<1>1. /\ HelperInv(d, {}) /\ Follows(s, d)
  <2>1. "out" \in Chrs
    BY DEF Chrs
  <2>2. LET e == [s EXCEPT !.chr[c] = "out"] IN HelperInv(e, {}) /\ Follows(s, e)
    BY <2>1, ChrInv
  <2> QED BY <2>2
<1>2. s \in Arrays /\ d \in Arrays
  BY <1>1 DEF HelperInv
<1>3. /\ d.m_SwapTargetsClientID = s.m_SwapTargetsClientID
      /\ d.m_VotedForPractice = s.m_VotedForPractice
  BY <1>2 DEF Arrays
<1>4. swaps \in [Clients -> Clients \cup {None}] /\ votes \in SUBSET Clients
  BY <1>2, ArraysAre
<1>5. r = [d EXCEPT !.m_VotedForPractice = votes, !.m_SwapTargetsClientID = swaps]
  BY <1>2, <1>3 DEF Arrays
<1> HIDE DEF swaps, votes, r
<1>6. r \in Arrays
  BY <1>2, <1>4, <1>5 DEF Arrays
<1>7. SameTeams(d, r) /\ r.chr = d.chr /\ r.practised = d.practised
  BY <1>2, <1>5 DEF Arrays, SameTeams
<1>8. HelperInv(r, {}) /\ Follows(d, r)
  BY <1>1, <1>6, <1>7, MarksInv
<1>9. Follows(s, r)
  BY <1>1, <1>8, FollowsOn
<1> QED BY <1>8, <1>9 DEF Follows, r

\* A tee that has not practised goes to the flock.
LEMMA LeaveInv ==
  ASSUME NEW s, HelperInv(s, {}), NEW c \in Clients, c \notin s.practised
  PROVE  LET r == SetForceCharacterTeam(s, c, FLOCK)
         IN HelperInv(r, {}) /\ Follows(s, r) /\ r.chr = s.chr /\ r.practised = s.practised
<1>1. FLOCK \in Teams
  BY TeamsAssumption DEF Teams, FLOCK
<1> QED BY <1>1, SetForceInv

LEMMA DisconnectKeeps ==
  ASSUME TeamsInv, NEW c \in Clients, Disconnect(c)
  PROVE  Keeps
<1> PICK s : s = IF IsPlaying(g, c) THEN Die(g, c, TRUE) ELSE g
  OBVIOUS
<1> PICK s1 : s1 = SetForceCharacterTeam(s, c, FLOCK)
  OBVIOUS
<1> PICK r : r = [s1 EXCEPT !.chr[c] = "out", !.m_VotedForPractice = @ \ {c},
                            !.m_SwapTargetsClientID[c] = None]
  OBVIOUS
<1> PICK ranked : ranked = IF IsPlaying(g, c) THEN DieRanks(g, c, TRUE) ELSE {}
  OBVIOUS
<1>1. /\ HelperInv(s, {}) /\ Follows(g, s) /\ c \notin s.practised
      /\ \A d \in ranked : s.chr[d] # "STARTED" /\ d \notin s.practised
  <2>1. CASE IsPlaying(g, c)
    BY <2>1, DieInv DEF TeamsInv
  <2>2. CASE ~IsPlaying(g, c)
    BY <2>2 DEF TeamsInv, HelperInv, CleanInv, Follows
  <2> QED BY <2>1, <2>2
<1>3. /\ HelperInv(s1, {}) /\ Follows(s, s1) /\ s1.chr = s.chr /\ s1.practised = s.practised
  BY <1>1, LeaveInv
<1>4. HelperInv(r, {}) /\ Follows(s1, r)
  BY <1>1, <1>3, DisconnectedInv
<1>5. Follows(g, r)
  BY <1>1, <1>3, <1>4, FollowsOn
<1>6. ranked \subseteq Clients
  BY DEF DieRanks, Ranks, Playing, Members
<1>7. \A d \in ranked : r.chr[d] # "STARTED" /\ d \notin r.practised
  BY <1>1, <1>3, <1>4, <1>6 DEF Follows
<1>8. StepOK(r, ranked)
  BY <1>4, <1>5, <1>7, FollowsStep
<1>9. Set(r, ranked) /\ UNCHANGED saves
  BY DEF Disconnect
<1> QED BY <1>8, <1>9, SameSavesKeeps

\* A playing tee leaves for the spectators: it dies in the flock, after the team it
\* left may have finished without it.
LEMMA SpectateInv ==
  ASSUME NEW s, HelperInv(s, {}), NEW c \in Clients, NEW t \in Teams
  PROVE  LET left == SetForceCharacterTeam(s, c, FLOCK)
             r == Dead(CheckTeamFinished(left, t), {c})
         IN /\ HelperInv(r, {}) /\ Follows(s, r) /\ c \notin r.practised
            /\ \A d \in Ranks(left, t) : r.chr[d] # "STARTED" /\ d \notin r.practised
<1> PICK X : X = {c}
  OBVIOUS
<1> PICK left : left = SetForceCharacterTeam(s, c, FLOCK)
  OBVIOUS
<1> PICK f : f = CheckTeamFinished(left, t)
  OBVIOUS
<1> PICK r : r = Dead(f, X)
  OBVIOUS
<1>1. FLOCK \in Teams /\ X \in SUBSET Clients
  BY TeamsAssumption DEF Teams, FLOCK
<1>2. HelperInv(s, X) /\ c \notin s.practised \ X
  BY DEF HelperInv, CleanInv
<1>3. HelperInv(left, X) /\ Follows(s, left)
  BY <1>1, <1>2, SetForceInv
<1>4. /\ HelperInv(f, X) /\ Follows(left, f)
      /\ \A d \in Ranks(left, t) : f.chr[d] # "STARTED" /\ d \notin f.practised \ X
  BY <1>3, CheckFinishedInv
<1>5. /\ HelperInv(r, X \ X) /\ Follows(f, r)
      /\ \A d \in X : r.chr[d] = "dead" /\ d \notin r.practised
  BY <1>1, <1>4, DeadInv
<1>6. HelperInv(r, {})
  <2>1. X \ X = {}
    OBVIOUS
  <2> QED BY <1>5, <2>1
<1>7. Follows(s, r)
  <2>1. Follows(left, r)
    BY <1>4, <1>5, FollowsOn
  <2> QED BY <1>3, <2>1, FollowsOn
<1>8. \A d \in Ranks(left, t) : r.chr[d] # "STARTED" /\ d \notin r.practised
  <2>1. Ranks(left, t) \subseteq Clients
    BY DEF Ranks, Playing, Members
  <2> QED BY <1>4, <1>5, <2>1 DEF Follows
<1> QED BY <1>5, <1>6, <1>7, <1>8

LEMMA SpectateKeeps ==
  ASSUME TeamsInv, NEW c \in Clients, Spectate(c)
  PROVE  Keeps
<1> PICK t : t = g.m_aTeam[c]
  OBVIOUS
<1> PICK left : left = SetForceCharacterTeam(g, c, FLOCK)
  OBVIOUS
<1> PICK s : s = IF IsPlaying(g, c) THEN Dead(CheckTeamFinished(left, t), {c}) ELSE g
  OBVIOUS
<1> PICK r : r = [s EXCEPT !.chr[c] = "spec"]
  OBVIOUS
<1> PICK ranked : ranked = IF IsPlaying(g, c) THEN Ranks(left, t) ELSE {}
  OBVIOUS
<1>1. HelperInv(g, {}) /\ t \in Teams
  BY ArraysAre DEF TeamsInv, HelperInv
<1>2. /\ HelperInv(s, {}) /\ Follows(g, s) /\ c \notin s.practised
      /\ \A d \in ranked : s.chr[d] # "STARTED" /\ d \notin s.practised
  <2>1. CASE IsPlaying(g, c)
    BY <1>1, <2>1, SpectateInv
  <2>2. CASE ~IsPlaying(g, c)
    BY <1>1, <2>2 DEF HelperInv, CleanInv, Follows
  <2> QED BY <2>1, <2>2
<1>3. HelperInv(r, {}) /\ Follows(s, r)
  <2>1. "spec" \in Chrs
    BY DEF Chrs
  <2>2. LET e == [s EXCEPT !.chr[c] = "spec"] IN HelperInv(e, {}) /\ Follows(s, e)
    BY <1>2, <2>1, ChrInv
  <2> QED BY <2>2
<1>4. Follows(g, r)
  BY <1>2, <1>3, FollowsOn
<1>5. ranked \subseteq Clients
  BY DEF Ranks, Playing, Members
<1>6. \A d \in ranked : r.chr[d] # "STARTED" /\ d \notin r.practised
  BY <1>2, <1>3, <1>5 DEF Follows
<1>7. StepOK(r, ranked)
  BY <1>3, <1>4, <1>6, FollowsStep
<1>8. Set(r, ranked) /\ UNCHANGED saves
  BY DEF Spectate
<1> QED BY <1>7, <1>8, SameSavesKeeps

\* The team that is killed does not race after it.
LEMMA TickKeeps ==
  ASSUME TeamsInv, NEW t \in Teams, Tick(t)
  PROVE  Keeps
<1>1. HelperInv(g, {}) /\ g \in Arrays
  BY DEF TeamsInv, HelperInv
<1>2. CASE t \in g.m_aPractice
  <2> DEFINE r == [g EXCEPT !.killTick = @ \ {t}]
  <2>1. g.killTick \ {t} \in SUBSET Teams
    BY <1>1, ArraysAre
  <2>2. r \in Arrays
    BY <1>1, <2>1 DEF Arrays
  <2>3. /\ r.m_aTeam = g.m_aTeam /\ r.m_aTeamState = g.m_aTeamState
        /\ r.killTick = g.killTick \ {t} /\ r.m_apSaveTeamResult = g.m_apSaveTeamResult
        /\ r.chr = g.chr /\ r.practised = g.practised /\ r.m_aPractice = g.m_aPractice
        /\ r.m_aInvited = g.m_aInvited /\ r.m_aTeamLocked = g.m_aTeamLocked
    BY <1>1 DEF Arrays
  <2>4. Set(r, {}) /\ UNCHANGED saves
    BY <1>2 DEF Tick
  <2> HIDE DEF r
  <2>5. FlockInv(r) /\ SavingInv(r) /\ CleanInv(r, {})
    BY <1>1, <2>3 DEF HelperInv, FlockInv, SavingInv, CleanInv, GetSaving, IsPlaying
  <2>6. FreshInv(r)
    BY <1>1, <2>3 DEF HelperInv, FreshInv, Members
  <2>7. Follows(g, r)
    BY <2>3 DEF Follows
  <2> QED BY <2>2, <2>4, <2>5, <2>6, <2>7, FollowsUnranked, SameSavesKeeps DEF HelperInv
<1>3. CASE t \notin g.m_aPractice
  <2> DEFINE r == KillTeam(g, t)
  <2>1. HelperInv(r, {}) /\ Follows(g, r)
    BY <1>1, KillTeamInv
  <2>2. Set(r, {}) /\ UNCHANGED saves
    BY <1>3 DEF Tick
  <2> HIDE DEF r
  <2> QED BY <2>1, <2>2, FollowsUnranked, SameSavesKeeps
<1> QED BY <1>2, <1>3

\* Who follows and who stays, in a row.
LEMMA FollowsThenStays ==
  ASSUME NEW a, NEW b, NEW d, Follows(a, b), Stays(b, d)
  PROVE  Stays(a, d)
BY DEF Follows, Stays

\* The race a character spawns with is one that the team already runs.
LEMMA SpawnInv ==
  ASSUME NEW s, HelperInv(s, {}), QuietInv(s), NEW c \in Clients, c \notin s.practised,
         NEW race \in SpawnRace(s, c)
  PROVE  LET r == [s EXCEPT !.chr[c] = race]
         IN /\ HelperInv(r, {}) /\ QuietInv(r) /\ Stays(s, r) /\ r.practised = s.practised
            /\ \A d \in Clients : d # c => r.chr[d] = s.chr[d]
<1> PICK r : r = [s EXCEPT !.chr[c] = race]
  OBVIOUS
<1> DEFINE t == s.m_aTeam[c]
<1>1. \/ race = "NONE"
      \/ \E d \in Members(s, t) : race = s.chr[d] /\ race \in Races
  BY DEF SpawnRace, Playing, IsPlaying
<1>2. race \in Races /\ race \in Chrs
  BY <1>1 DEF Races, Chrs
<1>3. /\ HelperInv(r, {}) /\ SameTeams(s, r) /\ r.practised = s.practised
      /\ \A d \in Clients : r.chr[d] = IF d = c THEN race ELSE s.chr[d]
  BY <1>2, ChrInv
<1>4. Stays(s, r)
  BY <1>3 DEF Stays, SameTeams
<1>5. QuietInv(r)
  <2> SUFFICES ASSUME NEW u \in Teams,
                      s.m_apSaveTeamResult[u].status \in {"SAVING", "SAVE_SUCCESS"},
                      NEW d \in Members(s, u)
               PROVE  r.chr[d] # "STARTED" /\ d \notin s.practised
    BY <1>3 DEF QuietInv, SameTeams, Members
  <2>1. \A e \in Members(s, u) : s.chr[e] # "STARTED" /\ e \notin s.practised
    BY DEF QuietInv
  <2>2. CASE d # c
    BY <1>3, <2>1, <2>2 DEF Members
  <2>3. CASE d = c
    <3>1. u = t /\ c \in Clients
      BY <2>3 DEF Members
    <3>2. race # "STARTED"
      BY <1>1, <2>1, <3>1
    <3> QED BY <1>3, <2>1, <2>3, <3>2
  <2> QED BY <2>2, <2>3
<1> QED BY <1>3, <1>4, <1>5

LEMMA RespawnKeeps ==
  ASSUME TeamsInv, NEW c \in Clients, Respawn(c)
  PROVE  Keeps
<1> DEFINE t == g.m_aTeam[c]
           stays == GetSaving(g, t) \/ t \in g.m_aTeamLocked
           s == SetForceCharacterTeam(g, c, FLOCK)
           s1 == IF stays THEN g ELSE CheckTeamFinished(s, t)
           ranked == IF stays THEN {} ELSE Ranks(s, t)
<1>1. HelperInv(g, {}) /\ t \in Teams
  BY ArraysAre DEF TeamsInv, HelperInv
<1>2. c \notin g.practised /\ g.chr[c] = "dead"
  BY <1>1 DEF HelperInv, CleanInv, IsPlaying, Races, Respawn
<1>3. /\ HelperInv(s1, {}) /\ Follows(g, s1)
      /\ \A d \in ranked : s1.chr[d] # "STARTED" /\ d \notin s1.practised /\ d # c
  <2>1. CASE stays
    <3>1. s1 = g /\ ranked = {}
      BY <2>1
    <3> HIDE DEF s1, ranked
    <3> QED BY <1>1, <3>1 DEF Follows
  <2>2. CASE ~stays
    <3>1. s1 = CheckTeamFinished(s, t) /\ ranked = Ranks(s, t)
      BY <2>2
    <3>2. HelperInv(s, {}) /\ Follows(g, s) /\ s.chr = g.chr
      BY <1>1, <1>2, LeaveInv
    <3>3. /\ HelperInv(s1, {}) /\ Follows(s, s1)
          /\ \A d \in Ranks(s, t) : s1.chr[d] # "STARTED" /\ d \notin s1.practised
          /\ Ranks(s, t) \subseteq Playing(s, t)
      <4> HIDE DEF s, s1, t
      <4> QED BY <1>1, <3>1, <3>2, CheckFinishedClean
    <3>4. c \notin Playing(s, t)
      BY <1>2, <3>2 DEF Playing, IsPlaying, Races
    <3> HIDE DEF s, s1, ranked
    <3>5. Follows(g, s1)
      BY <3>2, <3>3, FollowsOn
    <3> QED BY <3>1, <3>3, <3>4, <3>5
  <2> QED BY <2>1, <2>2
<1>4. c \notin s1.practised /\ QuietInv(s1)
  <2> HIDE DEF s1
  <2>1. QuietInv(s1)
    BY <1>1, <1>3, FollowsQuiet DEF TeamsInv, HelperInv
  <2> QED BY <1>2, <1>3, <2>1 DEF Follows
<1>5. PICK race \in SpawnRace(s1, c) : Set([s1 EXCEPT !.chr[c] = race], ranked)
  BY DEF Respawn
<1>6. ranked \subseteq Clients /\ UNCHANGED saves
  BY DEF Ranks, Playing, Members, Respawn
<1> HIDE DEF s1, ranked
<1> PICK r : r = [s1 EXCEPT !.chr[c] = race]
  OBVIOUS
<1>7. /\ HelperInv(r, {}) /\ QuietInv(r) /\ Stays(s1, r) /\ r.practised = s1.practised
      /\ \A d \in Clients : d # c => r.chr[d] = s1.chr[d]
  BY <1>3, <1>4, SpawnInv
<1>8. Stays(g, r)
  BY <1>3, <1>7, FollowsThenStays
<1>9. \A d \in ranked : r.chr[d] # "STARTED" /\ d \notin r.practised
  BY <1>3, <1>6, <1>7
<1>10. StepOK(r, ranked)
  BY <1>7, <1>8, <1>9, StaysStep
<1> QED BY <1>5, <1>6, <1>10, SameSavesKeeps

\* A finish tile: in the flock each finishes for himself.
LEMMA FinishKeeps ==
  ASSUME TeamsInv, NEW c \in Clients, Finish(c)
  PROVE  Keeps
<1> DEFINE t == g.m_aTeam[c]
<1>1. HelperInv(g, {}) /\ g \in Arrays /\ t \in Teams /\ UNCHANGED saves
  BY ArraysAre DEF TeamsInv, HelperInv, Finish
<1>2. CASE t = FLOCK
  <2> PICK r : r = [g EXCEPT !.chr[c] = "FINISHED"]
    OBVIOUS
  <2> PICK ranked : ranked = {c}
    OBVIOUS
  <2>1. c \notin g.practised
    BY <1>1, <1>2 DEF HelperInv, CleanInv, FlockInv
  <2>2. "FINISHED" \in Chrs
    BY DEF Chrs, Races
  <2>3. /\ HelperInv(r, {}) /\ Follows(g, r) /\ r.practised = g.practised
        /\ \A d \in Clients : r.chr[d] = IF d = c THEN "FINISHED" ELSE g.chr[d]
    BY <1>1, <2>1, <2>2, ChrInv
  <2>4. \A d \in ranked : r.chr[d] # "STARTED" /\ d \notin r.practised
    BY <2>1, <2>3
  <2>5. StepOK(r, ranked)
    BY <2>3, <2>4, FollowsStep
  <2>6. Set(r, ranked)
    BY <1>2 DEF Finish
  <2> QED BY <1>1, <2>5, <2>6, SameSavesKeeps
<1>3. CASE t # FLOCK
  <2> PICK s : s = MarkFinished(g, c)
    OBVIOUS
  <2> PICK r : r = CheckTeamFinished(s, t)
    OBVIOUS
  <2> PICK ranked : ranked = Ranks(s, t)
    OBVIOUS
  <2>1. s \in Arrays /\ SameTeams(g, s) /\ s.chr = g.chr /\ s.practised = g.practised
    <3>1. CASE c \in g.m_aTeeStarted
      <4>1. g.m_aTeeFinished \cup {c} \in SUBSET Clients
        BY <1>1, ArraysAre
      <4>2. s = [g EXCEPT !.m_aTeeFinished = @ \cup {c}]
        BY <3>1 DEF MarkFinished
      <4> QED BY <1>1, <4>1, <4>2 DEF Arrays, SameTeams
    <3>2. CASE c \notin g.m_aTeeStarted
      BY <1>1, <3>2 DEF MarkFinished, SameTeams
    <3> QED BY <3>1, <3>2
  <2>2. HelperInv(s, {}) /\ Follows(g, s)
    BY <1>1, <2>1, MarksInv
  <2>3. /\ HelperInv(r, {}) /\ Follows(s, r)
        /\ \A d \in ranked : r.chr[d] # "STARTED" /\ d \notin r.practised
    BY <1>1, <2>2, CheckFinishedClean
  <2>4. Follows(g, r)
    BY <2>2, <2>3, FollowsOn
  <2>5. StepOK(r, ranked)
    BY <2>3, <2>4, FollowsStep
  <2>6. Set(r, ranked)
    BY <1>3 DEF Finish
  <2> QED BY <1>1, <2>5, <2>6, SameSavesKeeps
<1> QED BY <1>2, <1>3

\* The mark that a tee has been at the start.
LEMMA StartedMarkInv ==
  ASSUME NEW s, HelperInv(s, {}), NEW c \in Clients
  PROVE  LET r == [s EXCEPT !.m_aTeeStarted = @ \cup {c}]
         IN HelperInv(r, {}) /\ Follows(s, r) /\ SameTeams(s, r)
            /\ r.chr = s.chr /\ r.practised = s.practised
<1> DEFINE r == [s EXCEPT !.m_aTeeStarted = @ \cup {c}]
<1>1. s \in Arrays
  BY DEF HelperInv
<1>2. s.m_aTeeStarted \cup {c} \in SUBSET Clients
  BY <1>1, ArraysAre
<1>3. r \in Arrays
  BY <1>1, <1>2 DEF Arrays
<1>4. SameTeams(s, r) /\ r.chr = s.chr /\ r.practised = s.practised
  BY <1>1 DEF Arrays, SameTeams
<1> HIDE DEF r
<1>5. HelperInv(r, {}) /\ Follows(s, r)
  BY <1>3, <1>4, MarksInv
<1> QED BY <1>4, <1>5 DEF r

\* StartTeam for a team that does not race yet, but for the mark.
TeamStarts(s, t) ==
  [WithChr(s, Playing(s, t), "STARTED") EXCEPT
     !.m_aTeamState[t] = "STARTED", !.killTick = @ \ {t}]

\* Only the members of the team race after it.
LEMMA TeamStartsInv ==
  ASSUME NEW s, HelperInv(s, {}), NEW c \in Clients, NEW t \in Teams \ {FLOCK},
         c \in Members(s, t), s.m_aTeamState[t] \in {"EMPTY", "OPEN"}
  PROVE  LET r == TeamStarts(s, t)
         IN /\ HelperInv(r, {}) /\ r.m_aTeam = s.m_aTeam /\ r.practised = s.practised
            /\ r.m_apSaveTeamResult = s.m_apSaveTeamResult
            /\ \A u \in Teams : u # t => r.m_aTeamState[u] = s.m_aTeamState[u]
            /\ \A d \in Clients : s.m_aTeam[d] # t => r.chr[d] = s.chr[d]
<1> DEFINE C == Playing(s, t)
           chr == [d \in Clients |-> IF d \in C THEN "STARTED" ELSE s.chr[d]]
           state == [s.m_aTeamState EXCEPT ![t] = "STARTED"]
           kill == s.killTick \ {t}
<1> PICK r : r = TeamStarts(s, t)
  OBVIOUS
<1>1. /\ s \in Arrays /\ s.chr \in [Clients -> Chrs] /\ s.m_aTeamState \in [Teams -> States]
      /\ kill \in SUBSET Teams /\ C \in SUBSET Clients /\ s.practised \in SUBSET Clients
  BY ArraysAre DEF HelperInv, Playing, Members
<1>2. /\ chr \in [Clients -> Chrs]
      /\ \A d \in Clients : chr[d] = IF d \in C THEN "STARTED" ELSE s.chr[d]
  BY <1>1 DEF Chrs, Races
<1>3. /\ state \in [Teams -> States]
      /\ \A u \in Teams : state[u] = IF u = t THEN "STARTED" ELSE s.m_aTeamState[u]
  BY <1>1 DEF States
<1>4. r = [s EXCEPT !.chr = chr, !.m_aTeamState = state, !.killTick = kill]
  <2>1. r = [WithChr(s, C, "STARTED") EXCEPT
               !.m_aTeamState[t] = "STARTED", !.killTick = @ \ {t}]
    BY DEF TeamStarts
  <2> HIDE DEF C
  <2> QED BY <1>1, <2>1 DEF WithChr, Arrays
<1>5. \A d \in C : s.m_aTeam[d] = t
  BY DEF Playing, Members
<1> HIDE DEF C, chr, state, kill
<1>6. r \in Arrays
  BY <1>1, <1>2, <1>3, <1>4 DEF Arrays
<1>7. /\ r.chr = chr /\ r.m_aTeamState = state /\ r.killTick = kill
      /\ r.m_aTeam = s.m_aTeam /\ r.practised = s.practised
      /\ r.m_aTeamLocked = s.m_aTeamLocked /\ r.m_aPractice = s.m_aPractice
      /\ r.m_aInvited = s.m_aInvited /\ r.m_apSaveTeamResult = s.m_apSaveTeamResult
  BY <1>1, <1>4 DEF Arrays
<1>8. FlockInv(r)
  BY <1>3, <1>7, TeamsAssumption DEF HelperInv, FlockInv, Teams, FLOCK
<1>9. FreshInv(r)
  <2> SUFFICES ASSUME NEW u \in Teams \ {FLOCK}
               PROVE  /\ r.m_aTeamState[u] = "EMPTY" <=> Members(r, u) = {}
                      /\ r.m_aTeamState[u] = "EMPTY" =>
                           /\ u \notin r.m_aTeamLocked \cup r.m_aPractice \cup r.killTick
                           /\ r.m_aInvited[u] = {}
    BY DEF FreshInv
  <2>1. Members(r, u) = Members(s, u)
    BY <1>7 DEF Members
  <2>2. CASE u = t
    BY <1>3, <1>7, <2>1, <2>2
  <2>3. CASE u # t
    <3>1. r.m_aTeamState[u] = s.m_aTeamState[u] /\ (u \in r.killTick <=> u \in s.killTick)
      BY <1>3, <1>7, <2>3 DEF kill
    <3>2. /\ s.m_aTeamState[u] = "EMPTY" <=> Members(s, u) = {}
          /\ s.m_aTeamState[u] = "EMPTY" =>
               /\ u \notin s.m_aTeamLocked \cup s.m_aPractice \cup s.killTick
               /\ s.m_aInvited[u] = {}
      BY DEF HelperInv, FreshInv
    <3> QED BY <1>7, <2>1, <3>1, <3>2
  <2> QED BY <2>2, <2>3
<1>10. SavingInv(r)
  BY <1>3, <1>7 DEF HelperInv, SavingInv, GetSaving
<1>11. CleanInv(r, {})
  BY <1>1, <1>2, <1>7 DEF HelperInv, CleanInv, IsPlaying, Races
<1>12. \A d \in Clients : s.m_aTeam[d] # t => r.chr[d] = s.chr[d]
  BY <1>2, <1>5, <1>7
<1>13. \A u \in Teams : u # t => r.m_aTeamState[u] = s.m_aTeamState[u]
  BY <1>3, <1>7
<1> QED
  BY <1>6, <1>7, <1>8, <1>9, <1>10, <1>11, <1>12, <1>13 DEF HelperInv, C

\* A start tile, for a team that is not being saved.
LEMMA StartTeamInv ==
  ASSUME TeamsInv, NEW c \in Clients, NEW t \in Teams \ {FLOCK}, t = g.m_aTeam[c],
         ~GetSaving(g, t)
  PROVE  StepOK(StartTeam(g, c, t), {})
<1> DEFINE waiting == \E d \in Playing(g, t) : g.chr[d] = "FINISHED"
<1> PICK r : r = StartTeam(g, c, t)
  OBVIOUS
<1>1. HelperInv(g, {})
  BY DEF TeamsInv
<1>2. CASE waiting
  <2>1. r = [g EXCEPT !.chr[c] = "NONE"]
    BY <1>2 DEF StartTeam
  <2>2. "NONE" \in Chrs /\ "NONE" \in Races /\ "NONE" # "STARTED"
    BY DEF Chrs, Races
  <2>3. LET e == [g EXCEPT !.chr[c] = "NONE"] IN HelperInv(e, {}) /\ Follows(g, e)
    BY <1>1, <2>2, ChrInv
  <2> QED BY <2>1, <2>3, FollowsUnranked
<1> DEFINE s == [g EXCEPT !.m_aTeeStarted = @ \cup {c}]
<1>3. /\ HelperInv(s, {}) /\ Follows(g, s) /\ SameTeams(g, s) /\ s.chr = g.chr
      /\ s.practised = g.practised
  BY <1>1, StartedMarkInv
<1> HIDE DEF s, waiting
<1>4. CASE ~waiting /\ g.m_aTeamState[t] \notin {"EMPTY", "OPEN"}
  BY <1>3, <1>4, FollowsUnranked DEF StartTeam, s, waiting
<1>5. CASE ~waiting /\ g.m_aTeamState[t] \in {"EMPTY", "OPEN"}
  <2>1. Playing(g, t) = Playing(s, t) /\ c \in Members(s, t)
    BY <1>3 DEF Playing, Members, IsPlaying, SameTeams
  <2>2. r = TeamStarts(s, t)
    BY <1>5, <2>1 DEF StartTeam, TeamStarts, s, waiting
  <2>3. s.m_aTeamState[t] \in {"EMPTY", "OPEN"}
    BY <1>3, <1>5 DEF SameTeams
  <2>4. /\ HelperInv(r, {}) /\ r.m_aTeam = s.m_aTeam /\ r.practised = s.practised
        /\ r.m_apSaveTeamResult = s.m_apSaveTeamResult
        /\ \A u \in Teams : u # t => r.m_aTeamState[u] = s.m_aTeamState[u]
        /\ \A d \in Clients : s.m_aTeam[d] # t => r.chr[d] = s.chr[d]
    BY <1>3, <2>1, <2>2, <2>3, TeamStartsInv
  <2>5. /\ r.m_aTeam = g.m_aTeam /\ r.practised = g.practised
        /\ r.m_apSaveTeamResult = g.m_apSaveTeamResult
        /\ \A u \in Teams : u # t => r.m_aTeamState[u] = g.m_aTeamState[u]
        /\ \A d \in Clients : g.m_aTeam[d] # t => r.chr[d] = g.chr[d]
        /\ \A u \in Teams : Members(r, u) = Members(g, u)
    BY <1>3, <2>4 DEF SameTeams, Members
  <2>6. ClosedInv(r)
    BY <2>5 DEF TeamsInv, ClosedInv
  <2>7. QuietInv(r)
    <3> SUFFICES ASSUME NEW u \in Teams,
                        g.m_apSaveTeamResult[u].status \in {"SAVING", "SAVE_SUCCESS"},
                        NEW d \in Members(g, u)
                 PROVE  r.chr[d] # "STARTED" /\ d \notin g.practised
      BY <2>5 DEF QuietInv
    <3>1. u # t
      BY NoResultIs DEF GetSaving
    <3>2. d \in Clients /\ g.m_aTeam[d] # t
      BY <3>1 DEF Members
    <3> QED BY <2>5, <3>2 DEF TeamsInv, QuietInv
  <2>8. \A u \in Teams : g.m_aTeamState[u] = "UNFINISHABLE" =>
                           r.m_aTeamState[u] \notin {"STARTED", "FINISHED"}
    BY <1>5, <2>5
  <2> QED BY <2>4, <2>5, <2>6, <2>7, <2>8 DEF StepOK
<1> QED BY <1>2, <1>4, <1>5 DEF waiting

\* In the flock everybody starts for himself.
LEMMA FlockStartInv ==
  ASSUME TeamsInv, NEW c \in Clients, g.m_aTeam[c] = FLOCK
  PROVE  StepOK([g EXCEPT !.m_aTeeStarted = @ \cup {c}, !.chr[c] = "STARTED"], {})
<1> DEFINE s == [g EXCEPT !.m_aTeeStarted = @ \cup {c}]
           r == [s EXCEPT !.chr[c] = "STARTED"]
<1>1. HelperInv(g, {}) /\ "STARTED" \in Chrs /\ "STARTED" \in Races
  BY DEF TeamsInv, Chrs, Races
<1>2. /\ HelperInv(s, {}) /\ Follows(g, s) /\ SameTeams(g, s) /\ s.chr = g.chr
      /\ s.practised = g.practised
  BY <1>1, StartedMarkInv
<1>3. /\ HelperInv(r, {}) /\ SameTeams(s, r) /\ r.practised = s.practised
      /\ \A d \in Clients : r.chr[d] = IF d = c THEN "STARTED" ELSE s.chr[d]
  <2> HIDE DEF s
  <2> QED BY <1>1, <1>2, ChrInv
<1>4. r = [g EXCEPT !.m_aTeeStarted = @ \cup {c}, !.chr[c] = "STARTED"]
  BY <1>1 DEF HelperInv, Arrays
<1> HIDE DEF s, r
<1>5. Stays(g, r)
  BY <1>2, <1>3 DEF SameTeams, Stays
<1>6. QuietInv(r)
  <2> SUFFICES ASSUME NEW u \in Teams,
                      g.m_apSaveTeamResult[u].status \in {"SAVING", "SAVE_SUCCESS"},
                      NEW d \in Members(g, u)
               PROVE  r.chr[d] # "STARTED" /\ d \notin g.practised
    BY <1>2, <1>3 DEF QuietInv, SameTeams, Members
  <2>1. u # FLOCK
    BY <1>1, NoResultIs DEF HelperInv, FlockInv
  <2>2. d \in Clients /\ d # c
    BY <2>1 DEF Members
  <2> QED BY <1>2, <1>3, <2>2 DEF TeamsInv, QuietInv
<1>7. \A d \in {} : r.chr[d] # "STARTED" /\ d \notin r.practised
  OBVIOUS
<1>8. StepOK(r, {})
  BY <1>3, <1>5, <1>6, <1>7, StaysStep
<1> QED BY <1>4, <1>8

LEMMA StartKeeps ==
  ASSUME TeamsInv, NEW c \in Clients, Start(c)
  PROVE  Keeps
<1> DEFINE t == g.m_aTeam[c]
<1>1. HelperInv(g, {}) /\ t \in Teams /\ UNCHANGED saves
  BY ArraysAre DEF TeamsInv, HelperInv, Start
<1>2. CASE GetSaving(g, t)
  <2> DEFINE r == Die(g, c, FALSE)
  <2>1. HelperInv(r, {}) /\ Follows(g, r)
    BY <1>1, DieInv
  <2>2. Set(r, {})
    BY <1>2 DEF Start
  <2> HIDE DEF r
  <2> QED BY <1>1, <2>1, <2>2, FollowsUnranked, SameSavesKeeps
<1>3. CASE ~GetSaving(g, t) /\ t = FLOCK
  <2> DEFINE r == [g EXCEPT !.m_aTeeStarted = @ \cup {c}, !.chr[c] = "STARTED"]
  <2>1. StepOK(r, {})
    BY <1>3, FlockStartInv
  <2>2. Set(r, {})
    BY <1>3 DEF Start
  <2> HIDE DEF r
  <2> QED BY <1>1, <2>1, <2>2, SameSavesKeeps
<1>4. CASE ~GetSaving(g, t) /\ t # FLOCK
  <2> DEFINE r == StartTeam(g, c, t)
  <2>1. StepOK(r, {})
    BY <1>1, <1>4, StartTeamInv
  <2>2. Set(r, {})
    BY <1>4 DEF Start
  <2> HIDE DEF r
  <2> QED BY <1>1, <2>1, <2>2, SameSavesKeeps
<1> QED BY <1>2, <1>3, <1>4

\* A tee joins a team: there is no result for it that would have to know of him.
LEMMA JoinTeamKeeps ==
  ASSUME TeamsInv, NEW c \in Clients, NEW t \in Teams, JoinTeam(c, t)
  PROVE  Keeps
<1> PICK r : r = SetForceCharacterTeam(g, c, t)
  OBVIOUS
<1>1. /\ HelperInv(g, {}) /\ g \in Arrays /\ g.m_aTeam[c] \in Teams
      /\ g.m_aTeamState[t] \in {"EMPTY", "OPEN"} /\ t # g.m_aTeam[c]
      /\ g.m_aTeam[c] \notin g.m_aPractice /\ ~GetSaving(g, t)
  BY ArraysAre DEF TeamsInv, HelperInv, JoinTeam, MayChange
<1>2. c \notin g.practised
  BY <1>1 DEF HelperInv, CleanInv
<1>3. /\ HelperInv(r, {})
      /\ \A d \in Clients : r.m_aTeam[d] = IF d = c THEN t ELSE g.m_aTeam[d]
      /\ r.chr = g.chr /\ r.practised = g.practised
      /\ r.m_apSaveTeamResult = g.m_apSaveTeamResult
  BY <1>1, <1>2, SetForceInv
<1>4. \A u \in Teams : g.m_aTeamState[u] \notin {"STARTED", "FINISHED"} =>
                         r.m_aTeamState[u] \notin {"STARTED", "FINISHED"}
  BY <1>1, <1>2, SetForceInv
<1>5. Set(r, {}) /\ UNCHANGED saves
  BY DEF JoinTeam
<1>6. g.m_apSaveTeamResult[t].status = None
  BY <1>1, NoResultIs DEF GetSaving, HelperInv, FlockInv
<1>7. \A u \in Teams : u # t => Members(r, u) \subseteq Members(g, u)
  BY <1>3 DEF Members
<1>8. ClosedInv(r)
  <2> SUFFICES ASSUME NEW u \in Teams
               PROVE  /\ g.m_apSaveTeamResult[u].status
                           \in {"SAVING", "SAVE_SUCCESS", "SAVE_FAILED", "LOAD_SUCCESS"} =>
                           Members(r, u) \subseteq DOMAIN g.m_apSaveTeamResult[u].team.tees
                      /\ g.m_apSaveTeamResult[u].status = "LOADING" =>
                           Members(r, u) \subseteq g.m_apSaveTeamResult[u].members
    BY <1>3 DEF ClosedInv
  <2>1. CASE u = t
    BY <1>6, <2>1, NoResultIs
  <2>2. CASE u # t
    <3>1. /\ g.m_apSaveTeamResult[u].status
               \in {"SAVING", "SAVE_SUCCESS", "SAVE_FAILED", "LOAD_SUCCESS"} =>
               Members(g, u) \subseteq DOMAIN g.m_apSaveTeamResult[u].team.tees
          /\ g.m_apSaveTeamResult[u].status = "LOADING" =>
               Members(g, u) \subseteq g.m_apSaveTeamResult[u].members
      BY DEF TeamsInv, ClosedInv
    <3>2. Members(r, u) \subseteq Members(g, u)
      BY <1>7, <2>2
    <3> QED BY <3>1, <3>2
  <2> QED BY <2>1, <2>2
<1>9. QuietInv(r)
  <2> SUFFICES ASSUME NEW u \in Teams,
                      g.m_apSaveTeamResult[u].status \in {"SAVING", "SAVE_SUCCESS"},
                      NEW d \in Members(r, u)
               PROVE  g.chr[d] # "STARTED" /\ d \notin g.practised
    BY <1>3 DEF QuietInv
  <2>1. u # t
    BY <1>6, NoResultIs
  <2>2. d \in Members(g, u)
    BY <1>7, <2>1
  <2> QED BY <2>2 DEF TeamsInv, QuietInv
<1>10. \A u \in Teams : GetSaving(g, u) /\ GetSaving(r, u) => Members(r, u) \subseteq Members(g, u)
  BY <1>1, <1>7
<1>11. StepOK(r, {})
  BY <1>3, <1>4, <1>8, <1>9, <1>10 DEF StepOK
<1> QED BY <1>5, <1>11, SameSavesKeeps

\* Two tees of a team, or two who race in the flock, are exchanged.
LEMMA SwapTeamCharactersKeeps ==
  ASSUME TeamsInv, NEW c \in Clients, NEW d \in Clients, NEW late \in BOOLEAN,
         SwapTeamCharacters(c, d, late)
  PROVE  Keeps
<1> DEFINE t == g.m_aTeam[c]
           swaps == [e \in Clients |-> IF g.m_aTeam[e] = t THEN None
                                       ELSE g.m_SwapTargetsClientID[e]]
           s == [g EXCEPT !.m_SwapTargetsClientID = swaps]
           chr == [g.chr EXCEPT ![c] = g.chr[d], ![d] = g.chr[c]]
           S == Exchange(g.m_aTeeStarted, c, d)
           F == Exchange(g.m_aTeeFinished, c, d)
           P == Exchange(g.practised, c, d)
           r == [s EXCEPT !.chr = chr, !.m_aTeeStarted = S, !.m_aTeeFinished = F,
                          !.practised = P]
<1>1. /\ HelperInv(g, {}) /\ g \in Arrays /\ UNCHANGED saves
      /\ c # d /\ g.m_aTeam[c] = g.m_aTeam[d] /\ IsPlaying(g, c) /\ IsPlaying(g, d)
  BY DEF TeamsInv, HelperInv, SwapTeamCharacters, MaySwap
<1>2. /\ swaps \in [Clients -> Clients \cup {None}]
      /\ g.chr \in [Clients -> Chrs] /\ g.practised \in SUBSET Clients
  BY <1>1, ArraysAre
<1>3. /\ chr \in [Clients -> Chrs]
      /\ \A e \in Clients : chr[e] = IF e = d THEN g.chr[c]
                                     ELSE IF e = c THEN g.chr[d] ELSE g.chr[e]
  BY <1>1, <1>2
<1>4. S \in SUBSET Clients /\ F \in SUBSET Clients /\ P \in SUBSET Clients
  BY <1>1, ArraysAre DEF Exchange
<1>5. \A e : e \in P <=> \/ e \in g.practised /\ e \notin {c, d}
                         \/ e = d /\ c \in g.practised
                         \/ e = c /\ d \in g.practised
  BY DEF Exchange
<1>6. Set(IF late THEN s ELSE r, {})
  <2>1. r = [s EXCEPT !.chr[c] = g.chr[d], !.chr[d] = g.chr[c],
                      !.m_aTeeStarted = Exchange(@, c, d),
                      !.m_aTeeFinished = Exchange(@, c, d),
                      !.practised = Exchange(@, c, d)]
    BY <1>1 DEF Arrays
  <2> HIDE DEF r
  <2> QED BY <2>1 DEF SwapTeamCharacters
<1> HIDE DEF swaps, chr, S, F, P
<1>7. s \in Arrays
  BY <1>1, <1>2 DEF Arrays
<1>8. SameTeams(g, s) /\ s.chr = g.chr /\ s.practised = g.practised
  BY <1>1 DEF Arrays, SameTeams
<1> HIDE DEF s
<1>9. HelperInv(s, {}) /\ Follows(g, s)
  BY <1>1, <1>7, <1>8, MarksInv
<1>10. r \in Arrays
  BY <1>3, <1>4, <1>7 DEF Arrays
<1>11. SameTeams(s, r) /\ r.chr = chr /\ r.practised = P
  BY <1>7 DEF Arrays, SameTeams
<1> HIDE DEF r
<1>12. CleanInv(r, {})
  <2> SUFFICES ASSUME NEW e \in P PROVE IsPlaying(r, e) /\ r.m_aTeam[e] \in r.m_aPractice
    BY <1>11 DEF CleanInv
  <2>1. \A x \in g.practised : IsPlaying(g, x) /\ g.m_aTeam[x] \in g.m_aPractice
    BY <1>1 DEF HelperInv, CleanInv
  <2>2. e \in Clients /\ r.m_aTeam = g.m_aTeam /\ r.m_aPractice = g.m_aPractice
    BY <1>4, <1>8, <1>11 DEF SameTeams
  <2>3. g.m_aTeam[e] \in g.m_aPractice
    BY <1>1, <1>5, <2>1
  <2>4. IsPlaying(r, e)
    BY <1>1, <1>3, <1>5, <1>11, <2>1, <2>2 DEF IsPlaying
  <2> QED BY <2>2, <2>3, <2>4
<1>13. HelperInv(r, {})
  BY <1>9, <1>10, <1>11, <1>12, SameTeamsInv
<1>14. Stays(g, r)
  BY <1>8, <1>11 DEF Stays, SameTeams
<1>15. QuietInv(r)
  <2> SUFFICES ASSUME NEW u \in Teams,
                      g.m_apSaveTeamResult[u].status \in {"SAVING", "SAVE_SUCCESS"},
                      NEW e \in Members(g, u)
               PROVE  chr[e] # "STARTED" /\ e \notin P
    BY <1>8, <1>11 DEF QuietInv, SameTeams, Members
  <2>1. \A x \in Members(g, u) : g.chr[x] # "STARTED" /\ x \notin g.practised
    BY DEF TeamsInv, QuietInv
  <2>2. e \in Clients /\ (e \in {c, d} => c \in Members(g, u) /\ d \in Members(g, u))
    BY <1>1 DEF Members
  <2> QED BY <1>3, <1>5, <2>1, <2>2
<1>16. \A e \in {} : r.chr[e] # "STARTED" /\ e \notin r.practised
  OBVIOUS
<1>17. StepOK(s, {}) /\ StepOK(r, {})
  BY <1>9, <1>13, <1>14, <1>15, <1>16, FollowsUnranked, StaysStep
<1> QED BY <1>1, <1>6, <1>17, SameSavesKeeps

-----------------------------------------------------------------------------
(* Saving and loading.                                                     *)

Telling == {"SAVING", "SAVE_SUCCESS", "SAVE_FAILED", "LOAD_SUCCESS"}

\* Arrays with a new result for the team t.
WithResult(s, t, res) == [s EXCEPT !.m_apSaveTeamResult[t] = res]

LEMMA WithResultInv ==
  ASSUME NEW s, HelperInv(s, {}), NEW t \in Teams \ {FLOCK}, NEW res \in Results,
         res.status # None => s.m_aTeamState[t] # "UNFINISHABLE"
  PROVE  LET r == WithResult(s, t, res)
         IN /\ HelperInv(r, {})
            /\ r.m_aTeam = s.m_aTeam /\ r.m_aTeamState = s.m_aTeamState
            /\ r.chr = s.chr /\ r.practised = s.practised
            /\ \A u \in Teams : r.m_apSaveTeamResult[u] =
                                  IF u = t THEN res ELSE s.m_apSaveTeamResult[u]
<1> DEFINE results == [s.m_apSaveTeamResult EXCEPT ![t] = res]
<1> PICK r : r = WithResult(s, t, res)
  OBVIOUS
<1>1. s \in Arrays
  BY DEF HelperInv
<1>2. /\ results \in [Teams -> Results]
      /\ \A u \in Teams : results[u] = IF u = t THEN res ELSE s.m_apSaveTeamResult[u]
  BY <1>1, ArraysAre
<1>3. r = [s EXCEPT !.m_apSaveTeamResult = results]
  BY <1>1 DEF WithResult, Arrays
<1> HIDE DEF results
<1>4. r \in Arrays /\ r.m_apSaveTeamResult = results
  BY <1>1, <1>2, <1>3 DEF Arrays
<1>5. /\ r.m_aTeam = s.m_aTeam /\ r.chr = s.chr /\ r.practised = s.practised
      /\ r.m_aTeamState = s.m_aTeamState /\ r.m_aTeamLocked = s.m_aTeamLocked
      /\ r.m_aPractice = s.m_aPractice /\ r.m_aInvited = s.m_aInvited
      /\ r.killTick = s.killTick
  BY <1>1, <1>3 DEF Arrays
<1>6. FlockInv(r)
  BY <1>2, <1>4, <1>5, TeamsAssumption DEF HelperInv, FlockInv, Teams, FLOCK
<1>7. FreshInv(r)
  BY <1>5 DEF HelperInv, FreshInv, Members
<1>8. SavingInv(r)
  BY <1>2, <1>4, <1>5 DEF HelperInv, SavingInv, GetSaving
<1>9. CleanInv(r, {})
  BY <1>5 DEF HelperInv, CleanInv, IsPlaying
<1> QED BY <1>2, <1>4, <1>5, <1>6, <1>7, <1>8, <1>9 DEF HelperInv

\* A step that gives a team a new result, for the members it has, and in which
\* nobody joins a team.
LEMMA ResultStep ==
  ASSUME TeamsInv, NEW t \in Teams \ {FLOCK}, NEW res \in Results,
         res.status # None => g.m_aTeamState[t] # "UNFINISHABLE",
         res.status \in Telling => Members(g, t) \subseteq DOMAIN res.team.tees,
         res.status = "LOADING" => Members(g, t) \subseteq res.members,
         NEW r, HelperInv(r, {}), Stays(WithResult(g, t, res), r), QuietInv(r)
  PROVE  StepOK(r, {})
<1> PICK s : s = WithResult(g, t, res)
  OBVIOUS
<1>1. /\ HelperInv(s, {})
      /\ s.m_aTeam = g.m_aTeam /\ s.m_aTeamState = g.m_aTeamState
      /\ \A u \in Teams : s.m_apSaveTeamResult[u] =
                            IF u = t THEN res ELSE g.m_apSaveTeamResult[u]
  BY WithResultInv DEF TeamsInv
<1>2. \A u \in Teams : Members(s, u) = Members(g, u)
  BY <1>1 DEF Members
<1>3. ClosedInv(s)
  <2> SUFFICES ASSUME NEW u \in Teams
               PROVE  /\ s.m_apSaveTeamResult[u].status \in Telling =>
                           Members(g, u) \subseteq DOMAIN s.m_apSaveTeamResult[u].team.tees
                      /\ s.m_apSaveTeamResult[u].status = "LOADING" =>
                           Members(g, u) \subseteq s.m_apSaveTeamResult[u].members
    BY <1>2 DEF ClosedInv, Telling
  <2>1. CASE u = t
    BY <1>1, <2>1
  <2>2. CASE u # t
    BY <1>1, <2>2 DEF TeamsInv, ClosedInv, Telling
  <2> QED BY <2>1, <2>2
<1>4. FlockInv(s) /\ Stays(s, r)
  BY <1>1 DEF HelperInv
<1>5. ClosedInv(r) /\ \A u \in Teams \ {FLOCK} : Members(r, u) \subseteq Members(s, u)
  BY <1>3, <1>4, StaysClosed
<1>6. \A u \in Teams : g.m_aTeamState[u] = "UNFINISHABLE" =>
                         r.m_aTeamState[u] \notin {"STARTED", "FINISHED"}
  BY <1>1, <1>4 DEF Stays
<1>7. \A u \in Teams \ {FLOCK} : Members(r, u) \subseteq Members(g, u)
  BY <1>2, <1>5
<1> QED BY <1>5, <1>6, <1>7 DEF StepOK

\* The result alone: a team that is told to be saved was so before.
LEMMA ResultAlone ==
  ASSUME TeamsInv, NEW t \in Teams \ {FLOCK}, NEW res \in Results,
         res.status # None => g.m_aTeamState[t] # "UNFINISHABLE",
         res.status \in Telling => Members(g, t) \subseteq DOMAIN res.team.tees,
         res.status = "LOADING" => Members(g, t) \subseteq res.members,
         res.status \in {"SAVING", "SAVE_SUCCESS"} =>
           g.m_apSaveTeamResult[t].status \in {"SAVING", "SAVE_SUCCESS"}
  PROVE  StepOK(WithResult(g, t, res), {})
<1> PICK s : s = WithResult(g, t, res)
  OBVIOUS
<1>1. /\ HelperInv(s, {})
      /\ s.m_aTeam = g.m_aTeam /\ s.chr = g.chr /\ s.practised = g.practised
      /\ \A u \in Teams : s.m_apSaveTeamResult[u] =
                            IF u = t THEN res ELSE g.m_apSaveTeamResult[u]
  BY WithResultInv DEF TeamsInv
<1>2. QuietInv(s)
  <2> SUFFICES ASSUME NEW u \in Teams,
                      s.m_apSaveTeamResult[u].status \in {"SAVING", "SAVE_SUCCESS"},
                      NEW c \in Members(g, u)
               PROVE  g.chr[c] # "STARTED" /\ c \notin g.practised
    BY <1>1 DEF QuietInv, Members
  <2>1. g.m_apSaveTeamResult[u].status \in {"SAVING", "SAVE_SUCCESS"}
    BY <1>1
  <2> QED BY <2>1 DEF TeamsInv, QuietInv
<1>3. Stays(s, s)
  BY DEF Stays
<1> QED BY <1>1, <1>2, <1>3, ResultStep

LEMMA LoadTeamKeeps ==
  ASSUME TeamsInv, NEW c \in Clients, LoadTeam(c)
  PROVE  Keeps
<1> DEFINE t == g.m_aTeam[c]
           res == [status |-> "LOADING", members |-> Members(g, t)]
<1>1. /\ t \in Teams \ {FLOCK} /\ g.m_aTeamState[t] = "OPEN" /\ UNCHANGED saves
      /\ Set(WithResult(g, t, res), {})
  BY ArraysAre DEF TeamsInv, HelperInv, LoadTeam, WithResult
<1>2. res \in Results /\ res.status = "LOADING" /\ res.members = Members(g, t)
  BY DEF Results, Members
<1> HIDE DEF res
<1>3. StepOK(WithResult(g, t, res), {})
  BY <1>1, <1>2, ResultAlone DEF Telling
<1> QED BY <1>1, <1>3, SameSavesKeeps

LEMMA DatabaseLoadFailsKeeps ==
  ASSUME TeamsInv, NEW t \in Teams, DatabaseLoadFails(t)
  PROVE  Keeps
<1> DEFINE res == [status |-> "LOAD_FAILED"]
<1>1. /\ UNCHANGED saves /\ Set(WithResult(g, t, res), {})
      /\ g.m_apSaveTeamResult[t].status = "LOADING"
  BY DEF DatabaseLoadFails, WithResult
<1>2. t # FLOCK /\ GetSaving(g, t) /\ g.m_aTeamState[t] # "UNFINISHABLE"
  BY <1>1, NoResultIs DEF TeamsInv, HelperInv, FlockInv, SavingInv, GetSaving
<1>3. res \in Results /\ res.status = "LOAD_FAILED"
  BY DEF Results
<1> HIDE DEF res
<1>4. StepOK(WithResult(g, t, res), {})
  BY <1>2, <1>3, ResultAlone DEF Telling
<1> QED BY <1>1, <1>4, SameSavesKeeps

\* What is said of a result by its status.
LEMMA ResultIs ==
  ASSUME TeamsInv, NEW t \in Teams
  PROVE  LET res == g.m_apSaveTeamResult[t]
         IN /\ res \in Results
            /\ res.status # None => t # FLOCK /\ g.m_aTeamState[t] # "UNFINISHABLE"
            /\ res.status \in Telling =>
                 /\ res \in [status : Telling, team : SavedTeams]
                 /\ Members(g, t) \subseteq DOMAIN res.team.tees
            /\ res.status = "LOADING" => Members(g, t) \subseteq res.members
<1> PICK res : res = g.m_apSaveTeamResult[t]
  OBVIOUS
<1>1. res \in Results
  BY ArraysAre DEF TeamsInv, HelperInv
<1>2. res.status # None => t # FLOCK /\ g.m_aTeamState[t] # "UNFINISHABLE"
  BY NoResultIs DEF TeamsInv, HelperInv, FlockInv, SavingInv, GetSaving
<1>3. /\ res.status \in Telling => Members(g, t) \subseteq DOMAIN res.team.tees
      /\ res.status = "LOADING" => Members(g, t) \subseteq res.members
  BY DEF TeamsInv, ClosedInv, Telling
<1>4. res.status \in Telling => res \in [status : Telling, team : SavedTeams]
  BY <1>1, NoResultIs DEF Results, Telling
<1> QED BY <1>1, <1>2, <1>3, <1>4

LEMMA DatabaseSavesKeeps ==
  ASSUME TeamsInv, NEW t \in Teams, NEW ok \in BOOLEAN, DatabaseSaves(t, ok)
  PROVE  Keeps
<1> PICK old : old = g.m_apSaveTeamResult[t]
  OBVIOUS
<1> PICK status : status = IF ok THEN "SAVE_SUCCESS" ELSE "SAVE_FAILED"
  OBVIOUS
<1> PICK res : res = [old EXCEPT !.status = status]
  OBVIOUS
<1>1. /\ old.status = "SAVING" /\ saves' \subseteq saves \cup {old.team}
      /\ Set([g EXCEPT !.m_apSaveTeamResult[t].status = status], {})
  BY DEF DatabaseSaves
<1>2. /\ old \in [status : Telling, team : SavedTeams] /\ t \in Teams \ {FLOCK}
      /\ g.m_aTeamState[t] # "UNFINISHABLE"
      /\ Members(g, t) \subseteq DOMAIN old.team.tees
  BY <1>1, NoResultIs, ResultIs DEF Telling
<1>3. /\ res \in [status : {"SAVE_SUCCESS", "SAVE_FAILED"}, team : SavedTeams]
      /\ res.team = old.team
  BY <1>2
<1>4. res \in Results /\ res.status \in {"SAVE_SUCCESS", "SAVE_FAILED"}
  BY <1>3 DEF Results
<1>5. Set(WithResult(g, t, res), {})
  BY <1>1 DEF WithResult
<1>6. StepOK(WithResult(g, t, res), {})
  BY <1>1, <1>2, <1>3, <1>4, ResultAlone
<1>7. saves' \subseteq SavedTeams
  BY <1>1, <1>2 DEF TeamsInv
<1> QED BY <1>5, <1>6, <1>7, SetKeeps

LEMMA DatabaseLoadsKeeps ==
  ASSUME TeamsInv, NEW t \in Teams, NEW save \in saves, DatabaseLoads(t, save)
  PROVE  Keeps
<1> DEFINE res == [status |-> "LOAD_SUCCESS", team |-> save]
<1>1. /\ g.m_apSaveTeamResult[t].status = "LOADING"
      /\ g.m_apSaveTeamResult[t].members = DOMAIN save.tees
      /\ saves' \subseteq saves /\ Set(WithResult(g, t, res), {})
  BY DEF DatabaseLoads, WithResult
<1>2. /\ t \in Teams \ {FLOCK} /\ g.m_aTeamState[t] # "UNFINISHABLE"
      /\ Members(g, t) \subseteq DOMAIN save.tees
  BY <1>1, NoResultIs, ResultIs
<1>3. save \in SavedTeams
  BY DEF TeamsInv
<1>4. res \in Results /\ res.status = "LOAD_SUCCESS" /\ res.team = save
  BY <1>3 DEF Results
<1> HIDE DEF res
<1>5. StepOK(WithResult(g, t, res), {})
  BY <1>2, <1>4, ResultAlone
<1>6. saves' \subseteq SavedTeams
  BY <1>1 DEF TeamsInv
<1> QED BY <1>1, <1>5, <1>6, SetKeeps

\* What is saved of a team.
LEMMA SavedIs ==
  ASSUME NEW s \in Arrays, NEW t \in Teams
  PROVE  Saved(s, t) \in SavedTeams /\ DOMAIN Saved(s, t).tees = Members(s, t)
<1> DEFINE M == Members(s, t)
           tees == [c \in M |-> [chr |-> s.chr[c], started |-> c \in s.m_aTeeStarted,
                                 finished |-> c \in s.m_aTeeFinished]]
<1>1. M \in SUBSET Clients
  BY DEF Members
<1>2. \A c \in M : s.chr[c] \in Chrs
  BY <1>1, ArraysAre
<1>3. tees \in [M -> Tees]
  BY <1>2 DEF Tees
<1> HIDE DEF M
<1>4. tees \in UNION {[C -> Tees] : C \in SUBSET Clients}
  BY <1>1, <1>3
<1>5. Saved(s, t).tees = tees
  BY DEF Saved, M
<1>6. /\ Saved(s, t) = [tees |-> tees, locked |-> t \in s.m_aTeamLocked,
                        practice |-> t \in s.m_aPractice]
  BY DEF Saved, M
<1> HIDE DEF tees
<1>7. Saved(s, t) \in SavedTeams
  BY <1>4, <1>6 DEF SavedTeams
<1>8. DOMAIN tees = M
  BY DEF tees
<1> QED BY <1>5, <1>7, <1>8 DEF M

\* The team is saved and killed: nobody of it races while the database works on it.
LEMMA SaveTeamKeeps ==
  ASSUME TeamsInv, NEW c \in Clients, SaveTeam(c)
  PROVE  Keeps
<1> DEFINE t == g.m_aTeam[c]
           saved == Saved(g, t)
           res == [status |-> "SAVING", team |-> saved]
           s == WithResult(g, t, res)
           r == KillTeam(s, t)
<1>1. /\ t \in Teams \ {FLOCK} /\ g.m_aTeamState[t] = "STARTED" /\ UNCHANGED saves
      /\ HelperInv(g, {}) /\ g \in Arrays
  BY ArraysAre DEF TeamsInv, HelperInv, SaveTeam
<1>2. Set(r, {})
  BY DEF SaveTeam, WithResult
<1>3. saved \in SavedTeams /\ DOMAIN saved.tees = Members(g, t)
  BY <1>1, SavedIs
<1> HIDE DEF saved
<1>4. res \in Results /\ res.status = "SAVING" /\ res.team = saved
  BY <1>3 DEF Results
<1> HIDE DEF t, res
<1>5. /\ HelperInv(s, {})
      /\ s.m_aTeam = g.m_aTeam /\ s.m_aTeamState = g.m_aTeamState
      /\ s.chr = g.chr /\ s.practised = g.practised
      /\ \A u \in Teams : s.m_apSaveTeamResult[u] =
                            IF u = t THEN res ELSE g.m_apSaveTeamResult[u]
  BY <1>1, <1>4, WithResultInv
<1> HIDE DEF s
<1>6. /\ HelperInv(r, {}) /\ Follows(s, r)
      /\ \A d \in Members(s, t) : r.chr[d] # "STARTED" /\ d \notin r.practised
  BY <1>1, <1>5, KillTeamInv
<1> HIDE DEF r
<1>7. QuietInv(r)
  <2> SUFFICES ASSUME NEW u \in Teams,
                      s.m_apSaveTeamResult[u].status \in {"SAVING", "SAVE_SUCCESS"},
                      NEW d \in Members(r, u)
               PROVE  r.chr[d] # "STARTED" /\ d \notin r.practised
    BY <1>6 DEF QuietInv, Follows
  <2>1. u # FLOCK
    BY <1>5, NoResultIs DEF HelperInv, FlockInv
  <2>2. d \in Members(s, u) /\ d \in Clients
    BY <1>6, <2>1 DEF Follows, Members
  <2>3. CASE u = t
    BY <1>6, <2>2, <2>3
  <2>4. CASE u # t
    <3>1. g.m_apSaveTeamResult[u].status \in {"SAVING", "SAVE_SUCCESS"}
      BY <1>5, <2>4
    <3>2. d \in Members(g, u)
      BY <1>5, <2>2 DEF Members
    <3>3. s.chr[d] # "STARTED" /\ d \notin s.practised
      BY <1>5, <3>1, <3>2 DEF TeamsInv, QuietInv
    <3> QED BY <1>6, <2>2, <3>3 DEF Follows
  <2> QED BY <2>3, <2>4
<1>8. Stays(WithResult(g, t, res), r)
  BY <1>6 DEF Follows, Stays, s
<1>9. StepOK(r, {})
  BY <1>1, <1>3, <1>4, <1>6, <1>7, <1>8, ResultStep
<1> QED BY <1>1, <1>2, <1>9, SameSavesKeeps

\* The fields that LoadSaved changes.
Loaded(s, state, L, P, chr, S, F, D) ==
  [s EXCEPT !.m_aTeamState = state, !.m_aTeamLocked = L, !.m_aPractice = P,
            !.chr = chr, !.m_aTeeStarted = S, !.m_aTeeFinished = F, !.practised = D]

LEMMA LoadedIs ==
  ASSUME NEW s \in Arrays, NEW state \in [Teams -> States], NEW L \in SUBSET Teams,
         NEW P \in SUBSET Teams, NEW chr \in [Clients -> Chrs],
         NEW S \in SUBSET Clients, NEW F \in SUBSET Clients, NEW D \in SUBSET Clients
  PROVE  LET r == Loaded(s, state, L, P, chr, S, F, D)
         IN /\ r \in Arrays
            /\ r.m_aTeamState = state /\ r.m_aTeamLocked = L /\ r.m_aPractice = P
            /\ r.chr = chr /\ r.practised = D
            /\ r.m_aTeam = s.m_aTeam /\ r.m_aInvited = s.m_aInvited
            /\ r.killTick = s.killTick /\ r.m_apSaveTeamResult = s.m_apSaveTeamResult
BY DEF Arrays, Loaded

\* A team is loaded for all that are in it: what they have done in practice mode
\* is gone.
LEMMA LoadSavedInv ==
  ASSUME NEW s, HelperInv(s, {}), NEW t \in Teams \ {FLOCK}, NEW team \in SavedTeams,
         Members(s, t) \subseteq DOMAIN team.tees
  PROVE  LET r == LoadSaved(s, t, team)
         IN /\ HelperInv(r, {}) /\ r.m_aTeam = s.m_aTeam
            /\ r.m_apSaveTeamResult = s.m_apSaveTeamResult
            /\ r.practised \subseteq s.practised
            /\ \A u \in Teams : u # t => r.m_aTeamState[u] = s.m_aTeamState[u]
            /\ \A d \in Clients : s.m_aTeam[d] # t => r.chr[d] = s.chr[d]
<1> DEFINE C == {c \in Members(s, t) \cap DOMAIN team.tees : s.chr[c] # "out"}
           With(S, field) == (S \ C) \cup {c \in C : team.tees[c][field]}
           chr == [c \in Clients |-> IF c \in C THEN team.tees[c].chr ELSE s.chr[c]]
           state == [s.m_aTeamState EXCEPT ![t] = "STARTED"]
           L == IF team.locked THEN s.m_aTeamLocked \cup {t} ELSE s.m_aTeamLocked \ {t}
           P == IF team.practice THEN s.m_aPractice \cup {t} ELSE s.m_aPractice \ {t}
           S == With(s.m_aTeeStarted, "started")
           F == With(s.m_aTeeFinished, "finished")
           D == s.practised \ C
<1> PICK r : r = LoadSaved(s, t, team)
  OBVIOUS
<1>1. CASE Members(s, t) = {}
  BY <1>1 DEF LoadSaved
<1>2. CASE Members(s, t) # {}
  <2>1. /\ s \in Arrays /\ C \in SUBSET Clients
        /\ \A c \in Members(s, t) : s.chr[c] # "out" => c \in C
        /\ \A c \in C : s.m_aTeam[c] = t /\ c \in DOMAIN team.tees
    BY DEF HelperInv, Members
  <2>2. r = Loaded(s, state, L, P, chr, S, F, D)
    BY <1>2, <2>1 DEF LoadSaved, Arrays, Loaded
  <2>3. \A c \in C : team.tees[c].chr \in Chrs
    <3>1. PICK B \in SUBSET Clients : team.tees \in [B -> Tees]
      BY DEF SavedTeams
    <3> HIDE DEF C
    <3> QED BY <2>1, <3>1 DEF Tees
  <2> HIDE DEF C
  <2>4. /\ chr \in [Clients -> Chrs]
        /\ \A d \in Clients : d \notin C => chr[d] = s.chr[d]
    BY <2>1, <2>3, ArraysAre
  <2>5. /\ state \in [Teams -> States]
        /\ \A u \in Teams : state[u] = IF u = t THEN "STARTED" ELSE s.m_aTeamState[u]
    BY <2>1, ArraysAre DEF States
  <2>6. /\ L \in SUBSET Teams /\ P \in SUBSET Teams
        /\ \A u \in Teams : u # t => /\ u \in L <=> u \in s.m_aTeamLocked
                                     /\ u \in P <=> u \in s.m_aPractice
    BY <2>1, ArraysAre
  <2>7. S \in SUBSET Clients /\ F \in SUBSET Clients /\ D \in SUBSET Clients
    BY <2>1, ArraysAre
  <2> HIDE DEF chr, state, L, P, S, F, D
  <2>8. /\ r \in Arrays
        /\ r.m_aTeamState = state /\ r.m_aTeamLocked = L /\ r.m_aPractice = P
        /\ r.chr = chr /\ r.practised = D
        /\ r.m_aTeam = s.m_aTeam /\ r.m_aInvited = s.m_aInvited /\ r.killTick = s.killTick
        /\ r.m_apSaveTeamResult = s.m_apSaveTeamResult
    BY <2>1, <2>2, <2>4, <2>5, <2>6, <2>7, LoadedIs
  <2>9. FlockInv(r)
    BY <2>5, <2>6, <2>8, TeamsAssumption DEF HelperInv, FlockInv, Teams, FLOCK
  <2>10. FreshInv(r)
    <3> SUFFICES ASSUME NEW u \in Teams \ {FLOCK}
                 PROVE  /\ r.m_aTeamState[u] = "EMPTY" <=> Members(r, u) = {}
                        /\ r.m_aTeamState[u] = "EMPTY" =>
                             /\ u \notin r.m_aTeamLocked \cup r.m_aPractice \cup r.killTick
                             /\ r.m_aInvited[u] = {}
      BY DEF FreshInv
    <3>1. Members(r, u) = Members(s, u)
      BY <2>8 DEF Members
    <3>2. CASE u = t
      BY <1>2, <2>5, <2>8, <3>1, <3>2
    <3>3. CASE u # t
      <4>1. /\ s.m_aTeamState[u] = "EMPTY" <=> Members(s, u) = {}
            /\ s.m_aTeamState[u] = "EMPTY" =>
                 /\ u \notin s.m_aTeamLocked \cup s.m_aPractice \cup s.killTick
                 /\ s.m_aInvited[u] = {}
        BY DEF HelperInv, FreshInv
      <4>2. /\ r.m_aTeamState[u] = s.m_aTeamState[u]
            /\ u \in r.m_aTeamLocked <=> u \in s.m_aTeamLocked
            /\ u \in r.m_aPractice <=> u \in s.m_aPractice
        BY <2>5, <2>6, <2>8, <3>3
      <4> QED BY <2>8, <3>1, <4>1, <4>2
    <3> QED BY <3>2, <3>3
  <2>11. SavingInv(r)
    BY <2>5, <2>8 DEF HelperInv, SavingInv, GetSaving
  <2>12. CleanInv(r, {})
    <3> SUFFICES ASSUME NEW d \in D PROVE IsPlaying(r, d) /\ r.m_aTeam[d] \in r.m_aPractice
      BY <2>8 DEF CleanInv
    <3>1. /\ d \in Clients /\ d \notin C /\ IsPlaying(s, d)
          /\ s.m_aTeam[d] \in s.m_aPractice /\ s.m_aTeam[d] \in Teams
      BY <2>1, <2>7, ArraysAre DEF HelperInv, CleanInv, D
    <3>2. s.m_aTeam[d] # t
      BY <2>1, <3>1 DEF Members, IsPlaying, Races
    <3> QED BY <2>4, <2>6, <2>8, <3>1, <3>2 DEF IsPlaying
  <2>13. \A d \in Clients : s.m_aTeam[d] # t => r.chr[d] = s.chr[d]
    BY <2>1, <2>4, <2>8
  <2>14. \A u \in Teams : u # t => r.m_aTeamState[u] = s.m_aTeamState[u]
    BY <2>5, <2>8
  <2>15. HelperInv(r, {})
    BY <2>8, <2>9, <2>10, <2>11, <2>12 DEF HelperInv
  <2> QED BY <2>8, <2>13, <2>14, <2>15 DEF D
<1> QED BY <1>1, <1>2

\* MoveAll of arrays where nobody of C has practised.
LEMMA MoveAllClean ==
  ASSUME NEW s, HelperInv(s, {}), NEW C \in SUBSET Clients, C \cap s.practised = {}
  PROVE  LET r == MoveAll(s, C, FLOCK)
         IN HelperInv(r, {}) /\ Follows(s, r)
<1> PICK X : X = {}
  OBVIOUS
<1> PICK r : r = MoveAll(s, C, FLOCK)
  OBVIOUS
<1>1. HelperInv(s, X) /\ \A c \in C : c \notin s.practised \ X
  OBVIOUS
<1>2. HelperInv(r, X) /\ Follows(s, r)
  BY <1>1, MoveAllInv
<1> QED BY <1>2

\* Without the result the rest of QuietInv holds.
LEMMA NoResultQuiet ==
  ASSUME TeamsInv, NEW t \in Teams \ {FLOCK}
  PROVE  LET s == WithResult(g, t, NoResult)
         IN /\ HelperInv(s, {}) /\ QuietInv(s)
            /\ s.m_aTeam = g.m_aTeam /\ s.m_aTeamState = g.m_aTeamState
            /\ s.chr = g.chr /\ s.practised = g.practised
            /\ s.m_apSaveTeamResult[t].status = None
<1> PICK s : s = WithResult(g, t, NoResult)
  OBVIOUS
<1>1. NoResult \in Results /\ NoResult.status = None
  BY NoResultIs DEF Results
<1>2. /\ HelperInv(s, {})
      /\ s.m_aTeam = g.m_aTeam /\ s.m_aTeamState = g.m_aTeamState
      /\ s.chr = g.chr /\ s.practised = g.practised
      /\ \A u \in Teams : s.m_apSaveTeamResult[u] =
                            IF u = t THEN NoResult ELSE g.m_apSaveTeamResult[u]
  BY <1>1, WithResultInv DEF TeamsInv
<1>3. QuietInv(s)
  <2> SUFFICES ASSUME NEW u \in Teams,
                      s.m_apSaveTeamResult[u].status \in {"SAVING", "SAVE_SUCCESS"},
                      NEW c \in Members(g, u)
               PROVE  g.chr[c] # "STARTED" /\ c \notin g.practised
    BY <1>2 DEF QuietInv, Members
  <2>1. u # t
    BY <1>2, NoResultIs
  <2>2. g.m_apSaveTeamResult[u].status \in {"SAVING", "SAVE_SUCCESS"}
    BY <1>2, <2>1
  <2> QED BY <2>2 DEF TeamsInv, QuietInv
<1> QED BY <1>1, <1>2, <1>3

\* What ProcessSaveTeam does with the result it takes.
LEMMA ProcessedIs ==
  ASSUME NEW t \in Teams, ProcessSaveTeam(t)
  PROVE  LET old == g.m_apSaveTeamResult[t]
             s == WithResult(g, t, NoResult)
             players == {c \in Members(g, t) : g.chr[c] # "out"}
         IN /\ old.status # None /\ UNCHANGED saves
            /\ old.status = "SAVE_SUCCESS" => Set(MoveAll(s, players, FLOCK), {})
            /\ old.status \in {"SAVE_FAILED", "LOAD_SUCCESS"} =>
                 Set(LoadSaved(s, t, old.team), {})
            /\ old.status = "LOAD_FAILED" => Set(s, {})
BY DEF ProcessSaveTeam, WithResult

LEMMA ProcessSaveTeamKeeps ==
  ASSUME TeamsInv, NEW t \in Teams, ProcessSaveTeam(t)
  PROVE  Keeps
<1> DEFINE old == g.m_apSaveTeamResult[t]
           players == {c \in Members(g, t) : g.chr[c] # "out"}
           s == WithResult(g, t, NoResult)
<1>1. /\ old.status \in {"SAVE_SUCCESS", "SAVE_FAILED", "LOAD_SUCCESS", "LOAD_FAILED"}
      /\ UNCHANGED saves
  <2>1. old \in Results
    BY ResultIs
  <2>2. old.status \notin {None, "SAVING", "LOADING"} /\ UNCHANGED saves
    BY DEF ProcessSaveTeam
  <2> HIDE DEF old
  <2> QED BY <2>1, <2>2, NoResultIs DEF Results
<1>2. /\ t \in Teams \ {FLOCK} /\ g.m_aTeamState[t] # "UNFINISHABLE"
      /\ old.status \in Telling => /\ old.team \in SavedTeams
                                   /\ Members(g, t) \subseteq DOMAIN old.team.tees
  BY <1>1, NoResultIs, ResultIs
<1>3. /\ HelperInv(s, {}) /\ QuietInv(s)
      /\ s.m_aTeam = g.m_aTeam /\ s.m_aTeamState = g.m_aTeamState
      /\ s.chr = g.chr /\ s.practised = g.practised
      /\ s.m_apSaveTeamResult[t].status = None
  BY <1>2, NoResultQuiet
<1>4. \A r : HelperInv(r, {}) /\ Stays(s, r) /\ QuietInv(r) => StepOK(r, {})
  <2> SUFFICES ASSUME NEW r, HelperInv(r, {}), Stays(s, r), QuietInv(r)
               PROVE  StepOK(r, {})
    OBVIOUS
  <2>1. NoResult \in Results /\ NoResult.status = None
        /\ None \notin Telling /\ None # "LOADING"
    BY NoResultIs DEF Results, Telling
  <2> QED BY <1>2, <2>1, ResultStep
<1>5. CASE old.status = "SAVE_SUCCESS"
  <2> DEFINE r == MoveAll(s, players, FLOCK)
  <2>1. players \in SUBSET Clients /\ players \cap s.practised = {}
    BY <1>3, <1>5 DEF TeamsInv, QuietInv, Members
  <2>2. Set(r, {})
    BY <1>5, ProcessedIs
  <2> HIDE DEF players, s
  <2>3. HelperInv(r, {}) /\ Follows(s, r)
    BY <1>3, <2>1, MoveAllClean
  <2> HIDE DEF r
  <2>4. QuietInv(r) /\ Stays(s, r)
    <3>1. FlockInv(s) /\ QuietInv(s)
      BY <1>3 DEF HelperInv
    <3>2. QuietInv(r)
      BY <2>3, <3>1, FollowsQuiet
    <3> QED BY <2>3, <3>2 DEF Follows, Stays
  <2> QED BY <1>1, <1>4, <2>2, <2>3, <2>4, SameSavesKeeps
<1>6. CASE old.status \in {"SAVE_FAILED", "LOAD_SUCCESS"}
  <2> DEFINE r == LoadSaved(s, t, old.team)
  <2>1. Set(r, {})
    BY <1>6, ProcessedIs
  <2>2. old.team \in SavedTeams /\ Members(s, t) \subseteq DOMAIN old.team.tees
    BY <1>2, <1>3, <1>6 DEF Members, Telling
  <2> HIDE DEF s, old
  <2>3. /\ HelperInv(r, {}) /\ r.m_aTeam = s.m_aTeam
        /\ r.m_apSaveTeamResult = s.m_apSaveTeamResult
        /\ r.practised \subseteq s.practised
        /\ \A u \in Teams : u # t => r.m_aTeamState[u] = s.m_aTeamState[u]
        /\ \A d \in Clients : s.m_aTeam[d] # t => r.chr[d] = s.chr[d]
    BY <1>2, <1>3, <2>2, LoadSavedInv
  <2> HIDE DEF r
  <2>4. QuietInv(r)
    <3> SUFFICES ASSUME NEW u \in Teams,
                        s.m_apSaveTeamResult[u].status \in {"SAVING", "SAVE_SUCCESS"},
                        NEW d \in Members(s, u)
                 PROVE  r.chr[d] # "STARTED" /\ d \notin r.practised
      BY <2>3 DEF QuietInv, Members
    <3>1. u # t
      BY <1>3, NoResultIs
    <3>2. d \in Clients /\ s.m_aTeam[d] # t
      BY <3>1 DEF Members
    <3> QED BY <1>3, <2>3, <3>2 DEF QuietInv
  <2>5. ClosedInv(r) /\ \A u \in Teams : Members(r, u) = Members(g, u)
    <3>1. \A u \in Teams : Members(r, u) = Members(s, u) /\ Members(s, u) = Members(g, u)
      BY <1>3, <2>3 DEF Members
    <3>2. StepOK(s, {})
      <4>1. Stays(s, s)
        BY DEF Stays
      <4> QED BY <1>3, <1>4, <4>1
    <3>3. ClosedInv(r)
      BY <2>3, <3>1, <3>2 DEF StepOK, ClosedInv
    <3> QED BY <3>1, <3>3
  <2>6. \A u \in Teams : g.m_aTeamState[u] = "UNFINISHABLE" =>
                           r.m_aTeamState[u] \notin {"STARTED", "FINISHED"}
    BY <1>2, <1>3, <2>3
  <2>7. StepOK(r, {})
    BY <2>3, <2>4, <2>5, <2>6 DEF StepOK
  <2> QED BY <1>1, <2>1, <2>7, SameSavesKeeps
<1>7. CASE old.status = "LOAD_FAILED"
  <2>1. Set(s, {})
    BY <1>7, ProcessedIs
  <2> HIDE DEF s
  <2>2. Stays(s, s)
    BY DEF Stays
  <2> QED BY <1>1, <1>3, <1>4, <2>1, <2>2, SameSavesKeeps
<1> QED BY <1>1, <1>5, <1>6, <1>7

-----------------------------------------------------------------------------
(* The theorems.                                                           *)

LEMMA InitTeams ==
  ASSUME Init
  PROVE  TeamsInv /\ RankIsClean
<1> PICK s : s = g
  OBVIOUS
<1>1. /\ s.m_aTeam = [c \in Clients |-> FLOCK] /\ s.chr = [c \in Clients |-> "out"]
      /\ s.m_aTeamState = [t \in Teams |-> "EMPTY"]
      /\ s.m_aTeamLocked = {} /\ s.m_aPractice = {} /\ s.killTick = {}
      /\ s.m_aInvited = [t \in Teams |-> {}]
      /\ s.m_apSaveTeamResult = [t \in Teams |-> NoResult]
      /\ s.practised = {} /\ saves = {} /\ rank = {}
  BY DEF Init
<1>2. s \in Arrays
  <2>1. FLOCK \in Teams /\ "out" \in Chrs /\ "EMPTY" \in States /\ NoResult \in Results
    BY TeamsAssumption DEF Teams, FLOCK, Chrs, States, Results
  <2> QED BY <2>1 DEF Init, Arrays
<1>3. FLOCK \in Teams /\ NoResult.status = None
  BY TeamsAssumption, NoResultIs DEF Teams, FLOCK
<1>4. FlockInv(s) /\ CleanInv(s, {})
  BY <1>1, <1>3 DEF FlockInv, CleanInv
<1>5. FreshInv(s)
  BY <1>1 DEF FreshInv, Members
<1>6. SavingInv(s) /\ ClosedInv(s) /\ QuietInv(s)
  BY <1>1, <1>3, NoResultIs DEF SavingInv, GetSaving, ClosedInv, QuietInv
<1> QED BY <1>1, <1>2, <1>4, <1>5, <1>6 DEF HelperInv, TeamsInv, RankIsClean

LEMMA NextTeams ==
  ASSUME TeamsInv, Next
  PROVE  Keeps
<1>1. ASSUME NEW c \in Clients, Connect(c) \/ Play(c) PROVE Keeps
  BY <1>1, ArrivesKeeps
<1>2. ASSUME NEW c \in Clients, Disconnect(c) PROVE Keeps
  BY <1>2, DisconnectKeeps
<1>3. ASSUME NEW c \in Clients, Respawn(c) PROVE Keeps
  BY <1>3, RespawnKeeps
<1>4. ASSUME NEW c \in Clients, Kill(c) PROVE Keeps
  BY <1>4, KillKeeps
<1>5. ASSUME NEW c \in Clients, Spectate(c) PROVE Keeps
  BY <1>5, SpectateKeeps
<1>6. ASSUME NEW c \in Clients, Start(c) PROVE Keeps
  BY <1>6, StartKeeps
<1>7. ASSUME NEW c \in Clients, Finish(c) PROVE Keeps
  BY <1>7, FinishKeeps
<1>8. ASSUME NEW c \in Clients, Lock(c) PROVE Keeps
  BY <1>8, LockKeeps
<1>9. ASSUME NEW c \in Clients, Unlock(c) PROVE Keeps
  BY <1>9, UnlockKeeps
<1>10. ASSUME NEW c \in Clients, SaveTeam(c) PROVE Keeps
  BY <1>10, SaveTeamKeeps
<1>11. ASSUME NEW c \in Clients, LoadTeam(c) PROVE Keeps
  BY <1>11, LoadTeamKeeps
<1>12. ASSUME NEW c \in Clients, NEW t \in Teams, JoinTeam(c, t) PROVE Keeps
  BY <1>12, JoinTeamKeeps
<1>13. ASSUME NEW c \in Clients, NEW vote \in BOOLEAN, Practice(c, vote) PROVE Keeps
  BY <1>13, PracticeKeeps
<1>14. ASSUME NEW c \in Clients, NEW d \in Clients, Invite(c, d) PROVE Keeps
  BY <1>14, InviteKeeps
<1>15. ASSUME NEW c \in Clients, NEW d \in Clients, RequestTeamSwap(c, d) PROVE Keeps
  BY <1>15, RequestTeamSwapKeeps
<1>16. ASSUME NEW c \in Clients, NEW d \in Clients, NEW late \in BOOLEAN,
              SwapTeamCharacters(c, d, late)
       PROVE  Keeps
  BY <1>16, SwapTeamCharactersKeeps
<1>17. ASSUME NEW t \in Teams, ProcessSaveTeam(t) PROVE Keeps
  BY <1>17, ProcessSaveTeamKeeps
<1>18. ASSUME NEW t \in Teams, Tick(t) PROVE Keeps
  BY <1>18, TickKeeps
<1>19. ASSUME NEW t \in Teams, DatabaseLoadFails(t) PROVE Keeps
  BY <1>19, DatabaseLoadFailsKeeps
<1>20. ASSUME NEW t \in Teams, NEW ok \in BOOLEAN, DatabaseSaves(t, ok) PROVE Keeps
  BY <1>20, DatabaseSavesKeeps
<1>21. ASSUME NEW t \in Teams, NEW save \in saves, DatabaseLoads(t, save) PROVE Keeps
  BY <1>21, DatabaseLoadsKeeps
<1>22. CASE \E c \in Clients : \/ Connect(c) \/ Disconnect(c) \/ Respawn(c) \/ Kill(c)
                               \/ Spectate(c) \/ Play(c) \/ Start(c) \/ Finish(c)
                               \/ Lock(c) \/ Unlock(c) \/ SaveTeam(c) \/ LoadTeam(c)
  BY <1>1, <1>2, <1>3, <1>4, <1>5, <1>6, <1>7, <1>8, <1>9, <1>10, <1>11, <1>22
<1>23. CASE \E t \in Teams : \/ ProcessSaveTeam(t) \/ Tick(t) \/ DatabaseLoadFails(t)
                             \/ \E ok \in BOOLEAN : DatabaseSaves(t, ok)
                             \/ \E save \in saves : DatabaseLoads(t, save)
  BY <1>17, <1>18, <1>19, <1>20, <1>21, <1>23
<1> QED BY <1>12, <1>13, <1>14, <1>15, <1>16, <1>22, <1>23 DEF Next

\* The invariant: what the teams, the characters, the results of the database and
\* the history of practice mode must agree on after every handler.
THEOREM TeamsInvariant == Spec => [](TeamsInv /\ RankIsClean)
<1>1. Init => TeamsInv /\ RankIsClean
  BY InitTeams
<1>2. TeamsInv /\ RankIsClean /\ [Next]_vars => (TeamsInv /\ RankIsClean)'
  <2> SUFFICES ASSUME TeamsInv, RankIsClean, [Next]_vars
               PROVE  (TeamsInv /\ RankIsClean)'
    OBVIOUS
  <2>1. CASE Next
    BY <2>1, NextTeams DEF Keeps
  <2>2. CASE UNCHANGED vars
    BY <2>2 DEF vars, TeamsInv, RankIsClean
  <2> QED BY <2>1, <2>2
<1> QED BY <1>1, <1>2, PTL DEF Spec

\* A team is EMPTY exactly when nobody is in it, and nothing is left then of its
\* last round.
THEOREM EmptyTeams == Spec => []EmptyTeamsAreFresh
<1>1. TeamsInv => EmptyTeamsAreFresh
  BY DEF TeamsInv, HelperInv, FreshInv, EmptyTeamsAreFresh
<1> QED BY <1>1, TeamsInvariant, PTL

\* Nobody gets a rank with a character that has raced in practice mode.
THEOREM CleanRanks == Spec => []RankIsClean
<1> QED BY TeamsInvariant, PTL

\* A team that can no longer finish does not.
THEOREM Unfinishable == Spec => UnfinishableStays
<1> DEFINE A == \A t \in Teams : g.m_aTeamState[t] = "UNFINISHABLE" =>
                  g'.m_aTeamState[t] \in {"UNFINISHABLE", "OPEN", "EMPTY"}
<1>1. TeamsInv /\ [Next]_vars => [A]_vars
  BY NextTeams DEF Keeps
<1> QED BY <1>1, TeamsInvariant, PTL DEF Spec, UnfinishableStays

\* Nobody joins a team on his own while it is being saved or loaded.
THEOREM ClosedWhileSaving == Spec => SavingIsClosed
<1> DEFINE A == \A t \in Teams \ {FLOCK} : GetSaving(g, t) /\ GetSaving(g', t) =>
                  Members(g', t) \subseteq Members(g, t)
<1>1. TeamsInv /\ [Next]_vars => [A]_vars
  BY NextTeams DEF Keeps
<1> QED BY <1>1, TeamsInvariant, PTL DEF Spec, SavingIsClosed
=============================================================================
