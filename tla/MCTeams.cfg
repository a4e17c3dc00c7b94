CONSTANTS
  Clients = {a, b}
  NumTeams = 1
  MaxTeamSize = 2
  RejoinTeam0 = TRUE
  MaxSaves = 1
SPECIFICATION Spec
SYMMETRY Symm
INVARIANTS EmptyTeamsAreFresh RankIsClean
PROPERTIES UnfinishableStays SavingIsClosed
