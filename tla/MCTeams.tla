------------------------------- MODULE MCTeams -------------------------------
EXTENDS Teams, TLC
Symm == Permutations(Clients)
=============================================================================
