SPECIFICATION TeamsFairSpec
CONSTANTS
  NumClients = 2
  NumTeams = 1
  MaxTeamSize = 2
  MaxRuns = 1
INVARIANTS TeamsInv FairRank RunOnce
PROPERTIES TeamsSettle
CHECK_DEADLOCK FALSE
