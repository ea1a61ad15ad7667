CONSTANTS
  Null = Null
  u1 = u1  u2 = u2  ghostUser = ghostUser
  m1 = m1  ghostMatch = ghostMatch  notUuid = notUuid
  r1 = r1  r2 = r2  r3 = r3  c1 = c1  c2 = c2
  UserIds = {u1, u2}
  Users = {u1, u2}
  MatchIds = {m1}
  Matches = {m1}
  NonUuids = {}
  KickoffAt <- MC_KickoffAt
  PredictionIds = {r1, r2}
  ScoreRequests = {c1, c2}
  ApiFootballIdRequired = TRUE
  Bodies <- MC_OneBody
  Results <- MC_Results
  InitialStatuses <- MC_Scheduled
  MaxTime = 1
  MaxFaults = 0
SPECIFICATION Spec
SYMMETRY MC_Symmetry
CHECK_DEADLOCK FALSE
INVARIANT FinalScoreIsRecorded
