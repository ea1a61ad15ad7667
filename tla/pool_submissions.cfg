CONSTANTS
  Null = Null
  u1 = u1  u2 = u2  ghostUser = ghostUser
  m1 = m1  ghostMatch = ghostMatch  notUuid = notUuid
  r1 = r1  r2 = r2  r3 = r3  c1 = c1  c2 = c2
  UserIds = {u1, ghostUser}
  Users = {u1}
  MatchIds = {m1, ghostMatch, notUuid}
  Matches = {m1}
  NonUuids = {notUuid}
  KickoffAt <- MC_KickoffAt
  PredictionIds = {r1, r2, r3}
  ScoreRequests = {c1}
  ApiFootballIdRequired = FALSE
  Bodies <- MC_Bodies
  Results <- MC_BadResult
  InitialStatuses <- MC_Postponed
  MaxTime = 1
  MaxFaults = 1
SPECIFICATION Spec
SYMMETRY MC_Symmetry
CHECK_DEADLOCK FALSE
INVARIANTS
  TypeOK
  UniquePrediction
  ReplyTruthful
  ConflictJustified
  AdmittedInTime
