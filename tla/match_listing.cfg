CONSTANTS
  Null = Null
  NaN = NaN
  m1 = m1  m2 = m2  l1 = l1  l2 = l2
  UserIds = {}
  Users = {}
  MatchIds = {m1, m2}
  Matches = {m1, m2}
  NonUuids = {}
  KickoffAt <- MC_KickoffAt
  PredictionIds = {}
  ScoreRequests = {}
  ApiFootballIdRequired = FALSE
  Bodies = {}
  Results = {}
  InitialStatuses = {"SCHEDULED"}
  ListRequests = {l1, l2}
  LimitParams <- MC_LimitParams
  CacheTtl = 1
  MaxTime = 2
  MaxFaults = 1
SPECIFICATION ListingSpec
SYMMETRY MC_Symmetry
INVARIANTS
  ListingTypeOK
  AnswerIsComplete
  AnswerIsRecent
  ListingIInv
