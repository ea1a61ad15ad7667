CONSTANTS
  argentina = argentina  brazil = brazil  uruguay = uruguay
  m1 = m1  u1 = u1  u2 = u2
  GROUP = GROUP  badText = badText
  s1 = s1  s2 = s2
  NoRow = NoRow  NoValue = NoValue
  Teams <- MC_Teams
  TEAMS <- MC_TEAMS
  Matches <- MC_Matches
  Users <- MC_Users
  Texts <- MC_Texts
  Castable <- MC_Castable
  Ids <- MC_Ids
  Seeds <- MC_Seeds
  MaxEdits = 2
SPECIFICATION DatabaseSetupSpec
PROPERTY RefusesOnlyBadData
