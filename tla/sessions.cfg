CONSTANTS
  u1 = u1  u2 = u2  ana = ana  bob = bob
  anasMail = anasMail  bobsMail = bobsMail
  typedUpper = typedUpper  typedBob = typedBob
  secret = secret  NoPassword = NoPassword
  browser = browser  Null = Null
  r1 = r1  r2 = r2
  UserIds <- MC_UserIds
  Emails <- MC_Emails
  Usernames <- MC_Usernames
  Passwords <- MC_Passwords
  TypedEmails <- MC_TypedEmails
  normalised <- MC_normalised
  InitialUsers <- MC_InitialUsers
  Requests <- MC_Requests
  Browsers <- MC_Browsers
  BrowserOf <- MC_BrowserOf
  MaxAge = 1
  MaxEdits = 2
SPECIFICATION SessionsSpec
INVARIANTS
  SessionsTypeOK
  ClaimsWereTrue
  SessionsIInv
PROPERTIES
  SignInIsAtomic
  SessionsOnlyBySignIn
  UnusedSessionsEnd
