------------------------------ MODULE Sessions ------------------------------
(* Sign-in and sessions (src/src/modules/auth): authorizeUser and the        *)
(* callbacks of authOptions, for browsers with several requests in flight.   *)
(*                                                                           *)
(* External, modelled from how the code uses it: NextAuth with the strategy  *)
(* jwt, which keeps no session but in the browser's cookie, answers a valid  *)
(* one with the token encoded anew, clears an expired one, and calls the     *)
(* callbacks; bcrypt, where comparing with a hash is comparing with the      *)
(* password it was made of; and whoever edits users, since no code here does.*)
EXTENDS Naturals, Sequences

CONSTANTS UserIds, Emails, Usernames, Passwords,
          NoPassword,    \* a password_hash no password has: '' or the dummy
          TypedEmails,   \* what users type for an email
          normalised,    \* toLowerCase().trim() of it
          InitialUsers,  \* the users table at the start
          Requests,
          Browsers,
          BrowserOf,     \* the browser that sends the request
          MaxAge,        \* session.maxAge, in units of the clock
          MaxEdits,      \* bound: edits of users
          Null

Rows == [email : Emails, username : Usernames,
         passwordHash : Passwords \cup {NoPassword}]

Tables == [UserIds -> Rows \cup {Null}]

(* users_email_key and users_username_key.                                   *)
uniqueKeys(table) ==
    \A u, v \in UserIds :
      u # v /\ table[u] # Null /\ table[v] # Null
        => /\ table[u].email # table[v].email
           /\ table[u].username # table[v].username

ASSUME SessionsAssumption ==
    /\ normalised \in [TypedEmails -> Emails]
    /\ NoPassword \notin Passwords
    /\ Null \notin TypedEmails \cup Passwords
    /\ InitialUsers \in Tables /\ uniqueKeys(InitialUsers)
    /\ BrowserOf \in [Requests -> Browsers]
    /\ MaxAge \in Nat /\ MaxEdits \in Nat

VARIABLES usersLog,   \* history: users after each edit; the last one is users
          pc,         \* where each request is
          typed,      \* the credentials of a sign-in
          found,      \* what its lookup returned
          lookedUp,   \* history: the length of usersLog at that lookup
          carried,    \* the token that the request brings or, once it is served,
                      \* the response sets; Null clears the cookie
          cookie      \* the session cookie of each browser

requestVars == <<pc, typed, found, lookedUp, carried>>
sessionsVars == <<usersLog, requestVars, cookie>>

users == usersLog[Len(usersLog)]

Claims == [userId : UserIds, username : Usernames]

(* A token: the claims, how long it is still valid, and, for the history,    *)
(* the version of users that its sign-in looked at.                          *)
Tokens == [claims : Claims, ttl : 0 .. MaxAge, at : Nat \ {0}]

Credentials == [email : TypedEmails, password : Passwords]

Records == [userId : UserIds, username : Usernames,
            passwordHash : Passwords \cup {NoPassword}]

ASSUME NullIsNoRecord ==
    /\ Null \notin Rows \cup Credentials \cup Records \cup Tokens \cup Claims
    /\ Null \notin [email : Emails, password : Passwords]

-----------------------------------------------------------------------------
(* UserRepository.findUserByEmail, one SELECT.                               *)
withEmail(email) == {u \in UserIds : users[u] # Null /\ users[u].email = email}

record(u) == [userId       |-> u,
              username     |-> users[u].username,
              passwordHash |-> users[u].passwordHash]

findUserByEmail(email) ==
    IF withEmail(email) = {} THEN Null ELSE record(CHOOSE u \in withEmail(email) : TRUE)

(* authorizeUser once the row is there: the hash of the row, or the dummy.   *)
hashToCompare(user) == IF user = Null THEN NoPassword ELSE user.passwordHash

\* mutant: && for || in the test for a refusal
authorizeAnyPassword(user, password) ==
    IF user = Null THEN Null
    ELSE [userId |-> user.userId, username |-> user.username]

authorizeUser(user, password) ==
    IF user = Null \/ password # hashToCompare(user) THEN Null
    ELSE [userId |-> user.userId, username |-> user.username]

(* The callbacks.  jwt has a user at sign-in only.                           *)
NoClaims == [userId |-> Null, username |-> Null]

\* mutant: the claims are copied whether or not there is a user
jwtAlways(claims, user) == IF user = Null THEN NoClaims ELSE user

jwt(claims, user) ==
    IF user = Null THEN claims
    ELSE [claims EXCEPT !.userId = user.userId, !.username = user.username]

session(claims) == [userId |-> claims.userId, username |-> claims.username]

(* NextAuth encodes a token for maxAge and accepts it no longer than that.   *)
encode(claims, at) == [claims |-> claims, ttl |-> MaxAge, at |-> at]

\* mutant: tokens do not expire
usableAlways(token) == token # Null

usable(token) == token # Null /\ token.ttl > 0

-----------------------------------------------------------------------------
SessionsInit ==
    /\ usersLog = <<InitialUsers>>
    /\ pc = [r \in Requests |-> "idle"]
    /\ typed = [r \in Requests |-> Null]
    /\ found = [r \in Requests |-> Null]
    /\ lookedUp = [r \in Requests |-> 0]
    /\ carried = [r \in Requests |-> Null]
    /\ cookie = [b \in Browsers |-> Null]

goes(r, step) == pc' = [pc EXCEPT ![r] = step]

(* POST /api/auth/callback/credentials, up to the first await.  A sign-in    *)
(* without an email or a password is refused at once.                        *)
SignIn(r) ==
    /\ pc[r] = "idle"
    /\ \/ /\ \E c \in Credentials : typed' = [typed EXCEPT ![r] = c]
          /\ goes(r, "lookup")
       \/ UNCHANGED typed /\ goes(r, "answer")
    /\ UNCHANGED <<usersLog, found, lookedUp, carried, cookie>>

FindUserByEmail(r) ==
    /\ pc[r] = "lookup"
    /\ found' = [found EXCEPT ![r] = findUserByEmail(normalised[typed[r].email])]
    /\ lookedUp' = [lookedUp EXCEPT ![r] = Len(usersLog)]
    /\ goes(r, "compare")
    /\ UNCHANGED <<usersLog, typed, carried, cookie>>

\* mutant: the username is read again once the password is found right
CompareAndReread(r) ==
    LET user == authorizeUser(found[r], typed[r].password) IN
    /\ pc[r] = "compare"
    /\ IF user = Null \/ users[user.userId] = Null
         THEN goes(r, "answer") /\ UNCHANGED carried
         ELSE /\ carried' = [carried EXCEPT ![r] =
                   encode(jwt(NoClaims, [user EXCEPT !.username = users[user.userId].username]), lookedUp[r])]
              /\ goes(r, "setCookie")
    /\ found' = [found EXCEPT ![r] = Null]
    /\ UNCHANGED <<usersLog, typed, lookedUp, cookie>>

(* bcrypt.compare resolves; authorize returns, and a user makes a token.     *)
Compare(r) ==
    LET user == authorizeUser(found[r], typed[r].password) IN
    /\ pc[r] = "compare"
    /\ IF user = Null
         THEN goes(r, "answer") /\ UNCHANGED carried
         ELSE /\ carried' = [carried EXCEPT ![r] =
                                 encode(jwt(NoClaims, user), lookedUp[r])]
              /\ goes(r, "setCookie")
    /\ found' = [found EXCEPT ![r] = Null]
    /\ UNCHANGED <<usersLog, typed, lookedUp, cookie>>

(* GET /api/auth/session leaves with the cookie that the browser has by now. *)
ReadSession(r) ==
    /\ pc[r] = "idle"
    /\ cookie[BrowserOf[r]] # Null
    /\ carried' = [carried EXCEPT ![r] = cookie[BrowserOf[r]]]
    /\ goes(r, "read")
    /\ UNCHANGED <<usersLog, typed, found, lookedUp, cookie>>

(* It is served: the token is decoded, and encoded anew if it is still valid.*)
Renew(r) ==
    /\ pc[r] = "read"
    /\ carried' = [carried EXCEPT ![r] =
                     IF usable(@) THEN encode(jwt(@.claims, Null), @.at) ELSE Null]
    /\ goes(r, "setCookie")
    /\ UNCHANGED <<usersLog, typed, found, lookedUp, cookie>>

(* POST /api/auth/signout                                                    *)
SignOut(r) ==
    /\ pc[r] = "idle"
    /\ goes(r, "setCookie")
    /\ UNCHANGED <<usersLog, typed, found, lookedUp, carried, cookie>>

finished(r) ==
    /\ goes(r, "idle")
    /\ typed' = [typed EXCEPT ![r] = Null]
    /\ found' = [found EXCEPT ![r] = Null]
    /\ lookedUp' = [lookedUp EXCEPT ![r] = 0]
    /\ carried' = [carried EXCEPT ![r] = Null]

(* Responses arrive in any order, and each sets what it carries.             *)
ResponseArrives(r) ==
    /\ pc[r] \in {"answer", "setCookie"}
    /\ IF pc[r] = "setCookie"
         THEN cookie' = [cookie EXCEPT ![BrowserOf[r]] = carried[r]]
         ELSE UNCHANGED cookie
    /\ finished(r)
    /\ UNCHANGED usersLog

(* A query rejects, the process ends, or the response is lost.               *)
RequestFails(r) ==
    /\ pc[r] # "idle"
    /\ finished(r)
    /\ UNCHANGED <<usersLog, cookie>>

(* Somebody inserts, updates or deletes a row of users.                      *)
EditUser(u) ==
    /\ Len(usersLog) <= MaxEdits
    /\ \E row \in Rows \cup {Null} :
         LET table == [users EXCEPT ![u] = row] IN
         /\ row # users[u]
         /\ uniqueKeys(table)
         /\ usersLog' = Append(usersLog, table)
    /\ UNCHANGED <<requestVars, cookie>>

(* Time passes, while there is a token that grows older.                     *)
aged(token) ==
    IF token # Null /\ token.ttl > 0 THEN [token EXCEPT !.ttl = @ - 1] ELSE token

Tick ==
    /\ cookie' = [b \in Browsers |-> aged(cookie[b])]
    /\ carried' = [r \in Requests |-> aged(carried[r])]
    /\ <<cookie', carried'>> # <<cookie, carried>>
    /\ UNCHANGED <<usersLog, pc, typed, found, lookedUp>>

Serves(r) ==
    \/ FindUserByEmail(r) \/ Compare(r) \/ Renew(r)
    \/ ResponseArrives(r) \/ RequestFails(r)

SessionsNext ==
    \/ \E r \in Requests : SignIn(r) \/ ReadSession(r) \/ SignOut(r) \/ Serves(r)
    \/ \E u \in UserIds : EditUser(u)
    \/ Tick

SessionsSpec ==
    /\ SessionsInit /\ [][SessionsNext]_sessionsVars
    /\ \A r \in Requests : WF_sessionsVars(Serves(r))
    /\ WF_sessionsVars(Tick)

-----------------------------------------------------------------------------
(* Types, and no token without its claims.                                   *)
SessionsTypeOK ==
    /\ usersLog \in Seq(Tables) /\ Len(usersLog) > 0
    /\ pc \in [Requests -> {"idle", "lookup", "compare", "read", "answer", "setCookie"}]
    /\ typed \in [Requests -> Credentials \cup {Null}]
    /\ found \in [Requests -> Records \cup {Null}]
    /\ lookedUp \in [Requests -> Nat]
    /\ carried \in [Requests -> Tokens \cup {Null}]
    /\ cookie \in [Browsers -> Tokens \cup {Null}]

(* The tokens there are, in cookies, requests and responses.                 *)
tokens == ({cookie[b] : b \in Browsers} \cup {carried[r] : r \in Requests}) \ {Null}

(* The session that a token stands for names a user and a username of one    *)
(* row, as it was when the sign-in looked it up.  Rows that change while the *)
(* password is compared, renewals of the token and responses that overtake   *)
(* each other never mix two users, nor two versions of one.                  *)
sessionWasTrue(token) ==
    /\ token.at <= Len(usersLog)
    /\ LET row == usersLog[token.at][token.claims.userId] IN
         /\ row # Null
         /\ session(token.claims) = [userId   |-> token.claims.userId,
                                     username |-> row.username]

ClaimsWereTrue == \A token \in tokens : sessionWasTrue(token)

(* The inductive invariant: the above, one user for an email, and what a     *)
(* request holds between its steps, the row it found above all.              *)
requestHolds(r) ==
    /\ pc[r] \in {"idle", "read"} => typed[r] = Null
    /\ pc[r] \in {"lookup", "compare"} => typed[r] # Null
    /\ pc[r] = "setCookie" /\ typed[r] # Null => carried[r] # Null
    /\ pc[r] \notin {"read", "setCookie"} => carried[r] = Null

foundWasTrue(r) ==
    pc[r] = "compare" =>
      /\ lookedUp[r] \in 1 .. Len(usersLog)
      /\ found[r] # Null =>
           LET row == usersLog[lookedUp[r]][found[r].userId] IN
           row # Null /\ row.username = found[r].username

SessionsIInv ==
    /\ SessionsTypeOK
    /\ ClaimsWereTrue
    /\ uniqueKeys(users)
    /\ \A r \in Requests : requestHolds(r) /\ foundWasTrue(r)

(* A sign-in takes effect at one instant, that of its lookup, although the   *)
(* comparison and the response come later.                                   *)
granted(user) == IF user = Null THEN {} ELSE {user}

decisionOf(r) ==
    IF typed[r] = Null \/ pc[r] = "lookup" THEN {Null}
    ELSE IF pc[r] = "compare" THEN granted(authorizeUser(found[r], typed[r].password))
    ELSE IF pc[r] = "setCookie" THEN {carried[r].claims}
    ELSE {}

presented(r) ==
    IF typed[r] = Null THEN Null
    ELSE [email |-> normalised[typed[r].email], password |-> typed[r].password]

Decision == INSTANCE SignInDecision WITH
    users <- users,
    asked <- [r \in Requests |-> presented(r)],
    decision <- [r \in Requests |-> decisionOf(r)]

SignInIsAtomic == Decision!DecisionSpec

(* The tokens of a browser that NextAuth would still accept: its cookie and  *)
(* what its requests and the responses to them carry.                        *)
validTokens(b) ==
    {token \in {cookie[b]} \cup {carried[r] : r \in {q \in Requests : BrowserOf[q] = b}} :
       token # Null /\ token.ttl > 0}

renews(new, old) == new.claims = old.claims /\ new.at = old.at

(* Request r has presented the password of the row it found, and the token   *)
(* names that row.                                                           *)
signsIn(r, new) ==
    /\ pc[r] = "compare"
    /\ found[r] # Null /\ typed[r].password = found[r].passwordHash
    /\ new.claims = [userId |-> found[r].userId, username |-> found[r].username]
    /\ new.at = lookedUp[r]

(* A browser is signed in as before or by a sign-in of its own with the      *)
(* password on record: once its session has expired or been signed out, and  *)
(* no request or response on its way carries a valid token, nothing else     *)
(* brings a session back, nor that of anyone else (authorizeUser.ts:27-35,   *)
(* authOptions.ts:69-88).                                                    *)
SessionsOnlyBySignIn ==
    [][\A b \in Browsers : \A new \in validTokens(b)' :
         \/ \E old \in validTokens(b) : renews(new, old)
         \/ \E r \in Requests : BrowserOf[r] = b /\ signsIn(r, new)]_sessionsVars

(* The claims of a token are renewed for as long as it is used, but no       *)
(* longer: a browser that stops asking is signed out in the end, whatever    *)
(* responses are still on their way.                                         *)
Asks == \E r \in Requests : ReadSession(r) \/ SignIn(r)

UnusedSessionsEnd ==
    []<><<Asks>>_sessionsVars \/ <>[](\A b \in Browsers : ~usable(cookie[b]))
=============================================================================
