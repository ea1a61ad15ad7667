-------------------------- MODULE SessionsTheorems --------------------------
(* Proofs about Sessions, for any users, browsers, requests, lifetime of a   *)
(* token and number of edits.                                                *)
EXTENDS Sessions, SequenceTheorems, TLAPS

(* The table that is in force is a table of the log.                         *)
LEMMA UsersIsTable ==
    ASSUME SessionsTypeOK
    PROVE  users \in Tables /\ Len(usersLog) \in Nat \ {0}
<1>1. usersLog \in Seq(Tables) /\ Len(usersLog) > 0
  BY DEF SessionsTypeOK
<1>2. Len(usersLog) \in 1 .. Len(usersLog)
  BY <1>1
<1> QED
  BY <1>1, <1>2 DEF users

(* findUserByEmail returns nothing, or what the row of one user holds.       *)
LEMMA FindsARow ==
    ASSUME SessionsTypeOK, NEW e \in Emails
    PROVE  \/ findUserByEmail(e) = Null /\ withEmail(e) = {}
           \/ \E u \in withEmail(e) : findUserByEmail(e) = record(u) /\ record(u) \in Records
<1>1. CASE withEmail(e) = {}
  BY <1>1 DEF findUserByEmail
<1>2. CASE withEmail(e) # {}
  <2> DEFINE u == CHOOSE x \in withEmail(e) : TRUE
  <2>1. u \in withEmail(e)
    BY <1>2
  <2>2. users[u] \in Rows /\ u \in UserIds
    BY <2>1, UsersIsTable DEF withEmail, Tables
  <2>3. record(u) \in Records
    BY <2>2 DEF record, Records, Rows
  <2>4. findUserByEmail(e) = record(u)
    BY <1>2 DEF findUserByEmail
  <2> QED
    BY <2>1, <2>3, <2>4
<1> QED
  BY <1>1, <1>2

(* authorizeUser returns nothing, or claims of the record it was given.      *)
LEMMA AuthorizesTheRecord ==
    ASSUME NEW user \in Records \cup {Null}, NEW password
    PROVE  LET claims == authorizeUser(user, password) IN
           \/ claims = Null
           \/ /\ user # Null
              /\ claims \in Claims
              /\ claims = [userId |-> user.userId, username |-> user.username]
  BY DEF authorizeUser, Records, Claims

(* The token of a sign-in, and a token renewed.                              *)
LEMMA EncodesTokens ==
    ASSUME NEW claims \in Claims, NEW at \in Nat \ {0}
    PROVE  /\ jwt(NoClaims, claims) = claims
           /\ jwt(claims, Null) = claims
           /\ encode(claims, at) \in Tokens
           /\ encode(claims, at).claims = claims
           /\ encode(claims, at).at = at
<1>1. claims # Null /\ MaxAge \in Nat
  BY NullIsNoRecord, SessionsAssumption
<1>2. jwt(NoClaims, claims) = claims
  BY <1>1 DEF jwt, NoClaims, Claims
<1>3. MaxAge \in 0 .. MaxAge
  BY <1>1
<1> QED
  BY <1>2, <1>3 DEF jwt, encode, Tokens

(* Growing older changes nothing but the time a token has left.              *)
LEMMA AgedKeepsClaims ==
    ASSUME NEW token \in Tokens \cup {Null}
    PROVE  /\ aged(token) \in Tokens \cup {Null}
           /\ (aged(token) = Null) <=> (token = Null)
           /\ token # Null => /\ aged(token).claims = token.claims
                              /\ aged(token).at = token.at
<1>1. CASE token = Null
  BY <1>1 DEF aged
<1>2. CASE token # Null
  <2>1. token \in Tokens /\ MaxAge \in Nat /\ Null \notin Tokens
    BY <1>2, NullIsNoRecord, SessionsAssumption
  <2>2. token.ttl > 0 => token.ttl - 1 \in 0 .. MaxAge
    BY <2>1 DEF Tokens
  <2> QED
    BY <2>1, <2>2 DEF aged, Tokens
<1> QED
  BY <1>1, <1>2

-----------------------------------------------------------------------------
(* Init                                                                      *)
LEMMA InitHolds == SessionsInit => SessionsIInv
<1> SUFFICES ASSUME SessionsInit PROVE SessionsIInv
  OBVIOUS
<1> USE DEF SessionsInit
<1>1. usersLog \in Seq(Tables) /\ Len(usersLog) = 1 /\ users = InitialUsers
  BY SessionsAssumption DEF users
<1>2. SessionsTypeOK
  BY <1>1 DEF SessionsTypeOK
<1>3. ClaimsWereTrue
  BY DEF ClaimsWereTrue, tokens
<1>4. \A r \in Requests : requestHolds(r) /\ foundWasTrue(r)
  BY DEF requestHolds, foundWasTrue
<1> QED
  BY <1>1, <1>2, <1>3, <1>4, SessionsAssumption DEF SessionsIInv

-----------------------------------------------------------------------------
(* A step that leaves the log alone and makes no token but from the claims   *)
(* of another keeps all tokens true.                                         *)
LEMMA SameLog ==
    ASSUME SessionsIInv, UNCHANGED usersLog,
           \A t \in tokens' : \E old \in tokens : t.claims = old.claims /\ t.at = old.at
    PROVE  ClaimsWereTrue' /\ uniqueKeys(users)'
<1>1. ClaimsWereTrue'
  <2> SUFFICES ASSUME NEW t \in tokens' PROVE sessionWasTrue(t)'
    BY DEF ClaimsWereTrue
  <2>1. PICK old \in tokens : t.claims = old.claims /\ t.at = old.at
    OBVIOUS
  <2>2. sessionWasTrue(old)
    BY DEF SessionsIInv, ClaimsWereTrue
  <2> QED
    BY <2>1, <2>2 DEF sessionWasTrue, session
<1>2. uniqueKeys(users)'
  BY DEF SessionsIInv, users, uniqueKeys
<1> QED
  BY <1>1, <1>2

(* A request that ends holds nothing any more.                               *)
LEMMA FinishedHolds ==
    ASSUME SessionsIInv, NEW r \in Requests, finished(r), UNCHANGED usersLog,
           cookie' \in [Browsers -> Tokens \cup {Null}],
           \A b \in Browsers : cookie'[b] \in tokens \cup {Null}
    PROVE  SessionsIInv'
<1> USE DEF finished, goes
<1>1. SessionsTypeOK'
  BY DEF SessionsIInv, SessionsTypeOK
<1>2. \A t \in tokens' : t \in tokens
  BY DEF SessionsIInv, SessionsTypeOK, tokens
<1>3. ClaimsWereTrue' /\ uniqueKeys(users)'
  BY <1>2, SameLog
<1>4. ASSUME NEW q \in Requests PROVE (requestHolds(q) /\ foundWasTrue(q))'
  <2>1. requestHolds(q) /\ foundWasTrue(q)
    BY DEF SessionsIInv
  <2>2. CASE q = r
    BY <2>2 DEF requestHolds, foundWasTrue, SessionsIInv, SessionsTypeOK
  <2>3. CASE q # r
    BY <2>1, <2>3 DEF requestHolds, foundWasTrue, SessionsIInv, SessionsTypeOK
  <2> QED
    BY <2>2, <2>3
<1> QED
  BY <1>1, <1>3, <1>4 DEF SessionsIInv

LEMMA SignInHolds ==
    ASSUME SessionsIInv, NEW r \in Requests, SignIn(r)
    PROVE  SessionsIInv'
<1> USE DEF SignIn, goes
<1>1. SessionsTypeOK'
  BY DEF SessionsIInv, SessionsTypeOK
<1>2. ClaimsWereTrue' /\ uniqueKeys(users)'
  BY SameLog DEF tokens
<1>3. ASSUME NEW q \in Requests PROVE (requestHolds(q) /\ foundWasTrue(q))'
  <2>1. requestHolds(q) /\ foundWasTrue(q)
    BY DEF SessionsIInv
  <2> QED
    BY <2>1, NullIsNoRecord DEF requestHolds, foundWasTrue, SessionsIInv, SessionsTypeOK
<1> QED
  BY <1>1, <1>2, <1>3 DEF SessionsIInv

(* The row that is found is a row of the table as it is now.                 *)
LEMMA FindUserByEmailHolds ==
    ASSUME SessionsIInv, NEW r \in Requests, FindUserByEmail(r)
    PROVE  SessionsIInv'
<1> USE DEF FindUserByEmail, goes
<1> DEFINE e == normalised[typed[r].email]
<1>1. typed[r] # Null /\ e \in Emails
  BY SessionsAssumption DEF SessionsIInv, requestHolds, SessionsTypeOK, Credentials
<1>2. /\ users \in Tables /\ Len(usersLog) \in Nat \ {0}
      /\ users = usersLog[Len(usersLog)]
  BY UsersIsTable DEF SessionsIInv, users
<1>3. \/ findUserByEmail(e) = Null
      \/ \E u \in withEmail(e) : findUserByEmail(e) = record(u) /\ record(u) \in Records
  BY <1>1, FindsARow DEF SessionsIInv
<1>4. SessionsTypeOK'
  BY <1>2, <1>3 DEF SessionsIInv, SessionsTypeOK
<1>5. ClaimsWereTrue' /\ uniqueKeys(users)'
  BY SameLog DEF tokens
<1>6. ASSUME NEW q \in Requests PROVE (requestHolds(q) /\ foundWasTrue(q))'
  <2>1. requestHolds(q) /\ foundWasTrue(q)
    BY DEF SessionsIInv
  <2>2. CASE q = r
    <3>1. /\ pc'[q] = "compare" /\ lookedUp'[q] = Len(usersLog)
          /\ found'[q] = findUserByEmail(e)
      BY <2>2 DEF SessionsIInv, SessionsTypeOK
    <3>2. requestHolds(q)'
      BY <2>1, <2>2, <3>1 DEF requestHolds
    <3>3. found'[q] # Null =>
            /\ users[found'[q].userId] # Null
            /\ users[found'[q].userId].username = found'[q].username
      <4>1. CASE findUserByEmail(e) = Null
        BY <3>1, <4>1
      <4>2. ASSUME NEW u \in withEmail(e), found'[q] = record(u)
            PROVE  /\ users[found'[q].userId] # Null
                   /\ users[found'[q].userId].username = found'[q].username
        <5>1. users[u] # Null /\ record(u).userId = u /\ record(u).username = users[u].username
          BY DEF withEmail, record
        <5> QED
          BY <4>2, <5>1
      <4> QED
        BY <1>3, <3>1, <4>1, <4>2
    <3> QED
      BY <1>2, <3>1, <3>2, <3>3 DEF foundWasTrue
  <2>3. CASE q # r
    BY <2>1, <2>3 DEF requestHolds, foundWasTrue, SessionsIInv, SessionsTypeOK
  <2> QED
    BY <2>2, <2>3
<1> QED
  BY <1>4, <1>5, <1>6 DEF SessionsIInv

(* The claims that are granted are those of the row that was found.          *)
LEMMA CompareHolds ==
    ASSUME SessionsIInv, NEW r \in Requests, Compare(r)
    PROVE  SessionsIInv'
<1> DEFINE user == authorizeUser(found[r], typed[r].password)
           at == lookedUp[r]
           token == encode(jwt(NoClaims, user), at)
<1>1. /\ pc[r] = "compare" /\ found[r] \in Records \cup {Null} /\ carried[r] = Null
      /\ typed[r] # Null /\ foundWasTrue(r)
  BY DEF Compare, SessionsIInv, SessionsTypeOK, requestHolds
<1>2. \/ user = Null
      \/ /\ found[r] # Null /\ user \in Claims
         /\ user = [userId |-> found[r].userId, username |-> found[r].username]
  BY <1>1, AuthorizesTheRecord
<1>3. /\ UNCHANGED <<usersLog, typed, lookedUp, cookie>>
      /\ found' = [found EXCEPT ![r] = Null]
  BY DEF Compare
<1>4. CASE user = Null
  <2>1. pc' = [pc EXCEPT ![r] = "answer"] /\ UNCHANGED carried
    BY <1>4 DEF Compare, goes
  <2>2. SessionsTypeOK'
    BY <1>3, <2>1 DEF SessionsIInv, SessionsTypeOK
  <2>3. ClaimsWereTrue' /\ uniqueKeys(users)'
    BY <1>3, <2>1, SameLog DEF tokens
  <2>4. ASSUME NEW q \in Requests PROVE (requestHolds(q) /\ foundWasTrue(q))'
    <3>1. requestHolds(q) /\ foundWasTrue(q)
      BY DEF SessionsIInv
    <3> QED
      BY <1>1, <1>3, <2>1, <3>1 DEF requestHolds, foundWasTrue, SessionsIInv, SessionsTypeOK
  <2> QED
    BY <2>2, <2>3, <2>4 DEF SessionsIInv
<1>5. CASE user # Null
  <2>1. pc' = [pc EXCEPT ![r] = "setCookie"] /\ carried' = [carried EXCEPT ![r] = token]
    BY <1>5 DEF Compare, goes
  <2>2. at \in Nat \ {0} /\ at <= Len(usersLog)
    BY <1>1 DEF foundWasTrue, SessionsIInv, SessionsTypeOK
  <2>3. token \in Tokens /\ token.claims = user /\ token.at = at
    BY <1>2, <1>5, <2>2, EncodesTokens
  <2>4. SessionsTypeOK'
    BY <1>3, <2>1, <2>3 DEF SessionsIInv, SessionsTypeOK
  <2>5. sessionWasTrue(token)
    <3>1. /\ usersLog[at][found[r].userId] # Null
          /\ usersLog[at][found[r].userId].username = found[r].username
      BY <1>1, <1>2, <1>5 DEF foundWasTrue
    <3>2. token.claims.userId = found[r].userId /\ token.claims.username = found[r].username
      BY <1>2, <1>5, <2>3
    <3> QED
      BY <2>2, <2>3, <3>1, <3>2 DEF sessionWasTrue, session
  <2>6. ASSUME NEW t \in tokens' PROVE sessionWasTrue(t)'
    <3>1. t \in tokens \/ t = token
      BY <1>3, <2>1 DEF SessionsIInv, SessionsTypeOK, tokens
    <3>2. sessionWasTrue(t)
      BY <2>5, <3>1 DEF SessionsIInv, ClaimsWereTrue
    <3> QED
      BY <1>3, <3>2 DEF sessionWasTrue, session
  <2>7. uniqueKeys(users)'
    BY <1>3 DEF SessionsIInv, users, uniqueKeys
  <2>8. ASSUME NEW q \in Requests PROVE (requestHolds(q) /\ foundWasTrue(q))'
    <3>1. requestHolds(q) /\ foundWasTrue(q)
      BY DEF SessionsIInv
    <3>2. token # Null
      BY <2>3, NullIsNoRecord
    <3> QED
      BY <1>1, <1>3, <2>1, <3>1, <3>2 DEF requestHolds, foundWasTrue, SessionsIInv, SessionsTypeOK
  <2> QED
    BY <2>4, <2>6, <2>7, <2>8 DEF SessionsIInv, ClaimsWereTrue
<1> QED
  BY <1>4, <1>5

(* A session read leaves with the token of the cookie.                       *)
LEMMA ReadSessionHolds ==
    ASSUME SessionsIInv, NEW r \in Requests, ReadSession(r)
    PROVE  SessionsIInv'
<1> DEFINE token == cookie[BrowserOf[r]]
<1>1. /\ token \in Tokens /\ token \in tokens
      /\ pc[r] = "idle" /\ typed[r] = Null
  BY SessionsAssumption DEF ReadSession, SessionsIInv, SessionsTypeOK, tokens, requestHolds
<1>2. /\ UNCHANGED <<usersLog, typed, found, lookedUp, cookie>>
      /\ pc' = [pc EXCEPT ![r] = "read"] /\ carried' = [carried EXCEPT ![r] = token]
  BY DEF ReadSession, goes
<1>3. SessionsTypeOK'
  BY <1>1, <1>2 DEF SessionsIInv, SessionsTypeOK
<1>4. ClaimsWereTrue' /\ uniqueKeys(users)'
  <2>1. \A t \in tokens' : t \in tokens
    BY <1>1, <1>2 DEF SessionsIInv, SessionsTypeOK, tokens
  <2> QED
    BY <1>2, <2>1, SameLog
<1>5. ASSUME NEW q \in Requests PROVE (requestHolds(q) /\ foundWasTrue(q))'
  <2>1. requestHolds(q) /\ foundWasTrue(q)
    BY DEF SessionsIInv
  <2> QED
    BY <1>1, <1>2, <2>1 DEF requestHolds, foundWasTrue, SessionsIInv, SessionsTypeOK
<1> QED
  BY <1>3, <1>4, <1>5 DEF SessionsIInv

(* A renewed token has the claims of the one that the request carried.       *)
LEMMA Renewal ==
    ASSUME SessionsIInv, NEW r \in Requests, Renew(r)
    PROVE  /\ UNCHANGED <<usersLog, typed, found, lookedUp, cookie>>
           /\ pc[r] = "read" /\ pc' = [pc EXCEPT ![r] = "setCookie"]
           /\ carried' = [carried EXCEPT ![r] = carried'[r]]
           /\ \/ carried'[r] = Null
              \/ /\ usable(carried[r]) /\ carried[r] \in Tokens /\ carried'[r] \in Tokens
                 /\ carried'[r].claims = carried[r].claims /\ carried'[r].at = carried[r].at
<1> DEFINE token == carried[r]
<1>1. /\ UNCHANGED <<usersLog, typed, found, lookedUp, cookie>>
      /\ pc[r] = "read" /\ pc' = [pc EXCEPT ![r] = "setCookie"]
      /\ carried' = [carried EXCEPT ![r] = carried'[r]]
      /\ carried'[r] = IF usable(token) THEN encode(jwt(token.claims, Null), token.at) ELSE Null
  BY DEF Renew, goes, SessionsIInv, SessionsTypeOK
<1>2. CASE usable(token)
  <2>1. token \in Tokens /\ token.claims \in Claims /\ token.at \in Nat \ {0}
    BY <1>2 DEF SessionsIInv, SessionsTypeOK, Tokens, usable
  <2> QED
    BY <1>1, <1>2, <2>1, EncodesTokens
<1> QED
  BY <1>1, <1>2

LEMMA RenewHolds ==
    ASSUME SessionsIInv, NEW r \in Requests, Renew(r)
    PROVE  SessionsIInv'
<1>1. typed[r] = Null
  BY Renewal DEF SessionsIInv, requestHolds
<1>2. SessionsTypeOK'
  <2>1. carried'[r] \in Tokens \cup {Null}
    BY Renewal
  <2>2. carried' \in [Requests -> Tokens \cup {Null}]
    <3> DEFINE new == carried'[r]
    <3>1. carried' = [carried EXCEPT ![r] = new] /\ new \in Tokens \cup {Null}
      BY <2>1, Renewal
    <3> HIDE DEF new
    <3> QED
      BY <3>1 DEF SessionsIInv, SessionsTypeOK
  <2> QED
    BY <2>2, Renewal DEF SessionsIInv, SessionsTypeOK
<1>3. ClaimsWereTrue' /\ uniqueKeys(users)'
  <2>1. \A t \in tokens' : t \in tokens \/ (t = carried'[r] /\ t # Null)
    BY Renewal DEF SessionsIInv, SessionsTypeOK, tokens
  <2>2. carried'[r] # Null => carried[r] \in tokens
    BY Renewal DEF tokens, usable
  <2>3. \A t \in tokens' : \E old \in tokens : t.claims = old.claims /\ t.at = old.at
    BY Renewal, <2>1, <2>2
  <2> QED
    BY Renewal, <2>3, SameLog
<1>4. ASSUME NEW q \in Requests PROVE (requestHolds(q) /\ foundWasTrue(q))'
  <2>1. requestHolds(q) /\ foundWasTrue(q)
    BY DEF SessionsIInv
  <2> QED
    BY Renewal, <1>1, <2>1 DEF requestHolds, foundWasTrue, SessionsIInv, SessionsTypeOK
<1> QED
  BY <1>2, <1>3, <1>4 DEF SessionsIInv

LEMMA SignOutHolds ==
    ASSUME SessionsIInv, NEW r \in Requests, SignOut(r)
    PROVE  SessionsIInv'
<1> USE DEF SignOut, goes
<1>1. SessionsTypeOK'
  BY DEF SessionsIInv, SessionsTypeOK
<1>2. ClaimsWereTrue' /\ uniqueKeys(users)'
  BY SameLog DEF tokens
<1>3. ASSUME NEW q \in Requests PROVE (requestHolds(q) /\ foundWasTrue(q))'
  <2>1. requestHolds(q) /\ foundWasTrue(q)
    BY DEF SessionsIInv
  <2> QED
    BY <2>1 DEF requestHolds, foundWasTrue, SessionsIInv, SessionsTypeOK
<1> QED
  BY <1>1, <1>2, <1>3 DEF SessionsIInv

LEMMA ResponseHolds ==
    ASSUME SessionsIInv, NEW r \in Requests, ResponseArrives(r) \/ RequestFails(r)
    PROVE  SessionsIInv'
<1>1. finished(r) /\ UNCHANGED usersLog
  BY DEF ResponseArrives, RequestFails
<1>2. \/ cookie' = [cookie EXCEPT ![BrowserOf[r]] = carried[r]]
      \/ cookie' = cookie
  BY DEF ResponseArrives, RequestFails
<1>3. /\ cookie' \in [Browsers -> Tokens \cup {Null}]
      /\ \A b \in Browsers : cookie'[b] \in tokens \cup {Null}
  BY <1>2 DEF SessionsIInv, SessionsTypeOK, tokens
<1> QED
  BY <1>1, <1>3, FinishedHolds

(* What was true of an earlier table stays on record.                        *)
LEMMA EditUserHolds ==
    ASSUME SessionsIInv, NEW u \in UserIds, EditUser(u)
    PROVE  SessionsIInv'
<1>1. PICK row \in Rows \cup {Null} :
        /\ uniqueKeys([users EXCEPT ![u] = row])
        /\ usersLog' = Append(usersLog, [users EXCEPT ![u] = row])
  BY DEF EditUser
<1> DEFINE table == [users EXCEPT ![u] = row]
<1>2. UNCHANGED <<pc, typed, found, lookedUp, carried, cookie>>
  BY DEF EditUser, requestVars
<1>3. table \in Tables /\ usersLog \in Seq(Tables) /\ Len(usersLog) \in Nat
  BY UsersIsTable DEF SessionsIInv, SessionsTypeOK, Tables
<1>4. /\ usersLog' \in Seq(Tables)
      /\ Len(usersLog') = Len(usersLog) + 1
      /\ \A i \in 1 .. Len(usersLog) : usersLog'[i] = usersLog[i]
      /\ usersLog'[Len(usersLog) + 1] = table
  BY <1>1, <1>3
<1> HIDE DEF table
<1>5. SessionsTypeOK'
  BY <1>2, <1>3, <1>4 DEF SessionsIInv, SessionsTypeOK
<1>6. ASSUME NEW t \in tokens' PROVE sessionWasTrue(t)'
  <2>1. t \in tokens /\ t \in Tokens
    BY <1>2 DEF tokens, SessionsIInv, SessionsTypeOK
  <2>2. sessionWasTrue(t) /\ t.at \in Nat \ {0}
    BY <2>1 DEF SessionsIInv, ClaimsWereTrue, Tokens
  <2>3. t.at \in 1 .. Len(usersLog)
    BY <1>3, <2>2 DEF sessionWasTrue
  <2> QED
    BY <1>3, <1>4, <2>2, <2>3 DEF sessionWasTrue, session
<1>7. uniqueKeys(users)'
  <2>1. users' = table
    BY <1>4 DEF users
  <2> QED
    BY <1>1, <2>1 DEF uniqueKeys, table
<1>8. ASSUME NEW q \in Requests PROVE (requestHolds(q) /\ foundWasTrue(q))'
  <2>1. requestHolds(q) /\ foundWasTrue(q)
    BY DEF SessionsIInv
  <2>2. requestHolds(q)'
    BY <1>2, <2>1 DEF requestHolds
  <2>3. pc[q] = "compare" =>
          /\ lookedUp[q] \in 1 .. Len(usersLog')
          /\ usersLog'[lookedUp[q]] = usersLog[lookedUp[q]]
    BY <1>3, <1>4, <2>1 DEF foundWasTrue
  <2> QED
    BY <1>2, <2>1, <2>2, <2>3 DEF foundWasTrue
<1> QED
  BY <1>5, <1>6, <1>7, <1>8 DEF SessionsIInv, ClaimsWereTrue

LEMMA TickHolds ==
    ASSUME SessionsIInv, Tick
    PROVE  SessionsIInv'
<1>1. /\ UNCHANGED <<usersLog, pc, typed, found, lookedUp>>
      /\ cookie' = [b \in Browsers |-> aged(cookie[b])]
      /\ carried' = [r \in Requests |-> aged(carried[r])]
  BY DEF Tick
<1>2. /\ \A b \in Browsers : cookie[b] \in Tokens \cup {Null}
      /\ \A r \in Requests : carried[r] \in Tokens \cup {Null}
  BY DEF SessionsIInv, SessionsTypeOK
<1>3. SessionsTypeOK'
  <2>1. /\ \A b \in Browsers : aged(cookie[b]) \in Tokens \cup {Null}
        /\ \A r \in Requests : aged(carried[r]) \in Tokens \cup {Null}
    BY <1>2, AgedKeepsClaims
  <2> QED
    BY <1>1, <2>1 DEF SessionsIInv, SessionsTypeOK
<1>4. ASSUME NEW t \in tokens'
      PROVE  \E old \in tokens : t.claims = old.claims /\ t.at = old.at
  <2>1. PICK old \in Tokens \cup {Null} :
          /\ old \in {cookie[b] : b \in Browsers} \cup {carried[r] : r \in Requests}
          /\ t = aged(old) /\ t # Null
    BY <1>1, <1>2 DEF tokens
  <2>2. old # Null /\ t.claims = old.claims /\ t.at = old.at
    BY <2>1, AgedKeepsClaims
  <2> QED
    BY <2>1, <2>2 DEF tokens
<1>5. ClaimsWereTrue' /\ uniqueKeys(users)'
  BY <1>1, <1>4, SameLog
<1>6. ASSUME NEW q \in Requests PROVE (requestHolds(q) /\ foundWasTrue(q))'
  <2>1. requestHolds(q) /\ foundWasTrue(q)
    BY DEF SessionsIInv
  <2>2. carried'[q] = Null <=> carried[q] = Null
    BY <1>1, <1>2, AgedKeepsClaims
  <2> QED
    BY <1>1, <2>1, <2>2 DEF requestHolds, foundWasTrue
<1> QED
  BY <1>3, <1>5, <1>6 DEF SessionsIInv

LEMMA StepHolds == SessionsIInv /\ [SessionsNext]_sessionsVars => SessionsIInv'
<1> SUFFICES ASSUME SessionsIInv, [SessionsNext]_sessionsVars PROVE SessionsIInv'
  OBVIOUS
<1>1. ASSUME NEW r \in Requests, SignIn(r) PROVE SessionsIInv'
  BY <1>1, SignInHolds
<1>2. ASSUME NEW r \in Requests, ReadSession(r) PROVE SessionsIInv'
  BY <1>2, ReadSessionHolds
<1>3. ASSUME NEW r \in Requests, SignOut(r) PROVE SessionsIInv'
  BY <1>3, SignOutHolds
<1>4. ASSUME NEW r \in Requests, Serves(r) PROVE SessionsIInv'
  BY <1>4, FindUserByEmailHolds, CompareHolds, RenewHolds, ResponseHolds DEF Serves
<1>5. ASSUME NEW u \in UserIds, EditUser(u) PROVE SessionsIInv'
  BY <1>5, EditUserHolds
<1>6. CASE Tick
  BY <1>6, TickHolds
<1>7. CASE UNCHANGED sessionsVars
  <2>1. UNCHANGED <<usersLog, pc, typed, found, lookedUp, carried, cookie>>
    BY <1>7 DEF sessionsVars, requestVars
  <2>2. SessionsTypeOK'
    BY <2>1 DEF SessionsIInv, SessionsTypeOK
  <2>3. ClaimsWereTrue' /\ uniqueKeys(users)'
    BY <2>1, SameLog DEF tokens
  <2>4. \A q \in Requests : (requestHolds(q) /\ foundWasTrue(q))'
    BY <2>1 DEF SessionsIInv, requestHolds, foundWasTrue
  <2> QED
    BY <2>2, <2>3, <2>4 DEF SessionsIInv
<1> QED
  BY <1>1, <1>2, <1>3, <1>4, <1>5, <1>6, <1>7 DEF SessionsNext

(* The inductive invariant of sign-in and sessions.                          *)
THEOREM SessionsInvariance == SessionsSpec => []SessionsIInv
<1> QED
  BY InitHolds, StepHolds, PTL DEF SessionsSpec

(* No token ever loses its claims, and every variable keeps its type.        *)
THEOREM SessionsTypeCorrect == SessionsSpec => []SessionsTypeOK
<1>1. SessionsIInv => SessionsTypeOK
  BY DEF SessionsIInv
<1> QED
  BY <1>1, SessionsInvariance, PTL

(* A session, however often renewed and whatever edits and responses came    *)
(* between, is that of one row as it was at the lookup of its sign-in.       *)
THEOREM SessionsWereTrue == SessionsSpec => []ClaimsWereTrue
<1>1. SessionsIInv => ClaimsWereTrue
  BY DEF SessionsIInv
<1> QED
  BY <1>1, SessionsInvariance, PTL

-----------------------------------------------------------------------------
(* Where the valid tokens of a browser come from.                            *)
comesFrom(b, new) ==
    \/ \E old \in validTokens(b) : renews(new, old)
    \/ \E r \in Requests : BrowserOf[r] = b /\ signsIn(r, new)

(* A valid token in the cookie, or in a request or response, is its own.     *)
LEMMA OwnTokens ==
    ASSUME NEW b \in Browsers, NEW token, token # Null, token.ttl > 0,
           \/ token = cookie[b]
           \/ \E r \in Requests : BrowserOf[r] = b /\ token = carried[r]
    PROVE  comesFrom(b, token)
<1>1. token \in validTokens(b)
  BY DEF validTokens
<1> QED
  BY <1>1 DEF comesFrom, renews

(* The token a sign-in makes names the row whose password was presented.     *)
LEMMA CompareSignsIn ==
    ASSUME SessionsIInv, NEW r \in Requests, Compare(r)
    PROVE  carried'[r] = carried[r] \/ signsIn(r, carried'[r])
<1> DEFINE user == authorizeUser(found[r], typed[r].password)
<1>1. /\ pc[r] = "compare" /\ found[r] \in Records \cup {Null}
      /\ lookedUp[r] \in Nat \ {0}
  BY DEF Compare, SessionsIInv, SessionsTypeOK, foundWasTrue
<1>2. \/ user = Null
      \/ /\ found[r] # Null /\ user \in Claims
         /\ user = [userId |-> found[r].userId, username |-> found[r].username]
  BY <1>1, AuthorizesTheRecord
<1>3. CASE user = Null
  BY <1>3 DEF Compare
<1>4. CASE user # Null
  <2>1. typed[r].password = found[r].passwordHash
    BY <1>2, <1>4 DEF authorizeUser, hashToCompare
  <2>2. carried'[r] = encode(jwt(NoClaims, user), lookedUp[r])
    BY <1>4 DEF Compare, SessionsIInv, SessionsTypeOK
  <2>3. carried'[r].claims = user /\ carried'[r].at = lookedUp[r]
    BY <1>1, <1>2, <1>4, <2>2, EncodesTokens
  <2> QED
    BY <1>1, <1>2, <1>4, <2>1, <2>3 DEF signsIn
<1> QED
  BY <1>3, <1>4

(* A session read carries the cookie of its browser, and renews what it      *)
(* carries if that is valid.                                                 *)
LEMMA ReadCarries ==
    ASSUME SessionsIInv, NEW r \in Requests, ReadSession(r)
    PROVE  carried'[r] = cookie[BrowserOf[r]]
  BY DEF ReadSession, SessionsIInv, SessionsTypeOK

LEMMA ReadRenews ==
    ASSUME SessionsIInv, NEW r \in Requests, Renew(r), carried'[r] # Null
    PROVE  comesFrom(BrowserOf[r], carried'[r])
<1>1. carried[r] \in validTokens(BrowserOf[r])
  BY Renewal DEF validTokens, usable
<1> QED
  BY <1>1, Renewal DEF comesFrom, renews

LEMMA StepKeepsOrigin ==
    ASSUME SessionsIInv, [SessionsNext]_sessionsVars, NEW b \in Browsers,
           NEW new, new \in validTokens(b)'
    PROVE  comesFrom(b, new)
<1>1. /\ new # Null /\ new.ttl > 0
      /\ \/ new = cookie'[b]
         \/ \E r \in Requests : BrowserOf[r] = b /\ new = carried'[r]
  BY DEF validTokens
<1>2. CASE UNCHANGED <<cookie, carried>>
  BY <1>1, <1>2, OwnTokens
<1>3. ASSUME NEW r \in Requests, UNCHANGED cookie,
             \A q \in Requests \ {r} : carried'[q] = carried[q],
             BrowserOf[r] = b /\ new = carried'[r] => comesFrom(b, new)
      PROVE  comesFrom(b, new)
  BY <1>1, <1>3, OwnTokens
<1>4. ASSUME NEW r \in Requests, Compare(r) PROVE comesFrom(b, new)
  <2>1. /\ UNCHANGED cookie
        /\ \A q \in Requests \ {r} : carried'[q] = carried[q]
    BY <1>4 DEF Compare, SessionsIInv, SessionsTypeOK
  <2>2. ASSUME BrowserOf[r] = b, new = carried'[r] PROVE comesFrom(b, new)
    BY <1>1, <1>4, <2>2, CompareSignsIn, OwnTokens DEF comesFrom
  <2> QED
    BY <1>3, <2>1, <2>2
<1>5. ASSUME NEW r \in Requests, ReadSession(r) PROVE comesFrom(b, new)
  <2>1. /\ UNCHANGED cookie
        /\ \A q \in Requests \ {r} : carried'[q] = carried[q]
    BY <1>5 DEF ReadSession, SessionsIInv, SessionsTypeOK
  <2>2. BrowserOf[r] = b /\ new = carried'[r] => new = cookie[b]
    BY <1>5, ReadCarries
  <2> QED
    BY <1>1, <1>3, <2>1, <2>2, OwnTokens
<1>6. ASSUME NEW r \in Requests, Renew(r) PROVE comesFrom(b, new)
  <2>1. /\ UNCHANGED cookie
        /\ \A q \in Requests \ {r} : carried'[q] = carried[q]
    BY <1>6 DEF Renew, SessionsIInv, SessionsTypeOK
  <2> QED
    BY <1>1, <1>3, <1>6, <2>1, ReadRenews
<1>7. ASSUME NEW r \in Requests, ResponseArrives(r) \/ RequestFails(r)
      PROVE  comesFrom(b, new)
  <2>1. /\ cookie'[b] \in {cookie[b]} \cup {carried[q] : q \in {p \in Requests : BrowserOf[p] = b}}
        /\ \A q \in Requests : carried'[q] \in {carried[q], Null}
    BY <1>7 DEF ResponseArrives, RequestFails, finished, SessionsIInv, SessionsTypeOK
  <2> QED
    BY <1>1, <2>1, OwnTokens
<1>8. CASE Tick
  <2>1. ASSUME NEW token \in Tokens \cup {Null}, new = aged(token)
        PROVE  token # Null /\ token.ttl > 0 /\ renews(new, token)
    <3>1. token # Null /\ renews(new, token)
      BY <1>1, <2>1, AgedKeepsClaims DEF renews
    <3>2. token.ttl > 0
      BY <1>1, <2>1, <3>1 DEF aged, Tokens
    <3> QED
      BY <3>1, <3>2
  <2>2. CASE new = cookie'[b]
    <3>1. new = aged(cookie[b]) /\ cookie[b] \in Tokens \cup {Null}
      BY <1>8, <2>2 DEF Tick, SessionsIInv, SessionsTypeOK
    <3> QED
      BY <2>1, <3>1 DEF comesFrom, validTokens
  <2>3. ASSUME NEW r \in Requests, BrowserOf[r] = b, new = carried'[r]
        PROVE  comesFrom(b, new)
    <3>1. new = aged(carried[r]) /\ carried[r] \in Tokens \cup {Null}
      BY <1>8, <2>3 DEF Tick, SessionsIInv, SessionsTypeOK
    <3> QED
      BY <2>1, <2>3, <3>1 DEF comesFrom, validTokens
  <2> QED
    BY <1>1, <2>2, <2>3
<1>9. CASE \/ \E r \in Requests : SignIn(r) \/ SignOut(r) \/ FindUserByEmail(r)
           \/ \E u \in UserIds : EditUser(u)
           \/ UNCHANGED sessionsVars
  BY <1>2, <1>9
  DEF SignIn, SignOut, FindUserByEmail, EditUser, requestVars, sessionsVars
<1> QED
  BY <1>4, <1>5, <1>6, <1>7, <1>8, <1>9 DEF SessionsNext, Serves

(* Every valid token of a browser is one it had, renewed or grown older, or  *)
(* that of a sign-in of its own with the password on record: no session      *)
(* comes back by itself, and none wanders from one browser to another.       *)
THEOREM SessionsComeFromSignIns == SessionsSpec => SessionsOnlyBySignIn
<1>1. SessionsIInv /\ [SessionsNext]_sessionsVars =>
        [\A b \in Browsers : \A new \in validTokens(b)' :
           \/ \E old \in validTokens(b) : renews(new, old)
           \/ \E r \in Requests : BrowserOf[r] = b /\ signsIn(r, new)]_sessionsVars
  BY StepKeepsOrigin DEF comesFrom
<1> QED
  BY <1>1, SessionsInvariance, PTL DEF SessionsSpec, SessionsOnlyBySignIn

-----------------------------------------------------------------------------
(* The refinement.  A request that holds no credentials is unknown to the    *)
(* abstract specification, so what it does is a stutter there.               *)
Asked == [r \in Requests |-> presented(r)]
Decided == [r \in Requests |-> decisionOf(r)]

LEMMA NoCredentialsNoDecision ==
    ASSUME SessionsIInv, NEW r \in Requests, UNCHANGED <<usersLog, typed>>, typed[r] = Null,
           \A q \in Requests \ {r} :
             UNCHANGED <<pc[q], found[q], carried[q]>>
    PROVE  UNCHANGED <<users, Asked, Decided>>
<1>1. UNCHANGED users /\ UNCHANGED Asked
  BY DEF users, Asked, presented
<1>2. \A q \in Requests : decisionOf(q)' = decisionOf(q)
  BY DEF decisionOf
<1> QED
  BY <1>1, <1>2 DEF Decided

(* The lookup decides: it finds the only row with the email, and the rest is *)
(* a computation on that row.                                                *)
LEMMA LookupDecides ==
    ASSUME SessionsIInv, NEW r \in Requests, FindUserByEmail(r)
    PROVE  Decision!Decide(r)
<1> DEFINE e == normalised[typed[r].email]
           p == typed[r].password
           user == authorizeUser(findUserByEmail(e), p)
<1>1. /\ typed[r] \in Credentials /\ typed[r] # Null /\ e \in Emails /\ p \in Passwords
      /\ pc[r] = "lookup"
  BY SessionsAssumption DEF FindUserByEmail, SessionsIInv, requestHolds, SessionsTypeOK, Credentials
<1>2. /\ UNCHANGED <<usersLog, typed, carried>>
      /\ pc' = [pc EXCEPT ![r] = "compare"]
      /\ found' = [found EXCEPT ![r] = findUserByEmail(e)]
  BY DEF FindUserByEmail, goes
<1>3. UNCHANGED users /\ UNCHANGED Asked
  BY <1>2 DEF users, Asked, presented
<1>4. /\ Asked[r] = [email |-> e, password |-> p] /\ Asked[r] # Null
      /\ Decided[r] = {Null}
  <2>1. [email |-> e, password |-> p] # Null
    BY <1>1, NullIsNoRecord
  <2> QED
    BY <1>1, <2>1 DEF Asked, Decided, presented, decisionOf
<1>5. Decided' = [Decided EXCEPT ![r] = granted(user)]
  <2>1. decisionOf(r)' = granted(user)
    BY <1>1, <1>2 DEF decisionOf, SessionsIInv, SessionsTypeOK
  <2>2. ASSUME NEW q \in Requests, q # r PROVE decisionOf(q)' = decisionOf(q)
    BY <1>2, <2>2 DEF decisionOf, SessionsIInv, SessionsTypeOK
  <2> QED
    BY <2>1, <2>2 DEF Decided
<1>6. \/ \E u \in Decision!matching(Asked[r]) : granted(user) = {Decision!claimsOf(u)}
      \/ Decision!matching(Asked[r]) = {} /\ granted(user) = {}
  <2>1. \A u \in UserIds : u \in Decision!matching(Asked[r]) <=>
                              u \in withEmail(e) /\ users[u].passwordHash = p
    BY <1>4 DEF Decision!matching, withEmail
  <2>2. CASE withEmail(e) = {} /\ findUserByEmail(e) = Null
    <3>1. granted(user) = {}
      BY <2>2 DEF authorizeUser, granted
    <3> QED
      BY <2>1, <2>2, <3>1 DEF Decision!matching
  <2>3. ASSUME NEW u \in withEmail(e), findUserByEmail(e) = record(u), record(u) \in Records
        PROVE  <1>6!:
    <3>1. /\ u \in UserIds /\ users[u] # Null /\ users[u].email = e
          /\ record(u) # Null /\ record(u).userId = u
          /\ record(u).username = users[u].username
          /\ record(u).passwordHash = users[u].passwordHash
      BY <2>3, NullIsNoRecord DEF withEmail, record
    <3>2. CASE users[u].passwordHash = p
      <4>1. user = [userId |-> u, username |-> users[u].username]
        BY <2>3, <3>1, <3>2 DEF authorizeUser, hashToCompare
      <4>2. user # Null
        BY <2>3, <3>1, <4>1, NullIsNoRecord DEF Claims, Records
      <4> QED
        BY <2>1, <3>1, <3>2, <4>1, <4>2 DEF granted, Decision!claimsOf
    <3>3. CASE users[u].passwordHash # p
      <4>1. user = Null
        BY <2>3, <3>1, <3>3 DEF authorizeUser, hashToCompare
      <4>2. \A v \in withEmail(e) : v = u
        BY <3>1 DEF SessionsIInv, uniqueKeys, withEmail
      <4> QED
        BY <2>1, <3>3, <4>1, <4>2 DEF granted, Decision!matching
    <3> QED
      BY <3>2, <3>3
  <2> QED
    BY <1>1, <2>2, <2>3, FindsARow DEF SessionsIInv
<1> QED
  BY <1>3, <1>4, <1>5, <1>6 DEF Decision!Decide, Asked, Decided

LEMMA SignInAsks ==
    ASSUME SessionsIInv, NEW r \in Requests, SignIn(r)
    PROVE  Decision!Ask(r) \/ UNCHANGED <<users, Asked, Decided>>
<1>1. /\ pc[r] = "idle" /\ typed[r] = Null
      /\ UNCHANGED <<usersLog, found, carried>>
  BY DEF SignIn, SessionsIInv, requestHolds
<1>2. CASE UNCHANGED typed /\ goes(r, "answer")
  <2>1. \A q \in Requests \ {r} : UNCHANGED <<pc[q], found[q], carried[q]>>
    BY <1>1, <1>2 DEF goes, SessionsIInv, SessionsTypeOK
  <2> QED
    BY <1>1, <1>2, <2>1, NoCredentialsNoDecision
<1>3. ASSUME NEW c \in Credentials, typed' = [typed EXCEPT ![r] = c], goes(r, "lookup")
      PROVE  Decision!Ask(r)
  <2>1. c # Null /\ normalised[c.email] \in Emails /\ c.password \in Passwords
    BY NullIsNoRecord, SessionsAssumption DEF Credentials
  <2>2. Asked[r] = Null /\ UNCHANGED users
    BY <1>1 DEF Asked, presented, users
  <2>3. Asked' = [Asked EXCEPT ![r] = [email |-> normalised[c.email], password |-> c.password]]
    BY <1>3, <2>1 DEF Asked, presented, SessionsIInv, SessionsTypeOK
  <2>4. \A q \in Requests : decisionOf(q)' = decisionOf(q)
    BY <1>1, <1>3 DEF decisionOf, goes, SessionsIInv, SessionsTypeOK
  <2>5. UNCHANGED Decided
    BY <2>4 DEF Decided
  <2> QED
    BY <2>1, <2>2, <2>3, <2>5 DEF Decision!Ask, Asked, Decided
<1> QED
  BY <1>2, <1>3 DEF SignIn

(* The comparison and the token add nothing to what the lookup decided.      *)
LEMMA CompareAddsNothing ==
    ASSUME SessionsIInv, NEW r \in Requests, Compare(r)
    PROVE  UNCHANGED <<users, Asked, Decided>>
<1> DEFINE user == authorizeUser(found[r], typed[r].password)
<1>1. /\ pc[r] = "compare" /\ found[r] \in Records \cup {Null} /\ typed[r] # Null
      /\ UNCHANGED <<usersLog, typed, lookedUp>> /\ lookedUp[r] \in Nat \ {0}
  BY DEF Compare, SessionsIInv, SessionsTypeOK, requestHolds, foundWasTrue
<1>2. user = Null \/ user \in Claims
  BY <1>1, AuthorizesTheRecord
<1>3. UNCHANGED <<users, Asked>>
  BY <1>1 DEF users, Asked, presented
<1>4. decisionOf(r)' = decisionOf(r)
  <2>1. decisionOf(r) = granted(user)
    BY <1>1 DEF decisionOf
  <2>2. CASE user = Null
    <3>1. pc'[r] = "answer" /\ typed'[r] # Null
      BY <1>1, <2>2 DEF Compare, goes, SessionsIInv, SessionsTypeOK
    <3> QED
      BY <2>1, <2>2, <3>1 DEF decisionOf, granted
  <2>3. CASE user # Null
    <3>1. /\ pc'[r] = "setCookie" /\ typed'[r] # Null
          /\ carried'[r] = encode(jwt(NoClaims, user), lookedUp[r])
      BY <1>1, <2>3 DEF Compare, goes, SessionsIInv, SessionsTypeOK
    <3>2. carried'[r].claims = user
      BY <1>1, <1>2, <2>3, <3>1, EncodesTokens
    <3> QED
      BY <2>1, <2>3, <3>1, <3>2 DEF decisionOf, granted
  <2> QED
    BY <2>2, <2>3
<1>5. ASSUME NEW q \in Requests, q # r PROVE decisionOf(q)' = decisionOf(q)
  BY <1>1, <1>5 DEF Compare, goes, decisionOf, SessionsIInv, SessionsTypeOK
<1> QED
  BY <1>3, <1>4, <1>5 DEF Decided

LEMMA ResponseForgets ==
    ASSUME SessionsIInv, NEW r \in Requests, finished(r), UNCHANGED usersLog
    PROVE  Decision!Forget(r) \/ UNCHANGED <<users, Asked, Decided>>
<1>1. /\ UNCHANGED users
      /\ typed' = [typed EXCEPT ![r] = Null]
      /\ \A q \in Requests \ {r} : UNCHANGED <<pc[q], found[q], carried[q]>>
  BY DEF finished, goes, users, SessionsIInv, SessionsTypeOK
<1>2. CASE typed[r] = Null
  <2>1. UNCHANGED typed
    BY <1>1, <1>2 DEF SessionsIInv, SessionsTypeOK
  <2> QED
    BY <1>1, <1>2, <2>1, NoCredentialsNoDecision
<1>3. CASE typed[r] # Null
  <2>1. Asked[r] # Null
    <3>1. [email |-> normalised[typed[r].email], password |-> typed[r].password] # Null
      BY <1>3, NullIsNoRecord, SessionsAssumption DEF SessionsIInv, SessionsTypeOK, Credentials
    <3> QED
      BY <1>3, <3>1 DEF Asked, presented
  <2>2. Asked' = [Asked EXCEPT ![r] = Null]
    BY <1>1 DEF Asked, presented, SessionsIInv, SessionsTypeOK
  <2>3. decisionOf(r)' = {Null}
    BY <1>1 DEF decisionOf, SessionsIInv, SessionsTypeOK
  <2>4. ASSUME NEW q \in Requests, q # r PROVE decisionOf(q)' = decisionOf(q)
    BY <1>1, <2>4 DEF decisionOf, SessionsIInv, SessionsTypeOK
  <2>5. Decided' = [Decided EXCEPT ![r] = {Null}]
    BY <2>3, <2>4 DEF Decided
  <2> QED
    BY <1>1, <2>1, <2>2, <2>5 DEF Decision!Forget, Asked, Decided
<1> QED
  BY <1>2, <1>3

LEMMA EditIsAnEdit ==
    ASSUME SessionsIInv, NEW u \in UserIds, EditUser(u)
    PROVE  Decision!EditUsers
<1>1. PICK row : row # users[u] /\ usersLog' = Append(usersLog, [users EXCEPT ![u] = row])
  BY DEF EditUser
<1>2. UNCHANGED <<pc, typed, found, carried>>
  BY DEF EditUser, requestVars
<1>3. usersLog \in Seq(Tables) /\ users \in Tables
  BY UsersIsTable DEF SessionsIInv, SessionsTypeOK
<1>4. users' = [users EXCEPT ![u] = row]
  BY <1>1, <1>3 DEF users
<1>5. users' # users
  BY <1>1, <1>3, <1>4 DEF Tables
<1>6. UNCHANGED <<Asked, Decided>>
  BY <1>2 DEF Asked, Decided, presented, decisionOf
<1> QED
  BY <1>5, <1>6 DEF Decision!EditUsers, Asked, Decided

LEMMA TickKeepsDecisions ==
    ASSUME SessionsIInv, Tick
    PROVE  UNCHANGED <<users, Asked, Decided>>
<1>1. /\ UNCHANGED <<usersLog, pc, typed, found>>
      /\ carried' = [r \in Requests |-> aged(carried[r])]
  BY DEF Tick
<1>2. UNCHANGED <<users, Asked>>
  BY <1>1 DEF users, Asked, presented
<1>3. ASSUME NEW q \in Requests PROVE decisionOf(q)' = decisionOf(q)
  <2>1. carried[q] # Null => carried'[q].claims = carried[q].claims
    BY <1>1, AgedKeepsClaims DEF SessionsIInv, SessionsTypeOK
  <2>2. pc[q] = "setCookie" /\ typed[q] # Null => carried[q] # Null
    BY DEF SessionsIInv, requestHolds
  <2> QED
    BY <1>1, <2>1, <2>2 DEF decisionOf
<1> QED
  BY <1>2, <1>3 DEF Decided

LEMMA StepRefines ==
    ASSUME SessionsIInv, [SessionsNext]_sessionsVars
    PROVE  [Decision!DecisionNext]_<<users, Asked, Decided>>
<1> USE DEF Decision!DecisionNext
<1>1. ASSUME NEW r \in Requests, SignIn(r)
      PROVE  [Decision!DecisionNext]_<<users, Asked, Decided>>
  BY <1>1, SignInAsks
<1>2. ASSUME NEW r \in Requests, ReadSession(r) \/ SignOut(r)
      PROVE  UNCHANGED <<users, Asked, Decided>>
  <2>1. pc[r] = "idle" /\ typed[r] = Null /\ UNCHANGED <<usersLog, typed>>
    BY <1>2 DEF ReadSession, SignOut, SessionsIInv, requestHolds
  <2>2. \A q \in Requests \ {r} : UNCHANGED <<pc[q], found[q], carried[q]>>
    BY <1>2 DEF ReadSession, SignOut, goes, SessionsIInv, SessionsTypeOK
  <2> QED
    BY <2>1, <2>2, NoCredentialsNoDecision
<1>3. ASSUME NEW r \in Requests, Serves(r)
      PROVE  [Decision!DecisionNext]_<<users, Asked, Decided>>
  <2>1. CASE FindUserByEmail(r)
    BY <2>1, LookupDecides
  <2>2. CASE Compare(r)
    BY <2>2, CompareAddsNothing
  <2>3. CASE ResponseArrives(r) \/ RequestFails(r)
    BY <2>3, ResponseForgets DEF ResponseArrives, RequestFails
  <2>4. CASE Renew(r)
    <3>1. typed[r] = Null /\ UNCHANGED <<usersLog, typed>>
      BY <2>4, Renewal DEF SessionsIInv, requestHolds
    <3>2. \A q \in Requests \ {r} : UNCHANGED <<pc[q], found[q], carried[q]>>
      BY <2>4 DEF Renew, goes, SessionsIInv, SessionsTypeOK
    <3> QED
      BY <3>1, <3>2, NoCredentialsNoDecision
  <2> QED
    BY <1>3, <2>1, <2>2, <2>3, <2>4 DEF Serves
<1>4. ASSUME NEW u \in UserIds, EditUser(u) PROVE Decision!DecisionNext
  BY <1>4, EditIsAnEdit
<1>5. CASE Tick
  BY <1>5, TickKeepsDecisions
<1>6. CASE UNCHANGED sessionsVars
  BY <1>6 DEF sessionsVars, requestVars, users, Asked, Decided, presented, decisionOf
<1> QED
  BY <1>1, <1>2, <1>3, <1>4, <1>5, <1>6 DEF SessionsNext

(* A sign-in takes effect at its lookup, for any number of users, requests   *)
(* and edits, whatever happens before it is answered.                        *)
THEOREM SignInImplementsDecision == SessionsSpec => SignInIsAtomic
<1>1. SessionsInit => Decision!DecisionInit
  BY DEF SessionsInit, Decision!DecisionInit, presented, decisionOf
<1>2. SessionsIInv /\ [SessionsNext]_sessionsVars
        => [Decision!DecisionNext]_(Decision!decisionVars)
  BY StepRefines DEF Decision!decisionVars, Asked, Decided
<1> QED
  BY <1>1, <1>2, SessionsInvariance, PTL DEF SessionsSpec, SignInIsAtomic, Decision!DecisionSpec
=============================================================================
