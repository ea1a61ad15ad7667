--------------------------- MODULE SignInDecision ---------------------------
(* What a sign-in promises: it is decided at one instant, on the users table *)
(* of that instant.  The claims are those of a row with the email and the    *)
(* password presented, and it is refused only if there is no such row.       *)
CONSTANTS UserIds, Emails, Passwords, Requests, Null

VARIABLES users,      \* the users table
          asked,      \* the credentials of each sign-in under way
          decision    \* {Null}: open; {}: refused; otherwise {the claims granted}

decisionVars == <<users, asked, decision>>

matching(credentials) ==
    {u \in UserIds : /\ users[u] # Null
                     /\ users[u].email = credentials.email
                     /\ users[u].passwordHash = credentials.password}

claimsOf(u) == [userId |-> u, username |-> users[u].username]

DecisionInit ==
    /\ asked = [r \in Requests |-> Null]
    /\ decision = [r \in Requests |-> {Null}]

Ask(r) ==
    /\ asked[r] = Null
    /\ \E e \in Emails, p \in Passwords :
         asked' = [asked EXCEPT ![r] = [email |-> e, password |-> p]]
    /\ UNCHANGED <<users, decision>>

Decide(r) ==
    /\ asked[r] # Null
    /\ decision[r] = {Null}
    /\ \/ \E u \in matching(asked[r]) :
            decision' = [decision EXCEPT ![r] = {claimsOf(u)}]
       \/ /\ matching(asked[r]) = {}
          /\ decision' = [decision EXCEPT ![r] = {}]
    /\ UNCHANGED <<users, asked>>

Forget(r) ==
    /\ asked[r] # Null
    /\ asked' = [asked EXCEPT ![r] = Null]
    /\ decision' = [decision EXCEPT ![r] = {Null}]
    /\ UNCHANGED users

EditUsers ==
    /\ users' # users
    /\ UNCHANGED <<asked, decision>>

DecisionNext == EditUsers \/ \E r \in Requests : Ask(r) \/ Decide(r) \/ Forget(r)

DecisionSpec == DecisionInit /\ [][DecisionNext]_decisionVars
=============================================================================
