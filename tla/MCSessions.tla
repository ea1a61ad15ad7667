----------------------------- MODULE MCSessions -----------------------------
(* One browser with two requests in flight.  There is a user u1 at the start *)
(* and none u2; edits may rename u1, give it u2's email, or swap the two.    *)
EXTENDS Sessions

CONSTANTS r1, r2, u1, u2, ana, bob, anasMail, bobsMail, typedUpper, typedBob, secret, browser

MC_UserIds == {u1, u2}
MC_Emails == {anasMail, bobsMail}
MC_Usernames == {ana, bob}
MC_Passwords == {secret}
MC_TypedEmails == {typedUpper, typedBob}
MC_normalised == [t \in MC_TypedEmails |-> IF t = typedUpper THEN anasMail ELSE bobsMail]
MC_InitialUsers == [u \in MC_UserIds |->
    IF u = u1 THEN [email |-> anasMail, username |-> ana, passwordHash |-> secret]
              ELSE Null]
MC_Requests == {r1, r2}
MC_Browsers == {browser}
MC_BrowserOf == [r \in MC_Requests |-> browser]
=============================================================================
