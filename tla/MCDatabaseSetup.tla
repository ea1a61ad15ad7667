--------------------------- MODULE MCDatabaseSetup ---------------------------
(* Two listed teams and one that is not, a match, two users, two seeds.      *)
EXTENDS DatabaseSetup

CONSTANTS argentina, brazil, uruguay, m1, u1, u2, GROUP, badText, s1, s2

MC_Teams == {argentina, brazil, uruguay}
MC_TEAMS == <<argentina, brazil>>
MC_Matches == {m1}
MC_Users == {u1, u2}
MC_Texts == {GROUP, badText}
MC_Castable == {GROUP}
MC_Ids == 1 .. 3
MC_Seeds == {s1, s2}
=============================================================================
