------------------------ MODULE DatabaseSetupTheorems ------------------------
(* Proofs about DatabaseSetup, for any teams, matches, users and texts, any  *)
(* list of teams, and any number of seeds and of edits.                      *)
EXTENDS DatabaseSetup, TLAPS

(* What the list of teams is.                                                *)
LEMMA TheList ==
    /\ Len(TEAMS) \in Nat \ {0}
    /\ DOMAIN TEAMS = 1 .. Len(TEAMS)
    /\ \A i \in DOMAIN TEAMS : TEAMS[i] \in Teams
  BY DatabaseSetupAssumption

(* Init                                                                      *)
LEMMA InitHolds == DatabaseSetupInit => DatabaseSetupIInv
<1> SUFFICES ASSUME DatabaseSetupInit PROVE DatabaseSetupIInv
  OBVIOUS
<1> USE DatabaseSetupAssumption, TheList DEF DatabaseSetupInit, running
<1>1. DatabaseSetupTypeOK
  BY DEF DatabaseSetupTypeOK, Placeholder
<1>2. ~current /\ SeedEnsured /\ scriptsLeave
  BY DEF current, Older, SeedEnsured, scriptsLeave, startedOlder
<1>3. RowsStopMigrations /\ migrated
  BY DEF RowsStopMigrations, migrated, Migrations
<1>4. matchesRefer
  BY DEF matchesRefer
<1>5. teamsHaveIds
  BY <1>2 DEF teamsHaveIds
<1>6. \A s \in Seeds : seedCameTo(s)
  BY DEF seedCameTo
<1> QED
  BY <1>1, <1>2, <1>3, <1>4, <1>5, <1>6 DEF DatabaseSetupIInv

-----------------------------------------------------------------------------
(* What init.sql makes of the objects that are there.                        *)
LEMMA AfterStatements ==
    ASSUME NEW n \in DOMAIN statements
    PROVE  /\ DOMAIN statements = 1 .. 6 /\ Len(statements) = 6
           /\ objects \subseteq after(n)
           /\ after(n) \subseteq objects \cup Schema
           /\ objects = {} => /\ "enumTypes" \in after(n)
                              /\ "users" \in after(n) => "userColumns" \in after(n)
                              /\ "teams" \notin after(n) => "apiFootballIds" \notin after(n)
                              /\ "statusDefault" \notin after(n)
           /\ "teams" \in objects /\ "apiFootballIds" \in after(n) => "apiFootballIds" \in objects
<1>1. DOMAIN statements = 1 .. 6 /\ Len(statements) = 6
  BY DEF statements
<1>2. /\ statements[1] = {"enumTypes"} /\ statements[2] = {"teams", "apiFootballIds"}
      /\ statements[3] = {"matches"} /\ statements[4] = {"users", "userColumns"}
      /\ statements[5] = {"profiles"} /\ statements[6] = {"predictions"}
  BY DEF statements
<1>3. after(n) \subseteq objects \cup Schema
  BY <1>1 DEF after, Schema
<1>4. \A o : o \in after(n) <=> \/ o \in objects
                                \/ \E i \in 1 .. n : statements[i] \cap objects = {} /\ o \in statements[i]
  BY DEF after
<1>5. n \in 1 .. 6 /\ 1 \in 1 .. n /\ \A i \in 1 .. n : i \in {1, 2, 3, 4, 5, 6}
  BY <1>1
<1> HIDE DEF after, statements
<1>6. objects = {} => /\ "enumTypes" \in after(n)
                      /\ "users" \in after(n) => "userColumns" \in after(n)
                      /\ "teams" \notin after(n) => "apiFootballIds" \notin after(n)
                      /\ "statusDefault" \notin after(n)
  BY <1>2, <1>4, <1>5
<1>7. "teams" \in objects /\ "apiFootballIds" \in after(n) => "apiFootballIds" \in objects
  BY <1>2, <1>4, <1>5
<1> QED
  BY <1>1, <1>3, <1>4, <1>6, <1>7

(* The scripts.  They leave the seeds alone, and the ids that teams have.    *)
LEMMA ScriptsKeepSeeds ==
    ASSUME DatabaseSetupIInv, UNCHANGED <<seeds, edits>>, current => current',
           \A t \in Teams : teams[t] \in Nat => teams'[t] = teams[t]
    PROVE  SeedEnsured' /\ \A s \in Seeds : seedCameTo(s)'
<1> USE DEF DatabaseSetupIInv, DatabaseSetupTypeOK, seeds
<1>1. ASSUME NEW i \in DOMAIN TEAMS, ensured(i) PROVE ensured(i)'
  BY <1>1, TheList DEF ensured
<1>2. SeedEnsured'
  BY <1>1 DEF SeedEnsured
<1>3. ASSUME NEW s \in Seeds PROVE seedCameTo(s)'
  <2>1. running(s) => 1 .. next[s] - 1 \subseteq DOMAIN TEAMS
    BY TheList
  <2> QED
    BY <1>1, <2>1 DEF seedCameTo, running
<1> QED
  BY <1>2, <1>3

(* A script that leaves the tables alone, and no team without a table.       *)
LEMMA ScriptHolds ==
    ASSUME DatabaseSetupIInv, UNCHANGED <<tables, seeds, edits>>,
           objects' \subseteq Schema \cup Older, scriptsLeave',
           current => current', current' => current \/ \A t \in Teams : teams[t] = NoRow,
           history' \in [Migrations -> {"pending", "applied"} \cup Refusals],
           RowsStopMigrations', migrated'
    PROVE  DatabaseSetupIInv'
<1> USE DEF DatabaseSetupIInv, tables
<1>1. DatabaseSetupTypeOK'
  BY DEF DatabaseSetupTypeOK, seeds, running
<1>2. SeedEnsured' /\ \A s \in Seeds : seedCameTo(s)'
  BY ScriptsKeepSeeds
<1>3. matchesRefer' /\ teamsHaveIds'
  BY DEF matchesRefer, refersToTeams, teamsHaveIds
<1> QED
  BY <1>1, <1>2, <1>3

LEMMA FirstStartHolds == DatabaseSetupIInv /\ FirstStart => DatabaseSetupIInv'
<1> SUFFICES ASSUME DatabaseSetupIInv, FirstStart PROVE DatabaseSetupIInv'
  OBVIOUS
<1>1. PICK n \in DOMAIN statements : objects' = after(n)
  BY DEF FirstStart
<1>2. objects = {} /\ UNCHANGED <<history, tables, seeds, edits>>
  BY DEF FirstStart
<1>3. /\ objects' \subseteq Schema
      /\ "enumTypes" \in objects' /\ "statusDefault" \notin objects'
      /\ "users" \in objects' => "userColumns" \in objects'
      /\ "teams" \notin objects' => ~current'
  BY <1>1, <1>2, AfterStatements DEF current
<1>4. ~current /\ \A t \in Teams : teams[t] = NoRow
  BY <1>2 DEF current, DatabaseSetupIInv, scriptsLeave
<1>5. scriptsLeave'
  BY <1>2, <1>3, <1>4 DEF scriptsLeave, startedNew, tables
<1>6. (RowsStopMigrations /\ migrated)'
  BY <1>2 DEF DatabaseSetupIInv, RowsStopMigrations, migrated, oneRow, tables
<1> QED
  BY <1>2, <1>3, <1>4, <1>5, <1>6, ScriptHolds DEF DatabaseSetupIInv, DatabaseSetupTypeOK

LEMMA InitSqlHolds == DatabaseSetupIInv /\ InitSql => DatabaseSetupIInv'
<1> SUFFICES ASSUME DatabaseSetupIInv, InitSql PROVE DatabaseSetupIInv'
  OBVIOUS
<1>1. 6 \in DOMAIN statements /\ objects' = after(6)
  BY DEF InitSql, statements
<1>2. "enumTypes" \notin objects /\ UNCHANGED <<history, tables, seeds, edits>>
  BY DEF InitSql
<1>3. objects = {} \/ startedOlder
  BY <1>2 DEF DatabaseSetupIInv, scriptsLeave, startedNew
<1>4. objects \subseteq objects' /\ objects' \subseteq Schema \cup Older
  BY <1>1, AfterStatements DEF DatabaseSetupIInv, DatabaseSetupTypeOK
<1>5. scriptsLeave'
  <2>1. CASE objects = {}
    <3>1. /\ "enumTypes" \in objects' /\ "statusDefault" \notin objects'
          /\ "users" \in objects' => "userColumns" \in objects'
          /\ "teams" \notin objects' => ~current'
      BY <1>1, <2>1, AfterStatements DEF current
    <3> QED
      BY <1>2, <2>1, <3>1
         DEF DatabaseSetupIInv, scriptsLeave, startedNew, tables, current
  <2>2. CASE startedOlder
    <3>1. ~current'
      BY <1>1, <2>2, AfterStatements DEF startedOlder, Older, current
    <3> QED
      BY <1>2, <1>4, <2>2, <3>1 DEF scriptsLeave, startedOlder, Older
  <2> QED
    BY <1>3, <2>1, <2>2
<1>6. current' => current \/ \A t \in Teams : teams[t] = NoRow
  BY <1>1, <1>3, AfterStatements DEF startedOlder, Older, current, DatabaseSetupIInv, scriptsLeave
<1>7. (RowsStopMigrations /\ migrated)'
  BY <1>2 DEF DatabaseSetupIInv, RowsStopMigrations, migrated, oneRow, tables
<1> QED
  BY <1>2, <1>4, <1>5, <1>6, <1>7, ScriptHolds DEF DatabaseSetupIInv, DatabaseSetupTypeOK, current

(* A column that a migration fills and then indexes has one row at most: two *)
(* rows would have the placeholder twice.                                    *)
LEMMA PlaceholderOnce ==
    ASSUME NEW column, distinct(backfilled(column)),
           \A k \in DOMAIN column : column[k] \in {Placeholder, NoValue, NoRow}
    PROVE  oneRow(column)
<1> SUFFICES ASSUME NEW k \in DOMAIN column, NEW l \in DOMAIN column,
                    column[k] # NoRow, column[l] # NoRow, k # l
             PROVE  FALSE
  BY DEF oneRow
<1>1. backfilled(column)[k] = Placeholder /\ backfilled(column)[l] = Placeholder
  BY DEF backfilled
<1>2. DOMAIN backfilled(column) = DOMAIN column /\ Placeholder # NoRow
  BY DatabaseSetupAssumption DEF backfilled, Placeholder
<1> QED
  BY <1>1, <1>2 DEF distinct

(* The migrations.  0001 is recorded, and applied to one user at most.       *)
LEMMA AddUserProfileHolds == DatabaseSetupIInv /\ AddUserProfile => DatabaseSetupIInv'
<1> SUFFICES ASSUME DatabaseSetupIInv, AddUserProfile PROVE DatabaseSetupIInv'
  OBVIOUS
<1>1. /\ history["0001"] = "pending" /\ history' = [history EXCEPT !["0001"] = userProfileEnds]
      /\ UNCHANGED <<teams, matches, seeds, edits>>
      /\ DatabaseSetupTypeOK /\ history["0002"] = "pending"
  BY DEF AddUserProfile, DatabaseSetupIInv, migrated
<1>2. userProfileEnds \in {"applied"} \cup Refusals
  BY DEF userProfileEnds, Refusals
<1>3. /\ history' \in [Migrations -> {"pending", "applied"} \cup Refusals]
      /\ history'["0001"] = userProfileEnds /\ history'["0002"] = "pending"
  BY <1>1, <1>2 DEF DatabaseSetupTypeOK, Migrations
<1>4. CASE userProfileEnds # "applied"
  <2>1. UNCHANGED <<users, objects>>
    BY <1>4 DEF AddUserProfile
  <2>2. scriptsLeave' /\ current' = current
    BY <1>1, <2>1 DEF DatabaseSetupIInv, scriptsLeave, startedNew, startedOlder, current
  <2>3. (RowsStopMigrations /\ migrated)'
    BY <1>3, <1>4 DEF RowsStopMigrations, migrated
  <2> QED
    BY <1>1, <1>3, <2>1, <2>2, <2>3, ScriptHolds DEF DatabaseSetupTypeOK, tables, DatabaseSetupIInv
<1>5. CASE userProfileEnds = "applied"
  <2>1. /\ "users" \in objects /\ "userColumns" \notin objects /\ distinct(backfilled(users))
        /\ users' = backfilled(users)
        /\ objects' = objects \cup {"userColumns", "profiles"}
    BY <1>5 DEF userProfileEnds, AddUserProfile
  <2>2. startedOlder
    BY <2>1 DEF DatabaseSetupIInv, scriptsLeave, startedNew
  <2>3. scriptsLeave' /\ current' = current
    BY <1>1, <2>1, <2>2 DEF scriptsLeave, startedOlder, current, Older
  <2>4. oneRow(users)
    BY <1>1, <2>1, PlaceholderOnce DEF DatabaseSetupTypeOK
  <2>5. /\ users' \in [Users -> {Placeholder, NoValue, NoRow}]
        /\ \A u \in Users : users'[u] = NoRow <=> users[u] = NoRow
    BY <1>1, <2>1, DatabaseSetupAssumption DEF DatabaseSetupTypeOK, backfilled, Placeholder
  <2>6. oneRow(users)'
    BY <1>1, <2>4, <2>5 DEF oneRow, DatabaseSetupTypeOK
  <2>7. (RowsStopMigrations /\ migrated)'
    BY <1>3, <1>5, <2>6 DEF RowsStopMigrations, migrated
  <2>8. DatabaseSetupTypeOK'
    BY <1>1, <1>3, <2>1, <2>5 DEF DatabaseSetupTypeOK, Schema, statements, seeds, running
  <2>9. SeedEnsured' /\ \A s \in Seeds : seedCameTo(s)'
    BY <1>1, <2>3, ScriptsKeepSeeds
  <2>10. matchesRefer' /\ teamsHaveIds'
    BY <1>1, <2>3 DEF DatabaseSetupIInv, matchesRefer, refersToTeams, teamsHaveIds
  <2> QED
    BY <2>3, <2>7, <2>8, <2>9, <2>10 DEF DatabaseSetupIInv
<1> QED
  BY <1>4, <1>5

(* 0002: were there a match, its two teams would both get the placeholder.   *)
LEMMA MatchesAreRefused ==
    ASSUME DatabaseSetupIInv, "enumTypes" \notin objects, NEW m \in Matches, matches[m] # NoRow
    PROVE  ~distinct(backfilled(teams))
<1> DEFINE h == matches[m].home
           a == matches[m].away
<1>1. h \in Teams /\ a \in Teams /\ h # a /\ teams[h] # NoRow /\ teams[a] # NoRow
  BY DEF DatabaseSetupIInv, DatabaseSetupTypeOK, MatchRows, matchesRefer, refersToTeams
<1>2. ~current
  BY DEF DatabaseSetupIInv, scriptsLeave, startedNew, startedOlder, current
<1>3. \A t \in Teams : teams[t] \in {Placeholder, NoValue, NoRow}
  BY <1>2 DEF DatabaseSetupIInv, teamsHaveIds
<1>4. DOMAIN teams = Teams
  BY DEF DatabaseSetupIInv, DatabaseSetupTypeOK
<1> QED
  BY <1>1, <1>3, <1>4, PlaceholderOnce DEF oneRow

LEMMA TeamMatchEnumsHolds == DatabaseSetupIInv /\ TeamMatchEnums => DatabaseSetupIInv'
<1> SUFFICES ASSUME DatabaseSetupIInv, TeamMatchEnums PROVE DatabaseSetupIInv'
  OBVIOUS
<1>1. /\ history["0001"] = "applied"
      /\ history' = [history EXCEPT !["0002"] = teamMatchEnumsEnds]
      /\ UNCHANGED <<objects, tables, seeds, edits>>
      /\ DatabaseSetupTypeOK /\ oneRow(users)
  BY DEF TeamMatchEnums, DatabaseSetupIInv, migrated
<1>2. teamMatchEnumsEnds \in Refusals /\ teamMatchEnumsEnds # "text"
  <2>1. CASE "enumTypes" \in objects \/ ~distinct(backfilled(teams))
    BY <2>1 DEF teamMatchEnumsEnds, Refusals
  <2>2. CASE "enumTypes" \notin objects /\ distinct(backfilled(teams))
    <3>1. textsCast
      BY <2>2, MatchesAreRefused DEF textsCast
    <3> QED
      BY <2>2, <3>1 DEF teamMatchEnumsEnds, Refusals
  <2> QED
    BY <2>1, <2>2
<1>3. /\ history' \in [Migrations -> {"pending", "applied"} \cup Refusals]
      /\ history'["0001"] = "applied" /\ history'["0002"] = teamMatchEnumsEnds
  BY <1>1, <1>2 DEF DatabaseSetupTypeOK, Migrations
<1>4. (RowsStopMigrations /\ migrated)'
  BY <1>1, <1>2, <1>3 DEF RowsStopMigrations, migrated, oneRow, tables
<1>5. scriptsLeave' /\ current' = current
  BY <1>1 DEF DatabaseSetupIInv, scriptsLeave, startedNew, startedOlder, current, tables
<1> QED
  BY <1>1, <1>3, <1>4, <1>5, ScriptHolds DEF DatabaseSetupTypeOK

LEMMA ResolveHolds ==
    ASSUME DatabaseSetupIInv, NEW m \in Migrations, Resolve(m)
    PROVE  DatabaseSetupIInv'
<1>1. /\ history[m] \in Refusals
      /\ history' = [history EXCEPT ![m] = "pending"]
      /\ UNCHANGED <<objects, tables, seeds, edits>> /\ DatabaseSetupTypeOK
  BY DEF Resolve, DatabaseSetupIInv
<1>2. history' \in [Migrations -> {"pending", "applied"} \cup Refusals]
  BY <1>1 DEF DatabaseSetupTypeOK
<1>3. (RowsStopMigrations /\ migrated)'
  BY <1>1 DEF DatabaseSetupIInv, DatabaseSetupTypeOK, RowsStopMigrations, migrated, oneRow,
              tables, Migrations, Refusals
<1>4. scriptsLeave' /\ current' = current
  BY <1>1 DEF DatabaseSetupIInv, scriptsLeave, startedNew, startedOlder, current, tables
<1> QED
  BY <1>1, <1>2, <1>3, <1>4, ScriptHolds DEF DatabaseSetupTypeOK

-----------------------------------------------------------------------------
(* The seeds.  A seed that starts has ensured nothing yet.                   *)
LEMMA StartSeedHolds ==
    ASSUME DatabaseSetupIInv, NEW s \in Seeds, StartSeed(s)
    PROVE  DatabaseSetupIInv'
<1> USE DEF DatabaseSetupIInv, StartSeed, tables
<1>1. 1 \in DOMAIN TEAMS /\ 1 \in 1 .. Len(TEAMS) + 1 /\ 1 .. 1 - 1 = {} /\ ~(1 > 1)
  BY TheList
<1>2. DatabaseSetupTypeOK'
  BY <1>1 DEF DatabaseSetupTypeOK, running
<1>3. (RowsStopMigrations /\ migrated /\ scriptsLeave /\ matchesRefer /\ teamsHaveIds)'
  BY DEF RowsStopMigrations, oneRow, migrated, scriptsLeave, startedNew, startedOlder, current,
         matchesRefer, refersToTeams, teamsHaveIds
<1>4. SeedEnsured'
  BY DEF SeedEnsured, ensured, DatabaseSetupTypeOK
<1>5. ASSUME NEW q \in Seeds PROVE seedCameTo(q)'
  <2>1. CASE q = s
    BY <1>1, <2>1 DEF seedCameTo, running, DatabaseSetupTypeOK
  <2>2. CASE q # s
    BY <2>2 DEF seedCameTo, running, DatabaseSetupTypeOK, ensured, current
  <2> QED
    BY <2>1, <2>2
<1> QED
  BY <1>2, <1>3, <1>4, <1>5

(* A seed that stops, fails or is about to insert leaves the tables alone.   *)
LEMMA EndsHolds ==
    ASSUME DatabaseSetupIInv, NEW s \in Seeds, running(s),
           NEW how \in {"failed", "stopped", "inserting"}, ends(s, how),
           how = "inserting" => current,
           UNCHANGED <<objects, history, matches, users, since, edits>>
    PROVE  DatabaseSetupIInv'
<1> USE DEF DatabaseSetupIInv, ends
<1>1. DatabaseSetupTypeOK'
  BY DEF DatabaseSetupTypeOK, running
<1>2. (RowsStopMigrations /\ migrated /\ scriptsLeave /\ matchesRefer /\ teamsHaveIds)'
  BY DEF RowsStopMigrations, oneRow, migrated, scriptsLeave, startedNew, startedOlder, current,
         matchesRefer, refersToTeams, teamsHaveIds
<1>3. SeedEnsured'
  BY DEF SeedEnsured, ensured, DatabaseSetupTypeOK
<1>4. ASSUME NEW q \in Seeds PROVE seedCameTo(q)'
  <2>1. seedCameTo(q) /\ seedCameTo(s)
    OBVIOUS
  <2>2. CASE q = s
    BY <2>1, <2>2 DEF seedCameTo, running, DatabaseSetupTypeOK, ensured, current
  <2>3. CASE q # s
    BY <2>1, <2>3 DEF seedCameTo, running, DatabaseSetupTypeOK, ensured, current
  <2> QED
    BY <2>2, <2>3
<1> QED
  BY <1>1, <1>2, <1>3, <1>4

(* An upsert gives a team its id, and no other team: no two are listed alike.*)
LEMMA UpsertEnsures ==
    ASSUME DatabaseSetupIInv, NEW s \in Seeds, running(s),
           teams' = [teams EXCEPT ![team(s)] = next[s]]
    PROVE  /\ \A i \in DOMAIN TEAMS : ensured(i) \/ i = next[s] => ensured(i)'
           /\ team(s) \in Teams /\ next[s] \in Nat \ {0}
<1>1. next[s] \in DOMAIN TEAMS /\ team(s) \in Teams
  BY TheList DEF DatabaseSetupIInv, DatabaseSetupTypeOK, team
<1>2. teams \in [Teams -> Nat \cup {NoValue, NoRow}]
  BY DEF DatabaseSetupIInv, DatabaseSetupTypeOK
<1>3. teams'[team(s)] = next[s] /\ \A t \in Teams : t # team(s) => teams'[t] = teams[t]
  BY <1>1, <1>2
<1>4. \A i \in DOMAIN TEAMS : TEAMS[i] = team(s) => i = next[s]
  BY <1>1, DatabaseSetupAssumption DEF team
<1>5. \A i \in DOMAIN TEAMS : teams[TEAMS[i]] = i => teams'[TEAMS[i]] = i
  BY <1>3, <1>4, TheList
<1>6. \A i \in DOMAIN TEAMS : i = next[s] => teams'[TEAMS[i]] = i
  BY <1>3 DEF team
<1>7. next[s] \in Nat \ {0}
  BY <1>1, TheList
<1> QED
  BY <1>1, <1>5, <1>6, <1>7 DEF ensured

LEMMA WritesHolds ==
    ASSUME DatabaseSetupIInv, NEW s \in Seeds, running(s), current, writes(s),
           UNCHANGED <<objects, history, matches, users, since, edits>>
    PROVE  DatabaseSetupIInv'
<1>1. CASE ~idFree(s) /\ ends(s, "failed")
  BY <1>1, EndsHolds
<1>2. CASE /\ idFree(s)
           /\ teams' = [teams EXCEPT ![team(s)] = next[s]]
           /\ next' = [next EXCEPT ![s] = @ + 1]
           /\ status' = [status EXCEPT ![s] = IF next[s] = Len(TEAMS) THEN "ok" ELSE "running"]
  <2> USE DEF DatabaseSetupIInv
  <2>1. next[s] \in DOMAIN TEAMS /\ DatabaseSetupTypeOK
    BY DEF DatabaseSetupTypeOK
  <2>2. /\ \A i \in DOMAIN TEAMS : ensured(i) \/ i = next[s] => ensured(i)'
        /\ team(s) \in Teams /\ next[s] \in Nat \ {0}
    BY <1>2, UpsertEnsures
  <2>3. /\ teams'[team(s)] = next[s]
        /\ \A t \in Teams : t # team(s) => teams'[t] = teams[t]
        /\ teams' \in [Teams -> Nat \cup {NoValue, NoRow}]
    BY <1>2, <2>1, <2>2 DEF DatabaseSetupTypeOK
  <2>4. /\ next'[s] = next[s] + 1 /\ next' \in [Seeds -> 1 .. Len(TEAMS) + 1]
        /\ \A q \in Seeds : q # s => next'[q] = next[q] /\ status'[q] = status[q]
        /\ status'[s] = IF next[s] = Len(TEAMS) THEN "ok" ELSE "running"
    <3>1. next[s] + 1 \in 1 .. Len(TEAMS) + 1
      BY <2>1, TheList
    <3> QED
      BY <1>2, <2>1, <3>1 DEF DatabaseSetupTypeOK
  <2>5. next[s] # Len(TEAMS) => next[s] + 1 \in DOMAIN TEAMS
    BY <2>1, TheList
  <2>6. DatabaseSetupTypeOK'
    <3>1. status' \in [Seeds -> {"idle", "running", "inserting", "ok", "failed", "stopped"}]
      BY <1>2, <2>1 DEF DatabaseSetupTypeOK
    <3>2. \A q \in Seeds : running(q)' => next'[q] \in DOMAIN TEAMS
      BY <2>1, <2>4, <2>5 DEF running, DatabaseSetupTypeOK
    <3> QED
      BY <2>1, <2>3, <2>4, <3>1, <3>2 DEF DatabaseSetupTypeOK
  <2>7. (RowsStopMigrations /\ migrated)'
    BY DEF RowsStopMigrations, oneRow, migrated
  <2>8. next[s] # NoRow /\ next[s] # NoValue
    BY <2>2, DatabaseSetupAssumption
  <2>9. matchesRefer'
    <3> SUFFICES ASSUME NEW m \in Matches, matches[m] # NoRow PROVE refersToTeams(matches[m])'
      BY DEF matchesRefer, current
    <3>1. /\ refersToTeams(matches[m])
          /\ matches[m].home \in Teams /\ matches[m].away \in Teams
      BY <2>1 DEF matchesRefer, DatabaseSetupTypeOK, MatchRows
    <3> QED
      BY <2>3, <2>8, <3>1 DEF refersToTeams
  <2>10. scriptsLeave' /\ teamsHaveIds'
    BY <2>2, <2>3, <2>8 DEF scriptsLeave, startedNew, startedOlder, teamsHaveIds, current
  <2>11. SeedEnsured'
    <3> SUFFICES ASSUME NEW q \in Seeds, status'[q] = "ok", since[q] = edits
                 PROVE  \A i \in DOMAIN TEAMS : ensured(i)'
      BY DEF SeedEnsured
    <3>1. CASE q = s
      <4>1. next[s] = Len(TEAMS) /\ seedCameTo(s)
        BY <2>4, <3>1
      <4>2. \A i \in DOMAIN TEAMS : i = next[s] \/ i \in 1 .. next[s] - 1
        BY <4>1, TheList
      <4>3. \A i \in 1 .. next[s] - 1 : ensured(i)
        BY <3>1, <4>1 DEF seedCameTo
      <4> QED
        BY <2>2, <4>2, <4>3
    <3>2. CASE q # s
      BY <2>2, <2>4, <3>2 DEF SeedEnsured
    <3> QED
      BY <3>1, <3>2
  <2>12. ASSUME NEW q \in Seeds PROVE seedCameTo(q)'
    <3>1. seedCameTo(q) /\ current'
      BY DEF current
    <3>2. CASE q = s
      <4>1. \A i \in 1 .. (next[s] + 1) - 1 : i \in DOMAIN TEAMS /\ (i = next[s] \/ i \in 1 .. next[s] - 1)
        BY <2>1, TheList
      <4>2. since[s] = edits => \A i \in 1 .. next[s] - 1 : ensured(i)
        BY <3>1, <3>2 DEF seedCameTo
      <4>3. since[s] = edits => \A i \in 1 .. (next[s] + 1) - 1 : ensured(i)'
        BY <2>2, <4>1, <4>2
      <4> QED
        BY <2>4, <3>1, <3>2, <4>3 DEF seedCameTo
    <3>3. CASE q # s
      <4>1. running(q) => \A i \in 1 .. next[q] - 1 : i \in DOMAIN TEAMS
        BY <2>1, TheList DEF DatabaseSetupTypeOK
      <4> QED
        BY <2>2, <2>4, <3>1, <3>3, <4>1 DEF seedCameTo, running
    <3> QED
      BY <3>2, <3>3
  <2> QED
    BY <2>6, <2>7, <2>9, <2>10, <2>11, <2>12
<1> QED
  BY <1>1, <1>2 DEF writes

LEMMA UpsertHolds ==
    ASSUME DatabaseSetupIInv, NEW s \in Seeds, Upsert(s)
    PROVE  DatabaseSetupIInv'
<1>1. running(s)
  BY DEF Upsert, running
<1>2. CASE ~current /\ ends(s, "failed")
  BY <1>1, <1>2, EndsHolds DEF Upsert
<1>3. CASE current /\ ends(s, "inserting")
  BY <1>1, <1>3, EndsHolds DEF Upsert
<1>4. CASE current /\ writes(s)
  BY <1>1, <1>4, WritesHolds DEF Upsert
<1> QED
  BY <1>2, <1>3, <1>4 DEF Upsert

LEMMA InsertHolds ==
    ASSUME DatabaseSetupIInv, NEW s \in Seeds, Insert(s)
    PROVE  DatabaseSetupIInv'
<1>1. running(s) /\ current
  BY DEF Insert, running, DatabaseSetupIInv, seedCameTo
<1>2. CASE writes(s)
  BY <1>1, <1>2, WritesHolds DEF Insert
<1>3. CASE ends(s, "failed")
  BY <1>1, <1>3, EndsHolds DEF Insert
<1> QED
  BY <1>2, <1>3 DEF Insert

LEMMA StopSeedHolds ==
    ASSUME DatabaseSetupIInv, NEW s \in Seeds, StopSeed(s)
    PROVE  DatabaseSetupIInv'
  BY EndsHolds DEF StopSeed

-----------------------------------------------------------------------------
(* The edits.  No seed has started after the next edit.                      *)
LEMMA EditsKeepSeeds ==
    ASSUME DatabaseSetupIInv, UNCHANGED <<objects, seeds>>, edits' = edits + 1
    PROVE  SeedEnsured' /\ \A s \in Seeds : seedCameTo(s)'
<1>1. ASSUME NEW s \in Seeds PROVE since'[s] \in Nat /\ since'[s] <= edits /\ since'[s] # edits'
  BY DEF DatabaseSetupIInv, DatabaseSetupTypeOK, seedCameTo, seeds
<1>2. SeedEnsured'
  BY <1>1 DEF SeedEnsured
<1>3. ASSUME NEW s \in Seeds PROVE seedCameTo(s)'
  <2>1. since'[s] <= edits'
    BY <1>1 DEF DatabaseSetupIInv, DatabaseSetupTypeOK
  <2> QED
    BY <1>1, <2>1 DEF DatabaseSetupIInv, seedCameTo, seeds, running, current
<1> QED
  BY <1>2, <1>3

(* The ids that editors give.                                                *)
LEMMA NewIds ==
    ASSUME NEW id \in newIds
    PROVE  /\ id \in Nat \cup {NoValue} /\ id # NoRow /\ id # Placeholder
           /\ current <=> id # NoValue
  BY DatabaseSetupAssumption DEF newIds, Placeholder

LEMMA EditTeamHolds ==
    ASSUME DatabaseSetupIInv, NEW t \in Teams, EditTeam(t)
    PROVE  DatabaseSetupIInv'
<1> USE DEF DatabaseSetupIInv
<1>1. PICK id \in newIds \cup {NoRow} :
        /\ id = NoRow => ~refersTo(t)
        /\ teams' = [teams EXCEPT ![t] = id]
  BY DEF EditTeam
<1>2. /\ UNCHANGED <<objects, history, matches, users, seeds>> /\ edits' = edits + 1
      /\ "teams" \in objects
  BY DEF EditTeam
<1>3. /\ teams' \in [Teams -> Nat \cup {NoValue, NoRow}]
      /\ teams'[t] = id /\ \A o \in Teams : o # t => teams'[o] = teams[o]
  BY <1>1, NewIds DEF DatabaseSetupTypeOK
<1>4. DatabaseSetupTypeOK'
  BY <1>2, <1>3 DEF DatabaseSetupTypeOK, seeds, running
<1>5. (RowsStopMigrations /\ migrated /\ scriptsLeave)'
  BY <1>2 DEF RowsStopMigrations, oneRow, migrated, scriptsLeave, startedNew, startedOlder, current
<1>6. SeedEnsured' /\ \A s \in Seeds : seedCameTo(s)'
  BY <1>2, EditsKeepSeeds
<1>7. teamsHaveIds'
  BY <1>1, <1>2, <1>3, NewIds DEF teamsHaveIds, current
<1>8. matchesRefer'
  <2> SUFFICES ASSUME NEW m \in Matches, matches[m] # NoRow PROVE refersToTeams(matches[m])'
    BY <1>2 DEF matchesRefer, current
  <2>1. /\ refersToTeams(matches[m])
        /\ matches[m].home \in Teams /\ matches[m].away \in Teams
    BY DEF matchesRefer, DatabaseSetupTypeOK, MatchRows
  <2>2. t \in {matches[m].home, matches[m].away} => id # NoRow
    BY <1>1 DEF refersTo
  <2> QED
    BY <1>2, <1>3, <2>1, <2>2 DEF refersToTeams
<1> QED
  BY <1>4, <1>5, <1>6, <1>7, <1>8

LEMMA EditMatchHolds ==
    ASSUME DatabaseSetupIInv, NEW m \in Matches, EditMatch(m)
    PROVE  DatabaseSetupIInv'
<1> USE DEF DatabaseSetupIInv
<1>1. PICK row \in newRows \cup {NoRow} : matches' = [matches EXCEPT ![m] = row]
  BY DEF EditMatch
<1>2. UNCHANGED <<objects, history, teams, users, seeds>> /\ edits' = edits + 1
  BY DEF EditMatch
<1>3. row # NoRow => row \in MatchRows /\ refersToTeams(row)
  BY DatabaseSetupAssumption DEF newRows, MatchRows
<1>4. /\ matches' \in [Matches -> MatchRows \cup {NoRow}]
      /\ matches'[m] = row /\ \A n \in Matches : n # m => matches'[n] = matches[n]
  BY <1>1, <1>3 DEF DatabaseSetupTypeOK
<1>5. DatabaseSetupTypeOK'
  BY <1>2, <1>4 DEF DatabaseSetupTypeOK, seeds, running
<1>6. (RowsStopMigrations /\ migrated /\ scriptsLeave /\ teamsHaveIds)'
  BY <1>2 DEF RowsStopMigrations, oneRow, migrated, scriptsLeave, startedNew, startedOlder, current,
              teamsHaveIds
<1>7. SeedEnsured' /\ \A s \in Seeds : seedCameTo(s)'
  BY <1>2, EditsKeepSeeds
<1>8. matchesRefer'
  BY <1>2, <1>3, <1>4 DEF matchesRefer, refersToTeams
<1> QED
  BY <1>5, <1>6, <1>7, <1>8

-----------------------------------------------------------------------------
LEMMA StutterHolds == DatabaseSetupIInv /\ UNCHANGED setupVars => DatabaseSetupIInv'
<1> SUFFICES ASSUME DatabaseSetupIInv, UNCHANGED setupVars PROVE DatabaseSetupIInv'
  OBVIOUS
<1> USE DEF DatabaseSetupIInv, setupVars, tables, seeds
<1>1. DatabaseSetupTypeOK'
  BY DEF DatabaseSetupTypeOK, running
<1>2. (RowsStopMigrations /\ migrated /\ scriptsLeave /\ matchesRefer /\ teamsHaveIds)'
  BY DEF RowsStopMigrations, oneRow, migrated, scriptsLeave, startedNew, startedOlder, current,
         matchesRefer, refersToTeams, teamsHaveIds
<1>3. SeedEnsured' /\ \A s \in Seeds : seedCameTo(s)'
  BY DEF SeedEnsured, seedCameTo, ensured, running, current
<1> QED
  BY <1>1, <1>2, <1>3

LEMMA NextHolds == DatabaseSetupIInv /\ [DatabaseSetupNext]_setupVars => DatabaseSetupIInv'
  BY FirstStartHolds, InitSqlHolds, AddUserProfileHolds, TeamMatchEnumsHolds, ResolveHolds, StartSeedHolds, UpsertHolds,
     InsertHolds, StopSeedHolds, EditTeamHolds, EditMatchHolds, StutterHolds
     DEF DatabaseSetupNext

(* The inductive invariant holds of every run of the scripts, the seeds and  *)
(* the editors.                                                              *)
THEOREM DatabaseSetupInvariance == DatabaseSetupSpec => []DatabaseSetupIInv
  BY InitHolds, NextHolds, PTL DEF DatabaseSetupSpec

(* Tables and seeds keep their types, and a running seed has a team left.    *)
THEOREM DatabaseSetupTypeCorrect == DatabaseSetupSpec => []DatabaseSetupTypeOK
<1>1. DatabaseSetupIInv => DatabaseSetupTypeOK
  BY DEF DatabaseSetupIInv
<1> QED
  BY <1>1, DatabaseSetupInvariance, PTL

(* Two users keep 0002 from being tried, two teams keep it from a text.      *)
THEOREM MigrationsStopAtRows == DatabaseSetupSpec => []RowsStopMigrations
<1>1. DatabaseSetupIInv => RowsStopMigrations
  BY DEF DatabaseSetupIInv
<1> QED
  BY <1>1, DatabaseSetupInvariance, PTL

(* A seed that ended well, without edits since, has given all ids.           *)
THEOREM SeedEnsures == DatabaseSetupSpec => []SeedEnsured
<1>1. DatabaseSetupIInv => SeedEnsured
  BY DEF DatabaseSetupIInv
<1> QED
  BY <1>1, DatabaseSetupInvariance, PTL

(* A seed fails for its three reasons only: a listed team before the one     *)
(* that it has come to holds its own id, hence not the one that is taken.    *)
LEMMA TakenIdBlocks ==
    ASSUME DatabaseSetupIInv, NEW s \in Seeds, running(s), since[s] = edits, ~idFree(s)
    PROVE  blocked
<1>1. /\ next[s] \in DOMAIN TEAMS
      /\ \A i \in 1 .. next[s] - 1 : ensured(i)
  BY DEF DatabaseSetupIInv, DatabaseSetupTypeOK, seedCameTo
<1>2. PICK t \in Teams \ {team(s)} : teams[t] = next[s]
  BY DEF idFree
<1>3. ASSUME NEW j \in 1 .. next[s], t = TEAMS[j] PROVE FALSE
  <2>1. j # next[s]
    BY <1>2, <1>3 DEF team
  <2>2. j \in 1 .. next[s] - 1
    BY <1>1, <2>1, TheList
  <2> QED
    BY <1>1, <1>2, <1>3, <2>1, <2>2 DEF ensured
<1> QED
  BY <1>1, <1>2, <1>3 DEF blocked

LEMMA FailsForAReason ==
    DatabaseSetupIInv /\ [DatabaseSetupNext]_setupVars
      => [\A s \in Seeds : status[s] # "failed" /\ status'[s] = "failed" => mayFail(s)]_setupVars
<1> SUFFICES ASSUME DatabaseSetupIInv, DatabaseSetupNext, NEW s \in Seeds,
                    status[s] # "failed", status'[s] = "failed"
             PROVE  mayFail(s)
  OBVIOUS
<1> USE DEF ends
<1>1. status \in [Seeds -> {"idle", "running", "inserting", "ok", "failed", "stopped"}]
  BY DEF DatabaseSetupIInv, DatabaseSetupTypeOK
<1>2. ASSUME NEW q \in Seeds, q # s, Upsert(q) \/ Insert(q) \/ StopSeed(q) \/ StartSeed(q)
      PROVE  FALSE
  BY <1>1, <1>2 DEF Upsert, Insert, StopSeed, StartSeed, writes
<1>3. CASE Upsert(s)
  <2>1. running(s)
    BY <1>3 DEF Upsert, running
  <2>2. ~current \/ ~idFree(s)
    BY <1>1, <1>3 DEF Upsert, writes
  <2> QED
    BY <2>1, <2>2, TakenIdBlocks DEF mayFail
<1>4. CASE Insert(s)
  <2>1. running(s)
    BY <1>4 DEF Insert, running
  <2>2. raced(s) \/ ~idFree(s)
    BY <1>1, <1>4 DEF Insert, writes
  <2> QED
    BY <2>1, <2>2, TakenIdBlocks DEF mayFail
<1>5. CASE StopSeed(s) \/ StartSeed(s)
  BY <1>1, <1>5 DEF StopSeed, StartSeed
<1>6. CASE FirstStart \/ InitSql \/ AddUserProfile \/ TeamMatchEnums \/ \E m \in Migrations : Resolve(m)
  BY <1>6 DEF FirstStart, InitSql, AddUserProfile, TeamMatchEnums, Resolve, seeds
<1>7. CASE (\E t \in Teams : EditTeam(t)) \/ (\E m \in Matches : EditMatch(m))
  BY <1>7 DEF EditTeam, EditMatch, seeds
<1> QED
  BY <1>2, <1>3, <1>4, <1>5, <1>6, <1>7 DEF DatabaseSetupNext

(* A seed never gives up for another reason than the three.                  *)
THEOREM SeedFailsOnlyIfBlocked == DatabaseSetupSpec => FailsOnlyIfBlocked
  BY DatabaseSetupInvariance, FailsForAReason, PTL DEF DatabaseSetupSpec, FailsOnlyIfBlocked

(* Whatever is run on an older database, or on one whose first start was cut *)
(* short, it never has the whole schema.                                     *)
THEOREM PartIsForGood == DatabaseSetupSpec => PartialForGood
<1>1. DatabaseSetupIInv /\ [DatabaseSetupNext]_setupVars => [partial => partial']_setupVars
  <2> SUFFICES ASSUME DatabaseSetupIInv, DatabaseSetupNext, partial PROVE partial'
    OBVIOUS
  <2>1. {"enumTypes", "apiFootballIds", "userColumns"} \subseteq Schema
    BY DEF Schema, statements
  <2>2. CASE FirstStart \/ UNCHANGED objects
    BY <2>2 DEF FirstStart, partial
  <2>3. CASE InitSql
    <3>1. startedOlder /\ "teams" \in objects
      BY <2>3 DEF InitSql, partial, DatabaseSetupIInv, scriptsLeave, startedNew, startedOlder, Older
    <3>2. 6 \in DOMAIN statements /\ objects' = after(6)
      BY <2>3 DEF InitSql, statements
    <3>3. "apiFootballIds" \notin objects' /\ objects' # {}
      BY <3>1, <3>2, AfterStatements DEF startedOlder, current
    <3> QED
      BY <2>1, <3>3 DEF partial
  <2>4. CASE AddUserProfile /\ userProfileEnds = "applied"
    <3>1. /\ startedOlder
          /\ objects' = objects \cup {"userColumns", "profiles"}
      BY <2>4 DEF AddUserProfile, userProfileEnds, DatabaseSetupIInv, scriptsLeave, startedNew
    <3> QED
      BY <2>1, <3>1 DEF startedOlder, current, partial
  <2> QED
    BY <2>2, <2>3, <2>4
       DEF DatabaseSetupNext, AddUserProfile, TeamMatchEnums, Resolve, StartSeed, Upsert, Insert,
           StopSeed, EditTeam, EditMatch
<1> QED
  BY <1>1, DatabaseSetupInvariance, PTL DEF DatabaseSetupSpec, PartialForGood

-----------------------------------------------------------------------------
(* No step but an edit takes the id of a listed team away: an upsert of      *)
(* another team leaves it alone.                                             *)
LEMMA OnlyEditsUndo ==
    ASSUME DatabaseSetupIInv, [DatabaseSetupNext]_setupVars, edits' = edits,
           NEW i \in DOMAIN TEAMS, ensured(i)
    PROVE  ensured(i)'
<1>1. TEAMS[i] \in Teams /\ i \in Nat /\ DatabaseSetupTypeOK
  BY TheList DEF DatabaseSetupIInv
<1>2. ASSUME NEW s \in Seeds, running(s), writes(s) PROVE ensured(i)'
  <2>1. CASE UNCHANGED teams
    BY <2>1 DEF ensured
  <2>2. CASE teams' = [teams EXCEPT ![team(s)] = next[s]]
    BY <1>2, <2>2, UpsertEnsures
  <2> QED
    BY <1>2, <2>1, <2>2 DEF writes, ends
<1>3. CASE \E s \in Seeds : Upsert(s) \/ Insert(s)
  BY <1>2, <1>3 DEF Upsert, Insert, running, ends, ensured
<1>4. CASE UNCHANGED teams
  BY <1>4 DEF ensured
<1>5. CASE \E t \in Teams : EditTeam(t)
  BY <1>5 DEF EditTeam, DatabaseSetupIInv, DatabaseSetupTypeOK
<1> QED
  BY <1>3, <1>4, <1>5
     DEF DatabaseSetupNext, FirstStart, InitSql, AddUserProfile, TeamMatchEnums, Resolve, StartSeed, StopSeed, ends, EditMatch,
         tables, setupVars

(* Whichever scripts and seeds run together, and wherever they stop, a team  *)
(* that has its listed id keeps it until somebody edits the tables: the set  *)
(* of these teams grows until it has all, as RerunsConverge needs            *)
(* (seed.ts:27-33).                                                          *)
THEOREM SeedsUndoNothing ==
    DatabaseSetupSpec =>
      [][edits' = edits => \A i \in DOMAIN TEAMS : ensured(i) => ensured(i)']_setupVars
<1>1. DatabaseSetupIInv /\ [DatabaseSetupNext]_setupVars =>
        [edits' = edits => \A i \in DOMAIN TEAMS : ensured(i) => ensured(i)']_setupVars
  BY OnlyEditsUndo
<1> QED
  BY <1>1, DatabaseSetupInvariance, PTL DEF DatabaseSetupSpec
=============================================================================
