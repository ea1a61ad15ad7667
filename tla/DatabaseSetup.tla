--------------------------- MODULE DatabaseSetup ----------------------------
(* How a database gets the schema and the teams that the services expect:    *)
(* scripts/init.sql, the two migrations of prisma/migrations, and seed.ts,   *)
(* with seeds that run at the same time, stop half way and are run again.    *)
(*                                                                           *)
(* External: PostgreSQL, which applies a script sent as one query as a whole *)
(* or not at all, and inserts with ON CONFLICT, which finds that there is no *)
(* row and then inserts it; its container, whose first start sends init.sql  *)
(* one statement after the other; Prisma, which applies the migrations in    *)
(* order and records how each ended; and whoever edits the tables by hand    *)
(* (npm run db:studio).                                                      *)
EXTENDS Naturals, Sequences

CONSTANTS Teams,        \* names of teams
          TEAMS,        \* the names that seed.ts lists; the id of the i-th is i
          Matches,
          Users,
          Texts,        \* what a stage or a status may be while it is a VARCHAR
          Castable,     \* those of them that the enum types have
          Ids,          \* ids that editors give: never the placeholder
          Seeds,        \* processes of npm run db:seed
          MaxEdits,     \* bound: edits by hand
          NoRow, NoValue

Placeholder == 0

ASSUME DatabaseSetupAssumption ==
    /\ TEAMS \in Seq(Teams) /\ TEAMS # << >>
    /\ \A i, j \in DOMAIN TEAMS : TEAMS[i] = TEAMS[j] => i = j
    /\ Castable \subseteq Texts
    /\ Ids \subseteq Nat \ {Placeholder}
    /\ MaxEdits \in Nat
    /\ NoRow \notin Nat /\ NoValue \notin Nat /\ NoRow # NoValue

VARIABLES objects,   \* what there is of the schema
          history,   \* Prisma's record of each migration, with the error
          teams,     \* the api_football_id of each team
          matches,   \* the row of each match
          users,     \* the username of each user
          status,    \* what each seed is doing
          next,      \* the index in TEAMS it has come to
          edits,     \* how many edits there were
          since      \* history: how many of them before the seed started

tables == <<teams, matches, users>>
seeds == <<status, next, since>>
setupVars == <<objects, history, tables, seeds, edits>>

(* init.sql: what each statement creates, if its table is not there yet.     *)
statements ==
    << {"enumTypes"}, {"teams", "apiFootballIds"}, {"matches"}, {"users", "userColumns"},
       {"profiles"}, {"predictions"} >>

Schema == UNION {statements[i] : i \in DOMAIN statements}

(* What the migrations alter: line 57 of 0002 names the default of status.   *)
Older == {"teams", "matches", "statusDefault", "users", "predictions"}

Migrations == {"0001", "0002"}

(* The errors of the migrations: an object is missing or there already, two  *)
(* rows have one key, a text is no value of the enum type, or the default of *)
(* the column cannot be converted.                                           *)
Refusals == {"schema", "rows", "text", "default"}

MatchRows == [home : Teams, away : Teams, text : Texts]

(* The teams that schema.prisma and the seed are written for.                *)
current == "apiFootballIds" \in objects

-----------------------------------------------------------------------------
(* A new column gets the placeholder in every row, and is then made unique.  *)
backfilled(column) ==
    [k \in DOMAIN column |-> IF column[k] = NoValue THEN Placeholder ELSE column[k]]

\* mutant: the unique index is left out
distinctOrNot(column) == TRUE

distinct(column) ==
    \A k, l \in DOMAIN column : k # l /\ column[k] # NoRow => column[k] # column[l]

(* A row of matches refers to two teams, which exist.                        *)
refersToTeams(row) ==
    row.home # row.away /\ teams[row.home] # NoRow /\ teams[row.away] # NoRow

(* A new database, or one of before the migrations, with rows in its tables. *)
DatabaseSetupInit ==
    /\ \/ /\ objects = {}
          /\ teams = [t \in Teams |-> NoRow]
          /\ matches = [m \in Matches |-> NoRow]
          /\ users = [u \in Users |-> NoRow]
       \/ /\ objects = Older
          /\ teams \in [Teams -> {NoValue, NoRow}]
          /\ matches \in [Matches -> {row \in MatchRows : refersToTeams(row)} \cup {NoRow}]
          /\ users \in [Users -> {NoValue, NoRow}]
    /\ history = [m \in Migrations |-> "pending"]
    /\ status = [s \in Seeds |-> "idle"]
    /\ next = [s \in Seeds |-> 1]
    /\ since = [s \in Seeds |-> 0]
    /\ edits = 0

(* The objects after the first n statements.  CREATE TABLE IF NOT EXISTS     *)
(* leaves an older table as it is.                                           *)
after(n) ==
    objects \cup UNION {statements[i] : i \in {j \in 1 .. n : statements[j] \cap objects = {}}}

(* docker-compose.yml: the first start of the container, up to its end or to *)
(* where it is stopped.  A later start finds the volume and runs no script.  *)
FirstStart ==
    /\ objects = {}
    /\ \E n \in DOMAIN statements : objects' = after(n)
    /\ UNCHANGED <<history, tables, seeds, edits>>

\* mutant: the types are created if they do not exist
InitSqlAnyway ==
    /\ objects' = after(Len(statements))
    /\ UNCHANGED <<history, tables, seeds, edits>>

(* migrate.js sends init.sql as one query.  CREATE TYPE has no IF NOT EXISTS.*)
InitSql ==
    /\ "enumTypes" \notin objects
    /\ objects' = after(Len(statements))
    /\ UNCHANGED <<history, tables, seeds, edits>>

(* The statements of a migration, up to the first that PostgreSQL refuses.   *)
userProfileEnds ==
    IF "users" \notin objects \/ "userColumns" \in objects THEN "schema"
    ELSE IF ~distinct(backfilled(users)) THEN "rows"
    ELSE IF "profiles" \in objects THEN "schema"
    ELSE "applied"

AddUserProfile ==
    /\ history["0001"] = "pending"
    /\ history' = [history EXCEPT !["0001"] = userProfileEnds]
    /\ IF userProfileEnds = "applied"
         THEN /\ users' = backfilled(users)
              /\ objects' = objects \cup {"userColumns", "profiles"}
         ELSE UNCHANGED <<users, objects>>
    /\ UNCHANGED <<teams, matches, seeds, edits>>

textsCast == \A m \in Matches : matches[m] # NoRow => matches[m].text \in Castable

\* mutant: the texts are converted before the ids are indexed
textsFirst ==
    IF "enumTypes" \in objects THEN "schema"
    ELSE IF ~textsCast THEN "text"
    ELSE IF ~distinct(backfilled(teams)) THEN "rows"
    ELSE "default"

(* ALTER COLUMN status TYPE converts the rows with USING, but not the default*)
(* that is still there: PostgreSQL refuses it, with and without rows, and    *)
(* the rest of 0002 is never executed.                                       *)
teamMatchEnumsEnds ==
    IF "enumTypes" \in objects THEN "schema"
    ELSE IF ~distinct(backfilled(teams)) THEN "rows"
    ELSE IF ~textsCast THEN "text"
    ELSE "default"

TeamMatchEnums ==
    /\ history["0001"] = "applied" /\ history["0002"] = "pending"
    /\ history' = [history EXCEPT !["0002"] = teamMatchEnumsEnds]
    /\ UNCHANGED <<objects, tables, seeds, edits>>

(* prisma migrate resolve --rolled-back, so that it is tried again.          *)
Resolve(m) ==
    /\ history[m] \in Refusals
    /\ history' = [history EXCEPT ![m] = "pending"]
    /\ UNCHANGED <<objects, tables, seeds, edits>>

-----------------------------------------------------------------------------
(* seed.ts: one upsert after the other, each a statement of its own.         *)
running(s) == status[s] \in {"running", "inserting"}

StartSeed(s) ==
    /\ ~running(s)
    /\ status' = [status EXCEPT ![s] = "running"]
    /\ next' = [next EXCEPT ![s] = 1]
    /\ since' = [since EXCEPT ![s] = edits]
    /\ UNCHANGED <<objects, history, tables, edits>>

team(s) == TEAMS[next[s]]

ends(s, how) ==
    /\ status' = [status EXCEPT ![s] = how]
    /\ UNCHANGED <<teams, next>>

idFree(s) == \A t \in Teams \ {team(s)} : teams[t] # next[s]

\* mutant: the update leaves the id out
writesNewOnly(s) ==
    \/ /\ idFree(s)
       /\ teams' = IF teams[team(s)] = NoRow THEN [teams EXCEPT ![team(s)] = next[s]] ELSE teams
       /\ next' = [next EXCEPT ![s] = @ + 1]
       /\ status' = [status EXCEPT ![s] = IF next[s] = Len(TEAMS) THEN "ok" ELSE "running"]
    \/ ~idFree(s) /\ ends(s, "failed")

\* mutant: the upsert is by id and not by name
writesById(s) ==
    \/ /\ teams[team(s)] \in {NoRow, next[s]}
       /\ teams' = [teams EXCEPT ![team(s)] = next[s]]
       /\ next' = [next EXCEPT ![s] = @ + 1]
       /\ status' = [status EXCEPT ![s] = IF next[s] = Len(TEAMS) THEN "ok" ELSE "running"]
    \/ teams[team(s)] \notin {NoRow, next[s]} /\ ends(s, "failed")

\* mutant: the loop goes one team too far
writesOneMore(s) ==
    \/ /\ idFree(s)
       /\ teams' = [teams EXCEPT ![team(s)] = next[s]]
       /\ next' = [next EXCEPT ![s] = @ + 1]
       /\ status' = [status EXCEPT ![s] = IF next[s] > Len(TEAMS) THEN "ok" ELSE "running"]
    \/ ~idFree(s) /\ ends(s, "failed")

writes(s) ==
    \/ /\ idFree(s)
       /\ teams' = [teams EXCEPT ![team(s)] = next[s]]
       /\ next' = [next EXCEPT ![s] = @ + 1]
       /\ status' = [status EXCEPT ![s] = IF next[s] = Len(TEAMS) THEN "ok" ELSE "running"]
    \/ ~idFree(s) /\ ends(s, "failed")

Upsert(s) ==
    /\ status[s] = "running"
    /\ \/ ~current /\ ends(s, "failed")
       \/ current /\ teams[team(s)] = NoRow /\ ends(s, "inserting")
       \/ current /\ teams[team(s)] # NoRow /\ writes(s)
    /\ UNCHANGED <<objects, history, matches, users, since, edits>>

(* Another seed may have inserted the team by now.  Then this one waits for  *)
(* it and updates the row if the conflict is met in the index of name, and   *)
(* fails if it is met in that of api_football_id.                            *)
raced(s) == status[s] = "inserting" /\ teams[team(s)] # NoRow

Insert(s) ==
    /\ status[s] = "inserting"
    /\ writes(s) \/ (raced(s) /\ ends(s, "failed"))
    /\ UNCHANGED <<objects, history, matches, users, since, edits>>

(* The process is stopped, or loses the connection.                          *)
StopSeed(s) ==
    /\ running(s)
    /\ ends(s, "stopped")
    /\ UNCHANGED <<objects, history, matches, users, since, edits>>

-----------------------------------------------------------------------------
refersTo(t) == \E m \in Matches : matches[m] # NoRow /\ t \in {matches[m].home, matches[m].away}

newIds == IF current THEN Ids ELSE {NoValue}

EditTeam(t) ==
    /\ "teams" \in objects
    /\ edits < MaxEdits
    /\ \E id \in newIds \cup {NoRow} :
         /\ id # teams[t]
         /\ id = NoRow => ~refersTo(t)
         /\ current => distinct([teams EXCEPT ![t] = id])
         /\ teams' = [teams EXCEPT ![t] = id]
    /\ edits' = edits + 1
    /\ UNCHANGED <<objects, history, matches, users, seeds>>

newRows == {row \in [home : Teams, away : Teams,
                     text : IF "statusDefault" \in objects THEN Texts ELSE Castable] :
              refersToTeams(row)}

EditMatch(m) ==
    /\ "matches" \in objects
    /\ edits < MaxEdits
    /\ \E row \in newRows \cup {NoRow} :
         /\ row # matches[m]
         /\ matches' = [matches EXCEPT ![m] = row]
    /\ edits' = edits + 1
    /\ UNCHANGED <<objects, history, teams, users, seeds>>

DatabaseSetupNext ==
    \/ FirstStart \/ InitSql
    \/ AddUserProfile \/ TeamMatchEnums \/ \E m \in Migrations : Resolve(m)
    \/ \E s \in Seeds : StartSeed(s) \/ Upsert(s) \/ Insert(s) \/ StopSeed(s)
    \/ \E t \in Teams : EditTeam(t)
    \/ \E m \in Matches : EditMatch(m)

DatabaseSetupSpec == DatabaseSetupInit /\ [][DatabaseSetupNext]_setupVars

-----------------------------------------------------------------------------
(* Types, and a seed that runs has a team to upsert.                         *)
DatabaseSetupTypeOK ==
    /\ objects \subseteq Schema \cup Older
    /\ history \in [Migrations -> {"pending", "applied"} \cup Refusals]
    /\ teams \in [Teams -> Nat \cup {NoValue, NoRow}]
    /\ matches \in [Matches -> MatchRows \cup {NoRow}]
    /\ users \in [Users -> {Placeholder, NoValue, NoRow}]
    /\ status \in [Seeds -> {"idle", "running", "inserting", "ok", "failed", "stopped"}]
    /\ next \in [Seeds -> 1 .. Len(TEAMS) + 1]
    /\ \A s \in Seeds : running(s) => next[s] \in DOMAIN TEAMS
    /\ edits \in Nat
    /\ since \in [Seeds -> Nat]

(* A part of the schema is the end of the road: an older database, one whose *)
(* first start was cut short, and what init.sql and 0001 make of them.       *)
(* Whichever scripts are run on it, in whichever order and after whichever   *)
(* edits of rows, it never gets the whole schema (init.sql:8-37, 0001, 0002).*)
partial == objects # {} /\ ~(Schema \subseteq objects)

PartialForGood == [][partial => partial']_setupVars

(* Rows stop the migrations before their statements say so: with two users   *)
(* 0001 is never applied, hence 0002 never tried (0001:5-15); and no match   *)
(* is refused for its text, "intentional" as it is meant to be (0002:44-46), *)
(* since the two teams of a match are refused before (0002:33-40).           *)
oneRow(column) == \A k, l \in DOMAIN column : column[k] # NoRow /\ column[l] # NoRow => k = l

RowsStopMigrations ==
    /\ ~oneRow(users) => history["0002"] = "pending"
    /\ history["0002"] # "text"

(* What 0002 says of itself: on a fresh database it applies cleanly          *)
(* (0002:31-33), and it fails for bad data, which is to be cleaned up        *)
(* (0002:44-46).  So it should not fail where data are clean and the types   *)
(* that it creates are not there.                                            *)
cleanFor0002 ==
    /\ "enumTypes" \notin objects
    /\ oneRow(teams)
    /\ textsCast

RefusesOnlyBadData ==
    [][cleanFor0002 /\ history["0002"] = "pending" => history'["0002"] \notin Refusals]_setupVars

(* A seed that ended well left every listed team with its own id, whatever   *)
(* other seeds did meanwhile and wherever earlier ones stopped, unless       *)
(* somebody edited the tables after it started.                              *)
ensured(i) == teams[TEAMS[i]] = i

SeedEnsured ==
    \A s \in Seeds : status[s] = "ok" /\ since[s] = edits =>
      \A i \in DOMAIN TEAMS : ensured(i)

(* A seed gives up, without edits since it started, for three reasons only:  *)
(* the schema is not current, another seed inserts the same team just then,  *)
(* or an id is taken by a team that the seed has no upsert for before.       *)
blocked == \E i \in DOMAIN TEAMS : \E t \in Teams \ {TEAMS[j] : j \in 1 .. i} : teams[t] = i

mayFail(s) == ~current \/ raced(s) \/ blocked \/ since[s] # edits

FailsOnlyIfBlocked ==
    [][\A s \in Seeds : status[s] # "failed" /\ status'[s] = "failed" => mayFail(s)]_setupVars

(* Running the seed again and again helps, whether or not several run at the *)
(* same time: unless it is stopped each time, or blocked, or the schema is   *)
(* not current, the teams have their ids in the end, for good.               *)
Starts == \E s \in Seeds : StartSeed(s)
Stops == \E s \in Seeds : StopSeed(s)

RerunsConverge ==
    []<><<Starts>>_setupVars =>
      \/ []<><<Stops>>_setupVars
      \/ <>[]~current
      \/ <>[](blocked \/ \A i \in DOMAIN TEAMS : ensured(i))

(* The inductive invariant: the above, what scripts leave behind, where the  *)
(* teams of a match and the ids come from, and how far a seed has come.      *)
startedNew ==
    /\ "enumTypes" \in objects /\ "statusDefault" \notin objects
    /\ "users" \in objects => "userColumns" \in objects

startedOlder == Older \subseteq objects /\ ~current

scriptsLeave ==
    /\ objects = {} \/ startedNew \/ startedOlder
    /\ "teams" \notin objects => ~current /\ \A t \in Teams : teams[t] = NoRow

migrated ==
    /\ history["0001"] = "applied" => oneRow(users)
    /\ history["0002"] # "pending" => history["0001"] = "applied"

matchesRefer == \A m \in Matches : matches[m] # NoRow => refersToTeams(matches[m])

teamsHaveIds ==
    \A t \in Teams : teams[t] # NoRow => (current <=> teams[t] # NoValue)

seedCameTo(s) ==
    /\ since[s] <= edits
    /\ running(s) /\ since[s] = edits => \A i \in 1 .. next[s] - 1 : ensured(i)
    /\ running(s) /\ next[s] > 1 => current
    /\ status[s] = "inserting" => current

DatabaseSetupIInv ==
    /\ DatabaseSetupTypeOK
    /\ RowsStopMigrations
    /\ SeedEnsured
    /\ scriptsLeave
    /\ migrated
    /\ matchesRefer
    /\ teamsHaveIds
    /\ \A s \in Seeds : seedCameTo(s)
=============================================================================
