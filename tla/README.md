# PRODE MUNDIAL: specification and verification

PRODE MUNDIAL is a pool on the World Cup: users predict the score of a match before it
kicks off, an operator closes a match out with its final score, and every prediction of
that match is given points. This directory holds a TLA+ model of that system, the TLC
configurations that model-check it on small instances, and theorems about it that TLAPS
checks for every instance. Paths are relative to the root of the repository; `src/src/`
is the TypeScript code.

To check one run: `tlc -workers 2 -config pool_closeouts.cfg MCPredictionPool`.
To check the proofs: `tlapm PredictionPoolTheorems.tla`, and so for each module of section 4.

## 1. The system

Three Express processes (matches-service, predictions-service, scoring-service) and a
Next.js front end (the BFF) are built from the same layers: domain entities, use cases,
repositories. They call no function of each other and send no message to each other: they
share a PostgreSQL database and a Redis cache, and nothing else. A fifth process, the
worker, serves BullMQ queues whose processors are still stubs.

| Component | State | Operations | Interacts with |
|---|---|---|---|
| Scoring policy, Score | none | `compute`, `outcome`, `equals` | called by ScoreMatchPredictions |
| Match, Prediction, MatchStatus | one copy of a row, while a request holds it | `acceptsPredictions`, `finish`, `cancel`, `awardPoints` | loaded and saved by the repositories |
| Repositories (`infrastructure/repositories`) | tables `matches`, `predictions`, `users` | `findById`, `findUpcoming`, `findByUserAndMatch`, `findByMatch`, `save` | one SQL statement each, in its own implicit transaction |
| Schema (`scripts/init.sql`, `prisma/migrations`) | constraints | `UNIQUE (user_id, match_id)`, `NOT NULL`, enums | decides which statement fails |
| SubmitPrediction | the locals of each request | one `execute`, five awaits | users, matches, predictions, clock |
| ScoreMatchPredictions | the locals of each request | one `execute`, a statement per prediction | matches, predictions, policy |
| predictions-service and BFF route `/api/predictions` | requests in flight | validate, execute, map errors to 400/404/409/500 | SubmitPrediction |
| scoring-service | requests in flight | validate, execute, map errors to 400/404/500 | ScoreMatchPredictions |
| ListUpcomingMatches, RedisCacheStore | cache entries with a time to live | `execute`, `get`, `set` | matches, Redis |
| matches-service, BFF route `/api/matches`, page | requests in flight | `limit`, errors | ListUpcomingMatches |
| Service bootstrap (`createServer.ts`) | the process | middleware order, exit on SIGTERM/SIGINT | all three services |
| Queue library and worker (`shared/queue`) | registry of queues, workers, Redis connections | `createQueue`, `closeAllQueues`, `shutdown` | Redis |
| Authentication (`modules/auth`) | session tokens | `authorizeUser`, callbacks `jwt` and `session` | `users` |
| Migrations, seed | schema version, rows | two SQL migrations, upserts | PostgreSQL |

### What is hard about it

- **Interleaving.** Every `await` in a handler lets other requests run, in the same process
  and in others. No request holds a lock or a transaction from one statement to the next.
  SubmitPrediction looks for an existing prediction and inserts later
  (`SubmitPrediction.ts:42`, `:57`); it checks the window and inserts later (`:38`);
  ScoreMatchPredictions reads the batch once and writes it row by row
  (`ScoreMatchPredictions.ts:32-40`), and two close-outs of a match may overlap.
- **Failure and exit.** A query that rejects ends the request with a 500, although its
  statement may have been or may still be executed. SIGTERM ends a process between two
  statements (`createServer.ts:31-36`). A close-out then leaves its batch half written, and
  a repeated one has to complete it.
- **Staleness.** `finish` decides on a status read before; the guard of `awardPoints`
  inspects a copy of the row; the cache serves a listing that was read up to its time to
  live ago, and more.
- **Schema.** `PgMatchRepository.save` is an upsert that names no `api_football_id`. A
  database gets its schema from `init.sql`, which the container runs statement by statement, or
  is to get it from two migrations, of which the second never succeeds, and its teams from a
  seed whose upserts are statements of their own.
- **Late responses.** A browser has several requests in flight, and every one of
  `/api/auth` may set the session cookie when its response arrives.

`PROJECT.json` lists every such place, under `hazards`, at its line, with the properties
that would catch it going wrong.

### What correctness means, per component

- *Scoring policy*: 5, 4, 3 or 0 points, by goal difference alone, whichever side is listed first.
- *Submission*: at most one prediction for a user and match; the answer tells the truth
  about what is on record; a refusal stays justified; nothing is admitted at or after kickoff.
- *Close-out*: a 200 means that everything on record when the match was finished has its
  points; points follow the score on record if all close-outs of the match agree; points
  that no close-out still holds are final; so is a cancelled match; a batch eventually drains.
- *Both*: the tables, under all interleavings and failures, behave as a simple ledger.
- *Listing*: what is answered was the list of open matches at some recent moment, and misses
  none that is open now.
- *Worker*: producers see a simple job service; shutdown ends, in the documented order; no job
  is lost, and none is repeated but for a process that died with it.
- *Schema and seed*: a database gets the whole schema, or it has to be known which scripts stop
  half way and that nothing completes what they leave; a seed that ends well left all teams
  with their ids, one that fails has a reason that is not another seed's doing for ever.
- *Authentication*: a session shows the claims of one row as it was at sign-in; the sign-in is
  decided at one instant; a session that is not used ends.

## 2. The modules

```
Domain ── PgRepositories ─┬─ SubmitPrediction ──────┐
   │                      ├─ ScoreMatchPredictions ─┴─ PredictionPool ─┬─ PredictionPoolInvariant
   │                      │                                 │          │    ├─ MCPredictionPool
   ├─ ScoringPolicy       │                            (INSTANCE)      │    └─ PredictionPoolTheorems
   │   └─ ScoringPolicy-  │                                 │          │         └─ PredictionPoolRefinement
   │      Theorems        │                                 │          │
   └─ PredictionLedger ───┼─────────────────────────────────┘          │
                          └─ ListUpcomingMatches ──────────────────────┴─ MatchListing
                                                                            ├─ MCMatchListing
                                                                            ├─ MatchListingTheorems
                                         (with PredictionPoolRefinement) ───┴─ ListedPoolTheorems

JobService ──(INSTANCE)── Worker ─┬─ MCWorker
                                  └─ WorkerTheorems
SignInDecision ──(INSTANCE)── Sessions ─┬─ MCSessions
                                        └─ SessionsTheorems
DatabaseSetup ─┬─ MCDatabaseSetup
               └─ DatabaseSetupTheorems
```

`Sessions` and `DatabaseSetup` share no variable with the pool: the pool needs of a user only
that the row exists, and of the schema only the constant `ApiFootballIdRequired`, which is
`current` of `DatabaseSetup`.

| Module | Models | How it corresponds to the code |
|---|---|---|
| `Domain` | value objects, entities, policy | pure operators, one per method, under the name of the method. A method that throws is split into its condition (`canFinish`) and its effect (`finish`) |
| `PgRepositories` | tables and repositories | `matches` and `predictions` are functions from ids to rows. Each repository method is an operator that one atomic step uses, as PostgreSQL executes one statement atomically |
| `SubmitPrediction` | use case, predictions-service, BFF route | one process per request, `submitPc[r]`. An action is the code from one `await` to the next |
| `ScoreMatchPredictions` | use case, scoring-service | the same, `scorePc[c]`; `todo[c]` is the part of the batch still to be written |
| `PredictionPool` | the deployment | composes the two over the shared tables, with the clock, the source of match statuses, failures and exits; states the properties |
| `PredictionLedger` | the promise | abstract specification: entries, announced scores, final entries |
| `PredictionPoolInvariant` | the inductive invariant | in named parts, so that TLC checks what TLAPS proves |
| `PredictionPoolTheorems` | proofs about the pool | |
| `PredictionPoolRefinement` | proof that the pool implements the ledger | |
| `ListUpcomingMatches` | use case, Redis cache, matches-service, BFF route and page | one process per request, `listPc[l]`; `cache` is what Redis holds under each key |
| `MatchListing` | the listing beside the pool | composes `PredictionPool`, whose steps close matches, with `ListUpcomingMatches`; holds the inductive invariant of the listing |
| `MatchListingTheorems` | proofs about the listing | |
| `ListedPoolTheorems` | proofs about the composition: what holds of the pool holds beside listings | |
| `Worker` | the worker process, the registry of queues, the Redis connections | `phase` is how far `shutdown` is; the registry and what `closeAllQueues` awaits are sets of queues |
| `JobService` | the promise of the queues | abstract specification: a service that is up, stopping, stopped or crashed, and jobs that wait, run, end or are cut off |
| `WorkerTheorems` | proofs about the worker, and that it implements the job service | |
| `ScoringPolicy` | one call of `compute` | the pair of scores and the points |
| `ScoringPolicyTheorems` | proofs about the policy | |
| `Sessions` | `modules/auth`, the NextAuth route, the browsers | one process per request of a browser, `pc[r]`; `cookie[b]` is the token a browser holds, `carried[r]` the one that a request brings or its response sets; `users` is the last entry of `usersLog` |
| `SignInDecision` | the promise of a sign-in | abstract specification: credentials are presented, and decided at one instant on the table of that instant |
| `SessionsTheorems` | proofs about the sessions | |
| `DatabaseSetup` | `init.sql`, the container and `migrate.js`, the migrations, `seed.ts` | `objects` is what there is of the schema, `history` how each migration ended, as Prisma records it; a table is a function from rows to the column that the scripts fill; one process per run of the seed, `next[s]` is where its loop is |
| `DatabaseSetupTheorems` | proofs about the setup | |
| `MCPredictionPool`, `MCMatchListing`, `MCWorker`, `MCSessions`, `MCDatabaseSetup` | the instances | model values, bodies, results, kickoffs, limits, symmetry |

### Actions of a submission

| Action | Code | |
|---|---|---|
| `SubmitArrives` | `predictions-service/server.ts:33-41` | the body is validated, 400 or on |
| `FindUser`, `FindMatch` | `SubmitPrediction.ts:31-35` | 404 or on; the status is kept, an unknown one read as SCHEDULED |
| `CheckWindow` | `:37-40` | the clock is read once; 409 or on. No await separates it from the answer of `FindMatch`, but that answer is delivered later than the database read, so it is a step of its own |
| `FindExisting` | `:42-47` | 409 or on |
| `SavePrediction` | `:49-59` | the INSERT; a unique violation is a 500 |
| `SubmitQueryFails` | `server.ts:43-53` | any query rejects: 500; a sent INSERT may still be executed (`lateSave`) |
| `FrontEndExits` | `createServer.ts:31-36` | some of the requests in flight are never answered: those of the process that ends |

### Actions of a close-out

| Action | Code | |
|---|---|---|
| `ScoreArrives` | `scoring-service/server.ts:31-42` | the body is validated; the id in the path is not |
| `FindMatchToScore` | `ScoreMatchPredictions.ts:25-29` | 404 unknown, 500 cancelled or not a UUID |
| `SaveMatch` | `:30` | FINISHED and the score, or a 500 where the schema refuses the upsert |
| `FindPredictions` | `:32-35` | the batch: the rows of the match without points |
| `SavePoints` | `:34-40` | one row, in any order (there is no ORDER BY) |
| `ScoreReplied` | `:42` | 200 when the batch is written |
| `ScoreQueryFails`, `ScoringServiceExits` | `server.ts:43-50`, `createServer.ts:31-36` | at most the one statement that was sent is still to come |

`closing` is a history variable: the rows of the match that were on record when the
close-out finished it. No guard reads it.

### Actions of a listing

| Action | Code | |
|---|---|---|
| `ListArrives` | `matches-service/server.ts:23-26`, `matches/route.ts:10-15`, `matches/page.tsx` | each caller treats `?limit=` differently; `limitsAsked` is what can come out of the three |
| `CacheGet` | `ListUpcomingMatches.ts:25-26` | a hit is answered as it is |
| `FindUpcoming` | `:28-29`, `PgMatchRepository.ts:36-46` | the SELECT; a negative or NaN `LIMIT` is a 500 |
| `CacheSet` | `:31-32`, `RedisCacheStore.ts:28-35` | the SET, over whatever the key holds by now |
| `ListQueryFails`, `ListServiceExits` | `server.ts:27-30`, `createServer.ts:31-36` | the GET, SELECT or SET rejects, or the process ends; a SET that was sent may still be executed (`lateSet`) |
| `CacheLoses`, `keysExpire` | external | Redis restarts or evicts; a key is gone when its time to live has passed |

`closedAt` (when each match left the list) and `slowestFill` (the longest time from a read
of the table to its SET) are history variables that no guard reads.

### Actions of the worker

| Action | Code | |
|---|---|---|
| `WorkerInit`, `Restart` | `worker.ts:48-82`, `queues.ts:41-45` | loading the module creates every queue and worker |
| `AddJob`, `RecoverJob` | external | a producer adds a job; BullMQ finds a job whose process died and puts it back, once |
| `StartJob`, `EndJob` | `worker.ts:34-59` | the processor is called, logs and returns |
| `Signal` | `:84-107` | the first signal closes every worker; `shuttingDown` makes any other return |
| `WorkerCloses`, `WorkersClosed` | `:90-91` | `Promise.all` over the workers; then `closeAllQueues` copies and clears the registry |
| `QueueCloses`, `QueuesClosed` | `queueFactory.ts:65-69`, `worker.ts:92` | `Promise.all` over the queues; then `redis.quit()` |
| `Quit` | `:92-94` | exit code 0 |
| `ShutdownFails` | `:95-99` | any of these promises rejects: exit code 1, at once |
| `Kill` | external | the process dies without a signal it can catch |

### Actions of a session

| Action | Code | |
|---|---|---|
| `SignIn` | `authOptions.ts:46-50`, `authorizeUser.ts:25` | POST `/api/auth/callback/credentials`; without an email or a password it is refused at once |
| `FindUserByEmail` | `authorizeUser.ts:27`, `UserRepository.ts:19-28` | one SELECT by the email in lower case, trimmed (`normalised`) |
| `Compare` | `authorizeUser.ts:29-35`, `authOptions.ts:52-76` | against the hash of the row that was found, or the dummy; a match makes the claims, and `jwt` copies them into a token |
| `ReadSession` | `route.ts:20-22` | GET `/api/auth/session` leaves with the cookie the browser has by then |
| `Renew` | `authOptions.ts:69-88` | it is served: a token that is still valid is encoded anew, for `maxAge` again; an expired one is cleared |
| `SignOut` | `route.ts:20-22` | the response clears the cookie |
| `ResponseArrives` | external | the browser sets what the response carries, whatever the cookie is by now |
| `RequestFails` | external | the query rejects, the process ends or the response is lost |
| `EditUser`, `Tick` | external | no code under `src/` writes users; tokens grow older |

`usersLog`, `lookedUp` and the `at` of a token are history: no guard reads more of them than
the current table.

### Actions of the setup

| Action | Code | |
|---|---|---|
| `FirstStart` | `init.sql`, `docker-compose.yml:25-27` | the entrypoint of the container sends one statement after the other, up to the end or to where it is stopped; a later start finds the volume and runs nothing |
| `InitSql` | `init.sql`, `migrate.js:13-23` | as one query: all or nothing. It fails if the enum types exist, and leaves older tables as they are |
| `AddUserProfile` | `0001_add_user_profile` | ends as `userProfileEnds` says: no table or the columns there already, two users who would get the `''`, or applied |
| `TeamMatchEnums` | `0002_team_match_enums` | after 0001; ends as `teamMatchEnumsEnds` says, statement by statement: types there already, two teams that would get the 0, a text that is no enum value, or the default of `status`. It never succeeds (finding 4) |
| `Resolve` | external | `prisma migrate resolve --rolled-back`: the migration may be tried again |
| `StartSeed` | `seed.ts:25-27` | at the start or again |
| `Upsert` | `seed.ts:28-32` | a team with a row is updated; without one, the insert is still to come |
| `Insert` | external | the second half of INSERT ... ON CONFLICT: by now the row may exist |
| `StopSeed` | external | the process is stopped or loses its connection |
| `EditTeam`, `EditMatch` | external | by hand, as the constraints allow |

A migration that fails changes nothing but Prisma's record of it; `InitSql` is not enabled where
the query would fail and change nothing. `since` is a history variable: how many edits there
were when the seed started.

### Abstractions

- NextAuth: strategy `jwt`, so that the server keeps no session, and a read of the session
  renews the token (`route.ts` mounts the handler with `authOptions` and nothing else).
  `getServerSession` reads the same cookie and sets none. The CSRF token and the redirects
  are left out; so are `NEXTAUTH_SECRET` and the encoding of a token.
- bcrypt: a hash is the password it was made of, so that comparing is equality. `NoPassword`
  is the dummy hash, and the `''` that migration 0001 puts into the column.
- The age of a token is counted down in units of the clock; a response on its way grows old
  with the token it carries.
- A database from before the migrations (`objects = Older`) is not in the repository; what it
  had follows from what 0001 and 0002 alter, the default of `matches.status` included, which
  `0002:57` names. Its constraints (a match has two teams that exist and differ) are those
  `init.sql` keeps. Its rows may be any.
- PostgreSQL does not apply USING to the default of a column: ALTER COLUMN TYPE fails when the
  default cannot be cast by itself, as a VARCHAR cannot to an enum, whatever the rows are.
- `prisma migrate` applies a migration as one query, in order, and goes no further after one
  that failed until somebody has marked it as rolled back (`Resolve`), at any time.
- The statements of 0002 after line 55 are never executed, so the column of matches that they
  add is not in the model.
- Edits never write the placeholder 0 as an id, since ids of API-Football are positive. Users
  are not edited in the setup; what their table holds at the start covers what 0001 can meet.
- The country codes that the seed writes next to the ids are left out.
- A listing is a set of matches; its order is that of `KickoffAt`, ties in any order.
- `CACHE_TTL_SECONDS` is the constant `CacheTtl`, in units of the clock of the pool, the
  time for the services, PostgreSQL's `now()` and Redis alike.
- BullMQ's delivery is what the code relies on: a job is kept in the Redis its queue was
  given and handed to one worker of that queue that listens to the same Redis. The default
  job options (attempts, backoff) never apply, since a processor that only logs cannot fail.

- In the pool users do not change: no code deletes one, and only their existence matters.
- The kickoff of a match is a constant: no code writes it after the insert.
- One clock for all: `findUpcoming` compares `kickoff_at` with the database's `now()`, the use
  cases with `SystemClock`; a difference between the two is not modelled.
- The tables start without predictions; matches start with any status in `InitialStatuses`.
- `KickOff` and `CallOff` are external: no code under `src/src` sets LIVE or CANCELLED.
  They are assumed to respect `Match.cancel` and never to reopen a match. `ClosedStaysClosed`
  and `CompletedCloseOut` depend on it.
- `ApiFootballIdRequired` is the schema: TRUE for a database that `init.sql` made, FALSE for one
  from before the migrations, which keeps its columns since 0002 never succeeds. Statuses
  outside the enum exist only in the latter. All passing runs of the pool use
  FALSE, since with TRUE no close-out gets past its first write (finding 3 below); the
  theorems hold for both.
- The pool of ten database connections delays a statement; any delay is in the interleaving.
- Ids that are no UUID stand for every id PostgreSQL rejects with an error.
- Authentication does not guard these routes, so a request may name any user.

## 3. What the runs show

| Run | Instance | Question |
|---|---|---|
| `scoring_policy` | all 625 pairs of scores up to 4-4 | does `compute` agree with its closed form, and treat both sides alike? |
| `pool_submissions` | 3 submissions, 1 close-out, a user and a match with a row and ones without, a non-UUID, a body and a result that fail validation, an unknown status, kickoff at time 1 of 0..1, 1 fault | do stored rows and answers agree under races for one match around its kickoff? |
| `pool_closeouts` | 2 submissions of 2 users, 2 close-outs with 2 results, 1 fault | are batches complete and points right when close-outs overlap and fail; is the invariant inductive's first half, true in all reachable states; does the pool implement the ledger? |
| `pool_live` | the same with 1 result, time stopped, 1 fault, with fairness | is everything that was on record at the finish scored? |
| `match_listing` | 2 matches that kick off at 1 and 2 of 0..2, 2 slots for requests, limits 0, NaN and the page's 20 (and so the service's 0 and the route's 1), `CacheTtl` 1, 1 fault | does an answer from the shared cache fit the limit, miss nothing, and show nothing that closed too long ago? |
| `worker` | 2 queues, 3 jobs, 3 signals, 2 unclean ends, with fairness | does the shutdown keep its order and end, is every job served, and when is one run twice? |
| `sessions` | 1 browser with 2 requests in flight, 2 users of whom one exists, 2 emails, 2 usernames, 2 edits of users, `MaxAge` 1, with fairness | do claims stay those of one row, is a sign-in decided at one instant, does a session come back without one, does an unused one end? |
| `database_setup` | 2 listed teams and one that is not, 1 match, 2 users, 2 texts, ids 1 to 3, 2 seeds, 2 edits; new and older databases with any rows | what do the scripts never complete, which rows stop the migrations early, what are the teams after any order of scripts and seeds, and why does a seed fail? |
| `award_overwritten` | `pool_closeouts` without faults | finding 1 |
| `late_prediction` | the same | finding 2 |
| `api_football_id` | the same, schema of `init.sql` | finding 3 |
| `migration_default` | `database_setup` | finding 4 |

Properties, by run:

- `ClosedForm`, `SideBlind`: the policy.
- `TypeOK`: the type invariant. It carries that negative goals never reach a table.
- `UniquePrediction`: two requests both find nothing and both insert; only the index decides.
- `ReplyTruthful`: 201 means stored as sent; 400, 404 and 409 mean never stored, even later
  by a statement that was in flight. 500 and no answer promise nothing.
- `ConflictJustified`: the reason for a 409 holds when it is given and from then on.
- `AdmittedInTime`: the time on a row is before kickoff although the INSERT may be later.
- `IInv`: the inductive invariant of the proofs, evaluated on reachable states.
- `CompletedCloseOut`, `AwardsAgree`, `SettledAwardIsFinal`: see section 1.
- `CallOffIsFinal`: a close-out decides on a status it read before, and so it may finish a match
  that was cancelled meanwhile. Once no close-out holds such a copy, a cancelled match stays
  cancelled, and none of its predictions ever has points (`Match.ts:63-64`).
- `RefinesLedger`: the step simulation to `PredictionLedger`.
- `BatchDrains`: the liveness of the batch.
- `ListingTypeOK`, `ListingIInv`: types of the listing, and the inductive invariant.
- `AnswerIsComplete`: no match that is open when the answer is given is missing, unless the
  listing is full of ones that are not later, whichever caller filled the key, and when.
- `AnswerIsRecent`: a match in an answer closed less than `CacheTtl` plus the slowest fill
  ago. The bound is tight: without the fill it is violated, since a fill that read the table
  before a match closed may set its key after it, over a newer listing.
- `WorkerTypeOK`, `WorkerIInv`: types of the worker, and the inductive invariant.
- `GracefulShutdown`: jobs, then queues, then Redis, then exit code 0, however many signals
  arrive meanwhile. A second `shutdown` would find the registry cleared already.
- `RunTwiceOnlyAfterUncleanEnd`: a job runs again, or is given up as stalled, only for
  processes that were killed or failed to shut down while they ran it.
- `ImplementsJobService`: the refinement of `JobService`. Between a crash and the moment BullMQ
  finds its jobs, they count as waiting again, or as failed.
- `ShutdownEnds`, `JobsServed`: liveness of the shutdown and of every job, across restarts.
- `SessionsTypeOK`, `SessionsIInv`: types of the sessions, with claims in every token, and the
  inductive invariant.
- `ClaimsWereTrue`: the user and the username of every token, in a cookie or on its way, are
  those of one row at the lookup of its sign-in, however often it was renewed since. They may
  be stale, for as long as the session is used: that is the design (`authOptions.ts:64-76`).
- `SignInIsAtomic`: the refinement of `SignInDecision`. The table may change while bcrypt
  compares; the outcome is still right for the table of the lookup.
- `SessionsOnlyBySignIn`: a browser gets a token it did not have only from a sign-in whose
  password matched the row of its lookup, or by renewing one that was valid
  (`authorizeUser.ts:27-35`, `authOptions.ts:69-88`).
- `UnusedSessionsEnd`: a browser that asks no more has no usable token in the end, although
  responses that renew one may arrive late.
- `DatabaseSetupTypeOK`, `DatabaseSetupIInv`: types of the setup, and the inductive invariant.
- `PartialForGood`: what is neither empty nor complete, an older database or one whose container
  was stopped during its first start, never gets the whole schema: `init.sql` leaves older
  tables as they are and refuses to run where the types are, 0001 needs a users table without
  its columns, and 0002 always fails.
- `RowsStopMigrations`: with two users 0001 is never applied, since it fills a unique column
  with one value (`0001:5-15`), and so 0002 is not even tried; and no match is refused for its
  text, although `0002:44-46` means bad texts to be: its two teams are refused before
  (`0002:33-40`).
- `SeedEnsured`: what "idempotent" (`seed.ts:4`) comes to beside other seeds, and seeds that
  were stopped.
- `FailsOnlyIfBlocked`: the three reasons of a seed to fail. That a team earlier in the list
  may hold the id is not one of them, because its own upsert comes first.
- `RerunsConverge`: the race of two seeds for a new team is not repeated for ever.

### Bounds, and why they are enough

Three requests of one user are one more than the race for the unique index needs, so that
two of them may both lose, or one may fail and another retry. Two close-outs are what an
overlap needs, with two results that give the prediction 2-1 different points (5 and 0).
The clock takes one value before kickoff and one at it, the boundary of
`now < kickoffAt`. One fault (`MaxFaults`) covers a failed query or an exit at every step;
the exit of the scoring-service stops both close-outs at once. A second fault is left to the
proofs, which have no bound. `MaxTime` and `MaxFaults` are the only bounds in guards. The
runs with symmetry check safety only; requests are interchangeable, as only
identity is ever compared.

For the listing the pool runs without requests: the clock, the source of statuses and
faults close matches in every way a close-out can, as far as a listing sees it. Kickoffs at
1 and 2 let a match close while another stays open; `MaxTime` 2 is one more than `CacheTtl`,
so that a key expires, is set again, and expires again. Two slots, each serving any number
of requests, are what a fill that overtakes another needs; limits 0, 1 and 20 are an empty,
a full and an unfilled listing. For the worker, two jobs of one queue let one wait behind
the other while the workers close, and two unclean ends let BullMQ give a job up; three
signals are one for each of two processes and one that finds `shuttingDown` set.

For the sessions, a token is only ever exchanged between a browser and its own requests, so
one browser is enough; two requests let a response overtake another. Two edits are what it
takes to give the email of one user to another while a password is compared. With `MaxAge` 1 a
token is either valid or too old: one tick lets it expire at the browser, between the departure
of a request and its renewal, or on the way back. For the setup, the two listed teams are one
that comes before another, the third is one that blocks; two seeds race; two edits let an id
be moved. `MaxEdits` is the only bound in guards of these two modules.

Deadlock is checked in `sessions` and `database_setup`, where a request or a seed can always
be started, and in `match_listing`, where slots serve request after request. It is not
checked in `worker`: with every job done and no signal left, the process waits.

Deadlock is not checked in the pool: when all requests are answered and the clock is at its
bound, the instance stops. That requests in progress do not wait for each other is part of
`BatchDrains`.

### Fairness

`LiveSpec` has weak fairness for the next step of every request that was called and not
given up: Node's event loop serves every answer of the driver, and a statement is executed
or fails (a failure is an action of its own). Not fair are the arrival of requests, the
clock, the source of statuses, faults, and a statement that was sent by a request that was
given up: PostgreSQL may or may not have received it.

`WorkerSpec` has weak fairness for each job (an idle worker takes a waiting job, a
processor returns, a stalled job is found), for the promises of the shutdown, and for the
restart, which is the supervisor's duty (`worker.ts:15` names Docker, PM2 and k8s). Not fair
are producers, signals, kills and failures.

`SessionsSpec` has weak fairness for the next step of a request that was sent (a failure is
one of them) and for the time. Not fair are browsers and editors. `DatabaseSetupSpec` has no
fairness: `RerunsConverge` names what it needs, seeds that are started again and again.

### Findings

1. `award_overwritten`. `Prediction.ts:9` says that a prediction is locked once points have
   been awarded. The check is made on the copy that `findByMatch` returned; two overlapping
   close-outs both hold an unscored copy, and the second UPDATE overwrites the points of the
   first. With the same result the values agree (`AwardsAgree`); with different ones the
   points on record may belong to the result that is not on record.
2. `late_prediction`. `README.md:224` says a close-out scores every prediction for the match.
   A submission that passed its checks before the match was finished may insert after the
   close-out read its batch. Its prediction has no points although the close-out answered
   200; only another close-out would score it. What does hold is `CompletedCloseOut`.
3. `api_football_id`. `ScoreMatchPredictions.ts:12` says that the final score is recorded on
   the match. With the schema of `init.sql` the upsert of `PgMatchRepository.save` violates
   the NOT NULL of `api_football_id` before PostgreSQL considers the conflict on `id`, so
   the statement, and with it every close-out, fails.
4. `migration_default`. `0002:31-33` says that on a fresh database it applies cleanly, and
   `:44-46` that it fails for bad data, which is to be cleaned up. It converts
   `matches.status` while the column still has "the old VarChar default" (`:57`); only the next
   statement replaces that. PostgreSQL refuses to cast the default and so 0002 fails on every
   database from before it, clean or even empty. On one that `init.sql` made it fails at
   its first line, since the types exist.

## 4. What is proved

`PredictionPoolTheorems` proves, for every number of users, matches, requests, faults and any
bodies and results, under the assumptions that the modules name (`NullAssumption`,
`RepositoryAssumption`, `BodyAssumption`, `ResultAssumption`, `PoolAssumption`, and that
`Null` is none of the rows or parameters):

| Theorem | Property |
|---|---|
| `Invariance` | `IInv` |
| `TypeCorrect` | `TypeOK` |
| `OnePredictionPerUserAndMatch` | `UniquePrediction` |
| `RepliesAreTruthful` | `ReplyTruthful` |
| `ConflictsAreJustified` | `ConflictJustified` |
| `AdmissionBeforeKickoff` | `AdmittedInTime` |
| `CloseOutsComplete` | `CompletedCloseOut` |
| `AwardsFollowTheScore` | `AwardsAgree` |
| `SettledAwardsAreFinal` | `SettledAwardIsFinal` |
| `CallOffsAreFinal` | `CallOffIsFinal` |
| `OverwritesNeedDisagreement` | an award is overwritten only where close-outs of the match disagree |
| `BatchesOnlyShrink` | what each turn of the loop does to its batch, the safety part of `BatchDrains` |
| `ScoresRecordedWithoutColumn` | `FinalScoreIsRecorded`, where `api_football_id` may be null |
| `NothingScoredWithColumn` | with the NOT NULL column no close-out succeeds and nothing has points |
| `PoolImplementsLedger` (in `PredictionPoolRefinement`) | `RefinesLedger` |

`ScoringPolicyTheorems` proves `PolicyClosedForm` and `PolicySideBlind` for scores of any size.

`MatchListingTheorems` proves `ListingInvariance` (`ListingIInv`), `ListingTypeCorrect`
(`ListingTypeOK`), `AnswersAreComplete` (`AnswerIsComplete`) and `AnswersAreRecent`
(`AnswerIsRecent`) for any matches (finitely many: `FiniteMatches`), requests, limits and
time to live, beside a pool with any users, requests and faults.

`ListedPoolTheorems` proves that these results hold of the composition: `ListedPoolInvariance`
(`IInv`), `ListedPoolKeepsFinal` (`SettledAwardIsFinal`, `CallOffIsFinal`) and
`ListedPoolImplementsLedger` (`RefinesLedger`), all for `ListingSpec`. TLC runs that
specification with an empty pool only; the theorems have no such limit.

`WorkerTheorems` proves `WorkerInvariance` (`WorkerIInv`), `WorkerTypeCorrect`
(`WorkerTypeOK`), `ShutdownIsGraceful` (`GracefulShutdown`), `NoJobRunsTwiceUnlessCutOff`
(`RunTwiceOnlyAfterUncleanEnd`), `WorkerImplementsJobService` (`ImplementsJobService`) and
`ShutdownOnlyAdvances`, the safety part of `ShutdownEnds`, for any queues and jobs, and any
number of signals and unclean ends.

`SessionsTheorems` proves `SessionsInvariance` (`SessionsIInv`), `SessionsTypeCorrect`
(`SessionsTypeOK`), `SessionsWereTrue` (`ClaimsWereTrue`), `SignInImplementsDecision`
(`SignInIsAtomic`) and `SessionsComeFromSignIns` (`SessionsOnlyBySignIn`) for any users, emails,
browsers, requests, edits and lifetime, from `SessionsAssumption` and `NullIsNoRecord`.

`DatabaseSetupTheorems` proves `DatabaseSetupInvariance` (`DatabaseSetupIInv`),
`DatabaseSetupTypeCorrect`, `PartIsForGood` (`PartialForGood`), `MigrationsStopAtRows`
(`RowsStopMigrations`), `SeedEnsures` (`SeedEnsured`), `SeedFailsOnlyIfBlocked`
(`FailsOnlyIfBlocked`) and `SeedsUndoNothing`, the safety part of `RerunsConverge`, for any
tables, any list of teams without repetitions, any number of seeds and edits, from
`DatabaseSetupAssumption`.

**The argument.** For the pool, none of the properties is inductive. `ReplyTruthful` needs to know that a
request that was refused holds no INSERT that may still be executed and that a row is
written only by the request that owns its id (`OwnRow`, `AnsweredLast`); `ConflictJustified`
that a status which was read closed is still closed (`ClosedStaysClosed`), which holds
because nothing reopens a match; `CompletedCloseOut` that while a batch is being written,
what was on record at the finish has points or is in the batch (`NothingDropped`), and that a
row without points is never dropped from the batch but by its own UPDATE; `AwardsAgree` that
the score on record and all points come from close-outs that finished the match
(`FinishedByCloseOut`, `AwardedByCloseOut`). `IInv` is the conjunction of the types, the
submission's parts and the close-out's parts.

The proof is split along the composition. Three frame conditions say what one side lets the
other rely on: `ClosedKept` (a closed match stays closed), `RowsKept` (a row stays, with its
user, match and score) and `AwardsKept` (no points change, no finish is reverted). A step
of a submission guarantees what `CloseOutsUndisturbed` needs, a step of a close-out what
`SubmissionsUndisturbed` needs, and the clock, the feed and faults both. What remains is
one lemma per part of the invariant and kind of step.

`SettledAwardIsFinal` and `CallOffIsFinal` follow from `IInv` step by step (`SettledStays`,
`CalledOffStays`). A settled row is in no batch, and no batch reads it again because it has
points. A match that is called off is passed over by the feed, and the entity refuses to finish
it in `FindMatchToScore`; points for one of its predictions would need a close-out that finished it
(`AwardedByCloseOut`), and then it would be finished (`FinishedByCloseOut`). The same part of
the invariant gives `OverwritesNeedDisagreement`: the points on record come from some close-out of the
match, the second UPDATE from another, and equal scores give equal points. Disagreement is
therefore not only sufficient for finding 1, as the run shows, but necessary.

The column of finding 3 is decided in both directions. Under its NOT NULL no save succeeds, so no
close-out ever finishes a match, and by `AwardedByCloseOut` no prediction has points. Without it
`FinalScoreIsRecorded` is inductive together with `NotYetAnswered` (a request that has not
arrived has no reply) and `OverStaysOver`: the answer 500 comes from the refusal of the entity,
and what made it refuse stays.

**The composition.** A step of a listing, and a fault of one, leaves the tables, the clock and the
requests of the pool (`ListingOnlyReads`); any other step is one of the pool. So the step
lemmas of the pool carry over as they are (`NextKeepsIInv`, `SettledStays`, `CalledOffStays`,
`NextRefines`). In the other direction the listing needs `PoolKeepsClosed`, see below.

**The refinement.** The ledger's entry is the row without the time of submission, the scores
announced for a match are those of the close-outs that finished it, and the final entries
are the scored rows that no batch holds. Every step maps to one step of the ledger or to a
stutter: an INSERT to `Record`, the UPDATE of a match to `Announce`, the UPDATE of a
prediction to `Award`, a request that gives its batch up to `Finalise` (`SubmitRefines`,
`ScoreRefines`, `FaultRefines`). `EntriesKept`, `AnnouncedKept` and `FinalKept` say which variables
each part of the mapping reads. The proof needs `IInv`, that what requests carry came from
bodies that validate (`DtosFromBodies`), and that `Null` is no entry (`NullIsNoLedgerEntry`).

**The listing.** `AnswerIsRecent` is not inductive: an answer comes from the cache, the cache
from a fill, the fill from a read. `FetchedWasTrue` says that a listing in flight was true at
the time `at` it was read; `CachedWasTrue` that an entry has time to live left, no more than
`CacheTtl`, and that the moment it was set is at most `slowestFill` after the moment its
listing was true; `ClosedForGood` that the history follows the table, which holds because no
step of the pool reopens a match or takes the clock back (`PoolKeepsClosed`, the only fact
about the pool the proof needs). Completeness goes the same way: `serves` is kept because
the set of open matches only shrinks; that the SELECT establishes it (`HeadServes`) is a fact
about cardinalities of finite sets.

**The worker.** `ShutdownOrder` ties what is closed to the phase, `NoJobLeftRunning` says that a
closed worker runs nothing, so that the graceful exit orphans no job (`QuitKeeps`), and
`WaitingForARun` that a job which waits has had one run for each time it was put back.

The job service sees `phase` in four states, and a job that a dead process held (`orphaned`) as
what BullMQ will make of it: waiting at the first time, failed at the second. So the crash is
where a run is cut off, `RecoverJob` is a stutter, and so is every step of the shutdown between
the signal and the exit. That the exit with code 0 (`Quit`) is the service's `Stopped` needs
`NoJobLeftRunning`; an exit with code 1 and a `Kill` are its `Crash`.

**The sessions.** `ClaimsWereTrue` says nothing of a sign-in that is still comparing:
`foundWasTrue` adds that the record it holds is the row of its lookup. Tokens are copied and
renewed with their claims (`SameLog`), and the log only grows (`EditUser`). For the
refinement the decision is taken at the lookup, not at the comparison: `decisionOf` computes it
from the record found, which is a user with the email, and the only one, as `uniqueKeys` is
part of the invariant. What follows, the comparison and the response, are stutters.
`SessionsOnlyBySignIn` holds step by step: a token in a cookie or on its way is one the browser
had (`ReadCarries`), the renewal of a valid one (`ReadRenews`), or made by `Compare` (`CompareSignsIn`).

**The setup.** `PartialForGood` needs to know which parts there can be: `scriptsLeave` says that
`init.sql` was started on a new database, and then the types are there and no old default,
or that the database is an older one and has no ids of teams. From the first kind no script
goes on at all; from the second `init.sql` and 0001 do, but neither adds the column
`api_football_id` to a table that exists (`AfterStatements`). `RowsStopMigrations` is `distinct` of a
column of which all rows have the placeholder (`PlaceholderOnce`), for users by their type,
for teams by `teamsHaveIds` (on an older database no team has an id), together with
`matchesRefer` (a match has two teams with rows), so that `distinct` refuses before the texts
are looked at (`MatchesAreRefused`), and with `migrated`, which keeps what 0001 was applied to. `SeedEnsured` rests on
`seedCameTo`, the invariant of the loop: while nobody edits, all teams before `next[s]` have
their ids. An upsert of another seed keeps that, because no two teams are listed alike
(`UpsertEnsures`). The same invariant shows that an id which is taken is not held by an earlier
team (`TakenIdBlocks`), and makes the teams that have their ids a growing set (`OnlyEditsUndo`).

**Model-checked only.** `BatchDrains`, `ShutdownEnds`, `JobsServed`, `UnusedSessionsEnd` and
`RerunsConverge`, since liveness under fairness is out of the prover's reach. For three of them
the step that brings the end nearer is proved, without the fairness that makes it happen:
`BatchesOnlyShrink`, `ShutdownOnlyAdvances`, `SeedsUndoNothing`.

## 5. What is not modelled

The order was: first what everything a participant cares about passes through, the domain
rules, the two use cases that write and the tables they share; then the listing and its
cache; the worker; the sessions; the schema and the seed. What is left out, and why:

- **Middleware order** (`createServer.ts:17`): the error handler is registered before the
  routers of its callers, so an error that a route passes to `next` (`scoring-service/server.ts:50`
  and the others) meets Express's default handler. Both answer 500, which is what the models
  of the services say; which body they send is not modelled, and there is no state behind it.
- **The two clocks**: `findUpcoming` compares with the database's `now()`, the use cases with
  the service's. One clock stands for both; with two, the listing and the window would differ
  by the skew, and no document says how large it may be.
- **A cache that is down** fails the listing (`ListUpcomingMatches.ts:25`). The failure is in
  the model; nothing in the repository promises that the listing survives it.
- **A match cancelled between the read and the save of a close-out** is saved as FINISHED
  (`ScoreMatchPredictions.ts:29`). The step is in the model (`CallOff` between
  `FindMatchToScore` and `SaveMatch`); what should win is not documented. `CallOffIsFinal` says how
  long that is possible, and that it is not afterwards.
- **A corrected score.** A finished match may be finished again (`Match.ts:62-68`), so a second
  close-out with another result records that one (`ScoreMatchPredictions.ts:29-30`), while its loop
  skips what is scored (`:35`). Both answer 200, and the points belong to a score that is on
  record no more. The steps are in the model, but no property takes a side: points are those of
  the actual final score (`ScoringPolicy.ts:4-5`), and locked once awarded (`Prediction.ts:9`).
  `AwardsAgree` speaks of close-outs that agree, and the ledger allows any announced score.
- **Two Redis servers.** The queues are given the client, which `createClient` builds from
  `REDIS_URL` when it is set, ignoring the options (`redis.ts:42-49`); the workers are given the
  options, that is `REDIS_HOST`, although `redis.ts:31-32` calls them shared by both.
  `.env.example` sets both to one Redis, and so does the run `worker`, with the URL left unset:
  `JobsServed` needs it, the theorems hold for either. With `REDIS_URL` alone, as `docker-compose.yml`
  sets it for its services, jobs would be queued in one Redis and awaited in another.
- **`npm run db:migrate`** runs `prisma migrate dev` (`package.json:17`), which first replays
  the migrations on an empty shadow database; there 0001 has no table to alter. In the model
  that is `AddUserProfile`, which ends in "schema" without a users table: the migrations are for
  older databases, where 0002 fails, and a new one gets its schema from `init.sql` alone,
  contrary to what `README.md:144` lets one expect.
- **Composition root, configuration, pools** are wiring without behaviour of their own;
  `ServiceClient`, `hashPassword`, `PgUserRepository.save` and `findByEmail` have no caller.
- **Constructors of entities, mappers**: they throw on rows that the schema excludes; a row that a
  constructor refuses is a failed query of the model.
- **Pages and containers** keep no state; the feature modules under `src/src/modules` other than
  `auth` hold a README and no code.
