# TLA+ specifications of SR App

SR App is a NestJS service for administrators who assign retailers to sales
representatives. PostgreSQL (through TypeORM, and `pg` in the import worker)
keeps the data, Redis the cache and the BullMQ queue; the API runs in several
containers behind nginx. The specifications here model the parts of it in which
concurrent requests, failures and retries matter, and are kept next to the code.
Paths below are relative to `src/src/`.

## The system

| Component | State | Operations | Hard behaviour | What makes it correct |
|---|---|---|---|---|
| Retailer assignment, `sales_rep/services/sales_rep.service.ts` | `sales_rep_retailers` rows, `retailers.is_assigned` | assign, unassign (up to 70 retailers), edit; listings | several statements per transaction at READ COMMITTED, one fact kept twice (rows and flag), row locks, deadlocks | one active row per retailer; owners change only as requested; flag equals rows; history is kept; summaries are true |
| Retailer administration, `retailer/services/retailer.service.ts` | `retailers` | create, update, delete | read, then save the whole entity; delete cascades | no assignment without its retailer; no lost update |
| Import queue, `import/` | a file on disk, its row, a BullMQ job | upload | file and job are two steps | every queued job ends |
| Import worker, `import-worker/services/import-worker.service.ts` | `retailer_staging`, `retailer_errors`, `retailers`, the file | run a job | autocommitted statements on one shared table, several slots, stalled jobs, retries, references deleted meanwhile | every line is imported or recorded; the summary counts the file; outcomes stand |
| Region, area, territory, distributor services | four tables, the keys each process has cached | create, update, delete, list, search, assign children | cache-aside reads race invalidation; cascades cross services; NOT NULL parents; commit without a transaction | a listing is no older than the last write that returned |
| Cache, `caching/` | the Redis store | get, set, del, expiry | per-process knowledge of keys | as above |
| Connection pool, `database/typeorm.datasource.ts`, and every handler that takes a connection | connections, open transactions, who waits | connect, START, COMMIT, ROLLBACK, release | runners never released, released dirty, taken in twos; connections that end | every request is answered unless a named handler took the pool away; answers match what is committed |
| Authentication, users, roles, `auth/`, `user/`, `role/` | users, roles, representatives | register, create, login | check, then insert; generated usernames; the seeder beside them | one account per e-mail and username; a registration is all or nothing; its owner can log in |
| Notifications, chat, `notification/`, `chat-gateway/` | sockets by user, rooms, Redis adapters | connect, register, send, disconnect | re-registration, several processes, two adapters on one server | maps and rooms agree; a message reaches once whom it is due to |
| File system, S3, `file-system/`, `aws-s3/` | files, their rows, a bucket | upload | file, row and commit are three steps | a committed row names a place where the file is |
| Seeds, `database/seeds/initial.seed.ts` | the accounts above | seed | no transaction, restarted anywhere | accounts stay reachable |
| Kafka, pagination, HTTP plumbing | topics | | start-up retries | pure I/O |

Requests reach the assignment and administration services over HTTP; these share
`retailers` with the import worker, which also reads the tables of the hierarchy
services. The import service hands jobs to the workers through the queue.
Authentication tells the notification gateway about registrations and logins. All
of them take their connections from one pool.
`PROJECT.json` lists every component with what is and is not modelled, and, under
`hazards`, what can go wrong at which line.

## The modules

| Module | Models | Depends on |
|---|---|---|
| `AssignmentRegister` | what the assignment endpoints promise: one owner per retailer, changed in single steps | |
| `RetailerAssignment` | assign, unassign, edit, delete as interleaved transactions | instantiates `AssignmentRegister` |
| `RetailerAssignmentProofs` | theorems about `RetailerAssignment` | extends it, `TLAPS` |
| `SerialAssignmentProofs` | theorems about `RetailerAssignment` with one request at a time | extends `RetailerAssignmentProofs` |
| `MCRetailerAssignment` | its instances for TLC | extends it |
| `RetailerImport` | upload, queue and worker | |
| `RetailerImportProofs` | theorems about `RetailerImport` | extends it, `TLAPS` |
| `MCRetailerImport` | the small files TLC imports | extends it |
| `HierarchyCache` | cached listings and invalidation of the region, area, territory and distributor services | |
| `HierarchyCacheProofs` | theorems about `HierarchyCache` | extends it, `TLAPS` |
| `MCHierarchyCache` | the endpoints TLC tries | extends it |
| `ConnectionPool` | the pool, the transaction each connection carries, the files of uploads, and the handlers by the shape of their transaction | |
| `ConnectionPoolProofs` | theorems about `ConnectionPool` | extends it, `TLAPS` |
| `MCConnectionPool` | the requests TLC sends | extends it |
| `Registration` | registration, creation of users, login of representatives, the seeder | |
| `RegistrationProofs` | theorems about `Registration` | extends it, `TLAPS` |
| `AccountProofs` | the theorems that an account can be logged in with | extends `RegistrationProofs` |
| `MCRegistration` | the accounts TLC asks for | extends it |
| `SocketRegistry` | the two gateways of every process, their maps and rooms, the Redis adapters | |
| `SocketRegistryProofs` | theorems about `SocketRegistry` | extends it, `TLAPS` |
| `MCSocketRegistry` | its instance for TLC | extends it |

Operators whose comment begins with "Slip:" are not part of a specification:
each is a neighbouring definition with one plausible mistake in it. TLC finds
the property named for it in `PROJECT.json` violated when the mistake is put in.

### RetailerAssignment

A behaviour serves the requests of `Calls`, at most `MaxInFlight` at a time. One
action is one SQL statement, or one row of it where rows are locked:

| Action | Code |
|---|---|
| `Begin` | connect, start the transaction, check the request (`EntryPoint`) |
| `ReadRetailers`, `ReadActiveAssignments` | the two SELECTs of an assign; the second fixes the rows to deactivate and the retailers to insert a row for |
| `ReadOwned`, `StartDeactivation`, `ReadStillAssigned` | the first SELECT, the UPDATE's own snapshot and the last SELECT of an unassign |
| `ClaimRow`, `InsertRow` / `RejectInsert`, `MarkRetailer` / `RejectMark` | the next row of the UPDATE (or of a delete's cascade), of the INSERT, of the UPDATE, INSERT or DELETE on `retailers` |
| `ReadEntity` (`EntityMissing`, `ReadToDelete`, `ReadToEdit`), `DiffEntity` | `findOne`, and the second read by which TypeORM's `save` decides which columns to write, or to insert the entity when it is gone |
| `Commit`, `Rollback` | the end of the transaction and the `finally` block |
| `DeadlockVictim`, `Fault` | PostgreSQL's deadlock detector; a statement, connection or process that fails |

State: `rows`, `flag`, `present` are the committed tables. `deact`, `ins`, `mark`
are what each open transaction has written; a row in such a buffer is a row the
transaction has locked, and commit applies the buffers. The remaining variables
are the handlers' local variables. PostgreSQL is external and modelled by the
rules the code relies on: a statement sees what is committed when it starts plus
its own writes; an UPDATE waits for a locked row and then looks at it again
(`StillMatches`: only unassign's WHERE asks whether the row is still active);
an INSERT waits for a conflicting uncommitted insert, deletion or deactivation
and then meets the partial unique index and the foreign key (`Insertable`).

Abstracted: columns other than the assignment, the flag and who closed a row;
timestamps; the bodies of responses, apart from `found`, which a summary counts.
`createRetailer` only adds a retailer nobody owns and is in `Init`'s freedom.

### RetailerImport

`SaveFile`, `AddJob` and `LoseJob` are `importRetailersFromCsv`; `Take`,
`MoveStalled` and `Report` are the queue; the other actions are the statements of
`handleRetailerImport` in order, one action each since each commits by itself:
`Truncate`, `Copy`, `LoadReferenceSets`, `SelectBatch` (with `partitionRows`),
`DeleteErrors` and `InsertErrors`, `UpsertChunk`, `ClearResolvedErrors`,
`RemoveProcessed`, `Unlink`. `StatementFails`, `Crash` and `DropReference` are
what goes wrong around them.

A line of a file is its uid and how it fares (`KindOf`); a staged row is a line
together with the slot that copied it. The ids of staged rows are random, so
"ORDER BY id LIMIT n" is any n of them. `retailers[u]` is the line last written,
`errorRows[l]` the number of recorded errors. `upload[j]` is the container whose
disk holds the file. `HostOf` places the slots in containers.

Abstracted: values of columns, the wording of errors, ANALYZE, and the split of a
count into inserted and updated. The check that points are numeric can reject no
line: the staging column is an integer, so the COPY refuses the file before it
(lines of the kind "garbled").

### HierarchyCache

The four services share one pattern, and the module has one action per step of it:
`GetFromCache`, `Query`, `SetCache`, `AddKey` for a listing (the key is added only
after the store answered), `Commit`, `Invalidate`, `DeleteKey`, `ForgetKeys` for a
write; `Reject` is every early exit (no such row, a name that is taken, a failing
statement). The tables at the top of the module say, per endpoint, which tables a
listing reads and a write may change. They are where the services differ:
deletions cascade, `assignAreasToRegion` and its siblings change nothing because the
parent columns are NOT NULL, `updateTerritory` and `deleteTerritory` commit without
having begun (`Unstarted`): the statement stands, the request fails, and the
invalidation after it is never reached.

A listing is represented by the versions of the tables it was read from, a key by
its listing. `known` is the `cacheKeys` of the services of a process. `acked` and
`floor` are history variables: what had been reported as written, and what of it
had been when a request arrived. `SharedStore` says whether the processes share a
store. `caching.module.ts` passes a Redis `store`; the installed
`@nestjs/cache-manager` 3 expects `stores`, and without it keeps a memory store per
process. The module has both.

Abstracted: rows, pages and search texts, the two statements of a page and its
total (one `Query`), the blank search, which touches nothing, and a store that does
what it was asked and then reports a failure (`StoreRefuses` does nothing).

### ConnectionPool

TypeORM keeps a bounded number of PostgreSQL connections (`Slots`; ten by default), and a connection keeps the
transaction its last user left on it. What a handler does to the pool depends only on
its shape, which the tables at the top of the module give for the handlers of the
services named there:

| Shape | Handlers | What they do |
|---|---|---|
| "committed" | `createRetailer`, `getRetailers`, the counts of regions and areas; handlers that are not listed and have this shape, such as the writes of `RoleService`, add nothing | begin, commit or roll back, release |
| "invalidating" | what creates, changes, deletes or assigns regions, areas, distributors, and what creates or assigns territories | as "committed", but delete the cached pages between the COMMIT and the release, inside the same `try`: a refused deletion answers an error for data that is committed |
| "left open" | the listings, searches, filters and counts of `SalesRepService`, of areas and of territories, `getFilteredAreasByRegionId` | begin, release, and never commit unless they fail |
| "cached" | `getRegions` | commits unless the page was in the cache |
| "autocommit" | `getRetailerDetail` and `retailerCount` of `RetailerService`, `distributorCount` | one statement outside of a transaction |
| "kept open", "kept" | `getRetailerDetail` and `totalRetailersCount` of `SalesRepService` | never release |
| "unstarted" | `updateTerritory`, `deleteTerritory` | write outside of a transaction, then ask to commit one, which throws |
| "unstarted read" | `totalTerritoryCount` | the same with a count, which leaves nothing behind |
| "createUser", "upload", "bucket" | `createUser`, `createFilesFromMulter`, `uploadBucketFile` | a file besides the rows; the first takes a second connection for the roles |

`Receive`, `Grant` and `ConnectionEnds` are the pool (external: a queue in order of
arrival; idle or broken connections end, perhaps with a COMMIT carried out whose
answer is lost). The actions of `Step` are the statements of a handler: `Start`,
`Read` / `Write` / `WriteUnstarted`, `AskForRoles`, `FindRoles`, `SaveUser`,
`RenameFile`, `UpdateFilePath`, `PutObject`, `Commit`, `RemoveLocalFile`,
`InvalidateCache`, and the ways out, `StatementFails`, `FindRolesFails` (the SELECT of
the roles, on the second connection), `Refuse`, `FileFails`, `Recover` (the `catch` and
`finally` blocks) and `Release`. `tx[s]` is what PostgreSQL thinks of the connection ("none",
"open", "aborted"), `active[r]` what TypeORM thinks of the query runner;
`pending[s]` are the requests whose writes the transaction on `s` holds. The START of a
handler on a connection that is still in a transaction is only a warning; so its COMMIT
ends the transaction of both. `disk`, `path` and `bucket` say where the file of an
upload is and where its row says it is.

Abstracted: the rows, the number of statements of a handler (one "work" for all of
them, which may fail or be refused), the time the pool waits before it gives up (the
configuration sets no `connectionTimeoutMillis`, so it waits for ever), and multer:
each upload has a place of its own on the disk. Left out are the reads that look into
the cache and begin no transaction (`searchRegions`, `getFilteredTerritoriesByAreaId`,
`listDistributors`, `getDistributorDetail`, `searchDistributors`): on a hit they run no
statement, on a miss they are "autocommit".

### Registration

`registerAdmin`, `registerSalesRep` and `createUser` are one action per statement:
`CheckEmail`, `CountUsers` and `CountReps` (`isUsernameTaken`; `Taken` is
`generateUniqueUsername`'s next try), `EnsureRole`, `CreateRole`, `InsertUser` (with the
row of `app_users`), `InsertSalesRep`, `Commit`, `Answer` (the token, signed after the
commit), with `Fault`, `CommitUnanswered` and `Rollback`. `CommitUnanswered` is a COMMIT
that the database carries out while its answer is lost: the account exists, and the
`catch` block tells the caller that the registration failed. `LoginSalesRep` reads the representative,
`SaveLogin` saves it after the password was compared. The seeder is the actions named
`Seed...`, each of which commits by itself; it stops anywhere and may start again.

State: `roles`, `users` and `reps` are the committed tables, an account being named by
the registration that created it; `pc`, `request`, `name` and `madeRole` are a
registration's local variables and what it has inserted. PostgreSQL is external: an
insert that clashes with a committed row is refused, one that clashes with a row of an
open transaction waits (`UserAwaited`, `RepAwaited`, `RoleAwaited`).

A username is a word and a number: `<<"w", 0>>` is what `sanitizeUsername` makes of an
address, `<<"w", 1>>` its first variation. Abstracted: passwords, names, phone numbers,
the truncation of long usernames, and the generation from a display name, which no
request reaches (the address or the username is always there). `login`
looks for what was entered in both columns. Nothing in the code keeps a username from
being another account's address, and the instance has one that is. `AccountReachable`
lets a login find such an account besides its own, and no other (`CrossNamed`). It
speaks of whoever was told that the account exists. The seeder provides one account and its role.

### SocketRegistry

`HandleConnection`, `OnRegister`, `RegisterUser`, `HandleDisconnect`, `EmitToUser`,
`Broadcast` and `HandleMessage` are the handlers and services of the two gateways;
`InstallAdapter` is `afterInit` of either, which ends when both of its Redis clients are
connected; `Restart` ends a process with all of its sockets. `Deliver` and `Lose` are
Redis and the adapters of the other processes.

State: `userSockets` is `NotificationGateway`'s map, `users` `ChatGatewayService`'s,
`rooms` the adapter's; `born` is the adapter a socket was connected under, which is the
one that reaches it from then on; `network[m]` the adapters a message has still to
reach. `latest`, `received` and `due` are history variables: the socket that registered
last, how often a socket got a message, and which sockets it is owed to.

Abstracted: the contents of messages; reconnection, which brings a new socket; who calls
`NotificationService`, and when.

## What TLC checks

| Run | Instance | Shows |
|---|---|---|
| `assign_serial` | 3 retailers, 2 representatives, 3 requests of every kind, one at a time | `SerialInvariant`, `FlagMatchesAssignment`, `AuditTrailFrozen`, `AssignTakesEffect`, `UnassignReportsWhatItDid`: without overlap each handler keeps its promises, whatever came before and wherever a statement fails |
| `assign_concurrent` | 2 retailers, 2 representatives, 3 concurrent requests of every kind | `AssignmentInvariant`, `NoOrphanAssignment`, `OwnersChangeOnRequest`, and `ImplementsRegister`: every commit is one step of `AssignmentRegister` |
| `assign_live` | 2 retailers, 2 representatives, 2 concurrent requests | `EveryCallEnds` |
| `flag_assign_unassign` | 1 retailer, 2 requests | counterexample, see below |
| `import_serial` | 2 files of 4 and 2 lines, 1 slot, batches of 3, chunks of 2, 1 stall | `ImportInvariant`, `StagedRowsAreTheJobs`, `SummaryCountsTheFile`, `ErrorsRecordedOnce`, `EveryLineAccountedFor`, `ResolvedErrorsAreGone` under failures, crashes, retries and deleted references |
| `import_replicas` | 1 file of 2 lines, 2 slots, locks that expire under live slots | `OutcomeIsFinal`, `QueuedJobsEnd` |
| `import_two_slots` | 2 files on 2 slots | counterexample, see below |
| `cache_own_writes` | 2 processes with a store each, one request at a time in each, 3 requests to 11 endpoints | `FreshForItsService`, `NothingEscapesInvalidation` and the inductive `CacheInvariant` under refused calls, expiry and restarts |
| `cache_other_writes` | 1 process, 3 requests | counterexample, see below |
| `pool` | 3 requests on 2 connections, to nine handlers that between them take the steps of every shape | `PoolInvariant`; `LostConnectionsHaveACause`: who keeps a connection after the answer; `AnswersMatchData`, `RowsHaveTheirFile`; `AbortedByTwo`: how a connection gets into an aborted transaction nobody is in, with its inductive `LeftoverInvariant`; `EveryRequestIsAnswered`, but for the handlers that take the pool away |
| `registration` | 2 registrations of 6 and 4 kinds of requests, 3 addresses, 2 of which differ in a capital and one of which somebody has for a username, a seeder | `RegistrationInvariant`, `AccountInvariant`, `AccountReachable`, `AnswersTellTheTruth`, `CollisionsAreRaces`, `EveryRegistrationEnds` |
| `sockets` | 2 processes, 2 sockets, 2 users, 1 message | `SocketInvariant`, `RegistriesAgree`, `ChatFindsTheLatest`, `AtMostOnce`, `EverythingArrives` |

Bounds. Two retailers are enough for two requests to lock rows in opposite
orders, two representatives for a retailer to change hands, and three requests
for a third to see what a race of two left. The serial run has three retailers,
so that `MaxBulk` (2, for the code's 70) refuses a request. The files are chosen
so that a batch and a chunk each fall short of a file, a uid occurs in both
files and twice in one, a line has no uid, and a line depends on a reference.
Three requests are a listing that fills the cache, a write and a listing that may be
served from it; the eleven endpoints have a listing and a write of every service and
every shape of them (joined tables, cascades, a write without effect, one that is
never acknowledged).
The pool has two connections, so that a request can hold two, two requests can hold one
each and wait for another, and a connection is used again by a third; the third request
takes five shapes the other two do not. "committed" is "invalidating" without its last
step, "left open" is "cached" when the page is found, "kept" is "kept open" without
its START. Two registrations are enough for every
collision of two inserts, and a seeder is the third party that renames what they made;
the generated names run into given ones ("w", 0) and into the seed's ("s", 0). One
message suffices, since messages do not depend on one another; two sockets and two
users are what a re-registration and a newer socket of one user take, two processes
with up to two adapters each what a message has to cross.
The numbers of staged rows and errors are bounded by the files, usernames by the
accounts; the model needs no state constraint. Retailers, representatives and calls are symmetric in the
two safety runs of the assignment, processes and calls in that of the cache; runs with liveness use no symmetry.
`CHECK_DEADLOCK FALSE` is set in every run, since a behaviour ends when its
requests or jobs are served.

Fairness. A begun request continues (`WF` per call on its next statement, or its
rollback as a deadlock victim): Node runs every continuation, and PostgreSQL runs
its deadlock detector. A worker slot continues with its job, idle slots take
waiting jobs, and BullMQ looks for jobs whose slot is gone. In `ConnectionPool` the
process as a whole goes on as long as a step is enabled (one `WF` for all of them), which
suffices because the queue is served in order and a request has finitely many steps. In
`Registration` some registration goes on as long as the database lets one; that is the
weakest assumption under which all of them end, since each takes finitely many steps. In
`SocketRegistry` Redis hands a message on or loses it (`WF` of `Deliver` per message),
and nothing else has to happen. No client has to send anything, and no fault has to
happen.

### Where the code departs from its documentation

* `flag_assign_unassign`: the administrators' list of "retailers with no active
  sales rep assignment" filters on `is_assigned`. An assign that found the
  retailer already assigned inserts nothing; an unassign of the retailer commits;
  the assign then sets the flag. Nobody owns the retailer and the list misses it.
* `import_two_slots`: a worker runs four jobs at a time, and every job truncates
  the staging table they share. A job completes with lines it neither imported
  nor recorded. With one slot the same property holds (`import_serial`).
* `cache_other_writes`: a write deletes the cached pages of its own service. The
  list of areas is cached with each area's region, so an updated region stays old
  in it; what a deletion cascades to stays listed.

Three more departures are in the models without a run of their own.

* The list of unassigned retailers may also show one that has an owner. An unassign that
  has found nothing left to close clears the flag although an assign has committed
  meanwhile; an edit saves the entity it read, and writes `is_assigned` back if an assign
  commits in between. TLC shows both when `FlagAssignUnassign.cfg` asks for
  `\A r \in present : ~flag[r] => ActiveRows(r) = {}`: the first with three calls at once
  (two of them unassigns), the second with an assign and an edit.
* The login takes a "username or email address" and looks for it in both columns at once,
  while a registration compares usernames with usernames and addresses with addresses.
  Somebody may register with the address of another as a username; which of the two rows
  the login then finds is up to the database. TLC shows it when `AccountReachable` is asked
  for `Found(Kind(r), id) = {r}`.
* The containers of the production compose file share no volume for uploads, while any
  of them may take a job; the job of a file that is elsewhere fails after its attempts
  (`HostOf` places the slots in containers).

`FreshForItsService` needs its two conditions. With `MaxInFlight` 2 it fails: a
reader that queried before a commit stores its page after the invalidation, and a
key added while an invalidation awaits its deletions is forgotten while its entry
stays stored (that breaks `NothingEscapesInvalidation` too). With `SharedStore` TRUE
it fails because a process knows only the keys it has cached itself, and none after
a restart. A reader can try either by changing `CacheOwnWrites.cfg`.

The concurrent behaviour also shows, without a document to contradict it, that an
assign can overwrite who closed an assignment (`AuditTrailFrozen`), report success
without effect (`AssignTakesEffect`) and that an unassign can report retailers
another call took away (`UnassignReportsWhatItDid`): these three hold one request
at a time and are checked there.

What the properties of the newer modules name as exceptions is what the code does:

* Connections. `getRetailerDetail` and `totalRetailersCount` of `SalesRepService` keep
  their connection for ever. A handler whose START is refused keeps it too, since
  `startTransaction` stands before the `try`. That happens after two others: a listing
  that returned its connection with the transaction open, and a statement that failed
  inside it outside of any transaction of its own (`AbortedByTwo`): one of a handler that
  begins none, or the SELECT of the roles, for which `createUser` takes a second
  connection. What writes the hierarchy deletes cached pages after its COMMIT and inside
  the `try`; when the store refuses, the caller gets an error for data that is committed
  (an exception of `AnswersMatchData`). Concurrent
  `createUser` calls that hold all connections wait for each other for ever.
  `updateTerritory`, `deleteTerritory` and `totalTerritoryCount` fail always, the first
  two after having written.
* Accounts. Two first registrations race to create their role, and two registrations
  with one derived username to insert it: one of them fails although nothing is wrong
  with its data (`CollisionsAreRaces` says that this takes a commit of another one in the
  meantime). A username of blanks is not looked up, and stored; the second one is
  refused by the index. When the token cannot be signed, or the answer to COMMIT is
  lost, the caller is told that the registration failed, and the account exists. `createUser` keeps the capitals of an
  address, so `A@x` may stand beside `a@x`. The seeder takes over an account that has
  its address or its username and overwrites the other one; a login under way at that
  time writes the old username back into `sales_reps`. `AccountReachable` says what is
  left to log in with.
* Sockets. A socket that registers for a second user stays in the first user's room and,
  after it is closed, in the first user's entry of the map (`RegistriesAgree` allows just
  that). The chat knows one socket per user and process, and no user of another process.
  Sockets that connect before the first Redis adapter of their process is installed get
  nothing that other processes emit, and what a process emits before its own adapter is
  installed reaches no other process.

## What is proved

`RetailerAssignmentProofs` holds for every set of retailers, representatives and
calls, every subset of the endpoints and every limit, from the named assumptions
of `RetailerAssignment` alone.

* `TypeCorrect`: `Spec => []TypeOK`, one lemma per kind of statement.
* `InvariantHolds`: `Spec => []AssignmentInvariant`, and from it
  `OneActiveAssignment` and `NoAssignmentIsOrphaned` (`NoOrphanAssignment`). That a
  retailer has one active row is not inductive: a
  commit could add a second one. The strengthening says that two transactions
  never hold the same row nor insert for the same retailer (`LocksExclusive`),
  and that a transaction that has inserted a row for a retailer holds every
  committed active row of it (`InserterHoldsActiveRows`). `InsertRow` establishes
  that because the unique index lets it through only then; `ClaimRow` keeps it
  because a row somebody holds cannot be claimed; `Commit` uses it: after the
  commit the active rows of a retailer are the old ones nobody was replacing, or
  the inserted one alone.
* `OwnersOnlyChangeOnRequest` (`OwnersChangeOnRequest`) and `CallsImplementTheRegister`:
  `Spec => ImplementsRegister`, the refinement of `AssignmentRegister`. The invariant
  also says what an open transaction may hold, given the request it serves: an assign
  deactivates rows of the retailers it inserts for, an unassign rows of the
  representative it was asked to take them from, a delete the rows of its retailer.
  Hence a commit changes the owners of retailers the request names, in the direction
  it names, and that is one step of the register. Every other action leaves the
  committed tables alone and is a stutter of it.

`SerialAssignmentProofs` adds one condition, `MaxInFlight = 1`. It is needed: on the
instance of `assign_concurrent` TLC finds each of the four properties violated.

* `SerialInvariantHolds`: `Spec => []SerialInvariant`, and from it
  `FlagsMatchAssignments`, `AuditTrailStays` (`AuditTrailFrozen`), `AssignsTakeEffect`
  and `UnassignsReportWhatTheyDid`. A handler decides from what it read and writes
  later, so the invariant says that what a request has read still fits the tables. Every
  retailer an assign has found gets a row or is its representative's already, and the
  rows it closes are active (`AssignPlanStands`); an unassign closes a row of every
  retailer it has found (`UnassignPlanStands`); the flag an edit has read is the flag of
  the row (`EditPlanStands`). With somebody else committing in between, these break.

`RetailerImportProofs` holds for every finite set of lines, files and slots, and every
size of batches and chunks, under failures, crashes, stalls and deleted references.

* `QueueInvariantHolds` and `OutcomesAreFinal` (`OutcomeIsFinal`) for any number of
  slots: a job belongs to a slot only while it is active, so a run that lost its lock
  cannot change how the job ended.
* `ImportInvariantHolds` and from it `StagedRowsStayTheJobs`, `SummariesCountTheFile`,
  `ErrorsAreRecordedOnce`, `LinesAreAccountedFor` and `ResolvedErrorsGo`, for a single
  slot (`OneSlot`: one replica, with concurrency 1). With two it is false
  (`import_two_slots`). The invariant goes through a run: the staged rows are those of
  the job's file, batch and chunk parts of them (`BatchStands`); the rows counted and
  those still to count are together the lines of the file (`CountStands`), so that a row
  left over from an interrupted run, or counted twice, shows; and whatever has been
  counted is imported or recorded, with no earlier error left (`LinesStand`). `Unhandled`
  is what ties the three together: the rows that a run has yet to count at each of its
  statements.

`HierarchyCacheProofs` holds for every set of processes, of endpoints and every finite
set of requests, under two conditions which its theorems state: `SharedStore` is FALSE
and `MaxInFlight` is 1. Both are needed (see above).

* `CacheInvariantHolds`: `Spec => []CacheInvariant`, and from it
  `ListingsFreshForTheirService` (`FreshForItsService`) and `StoredListingsStayKnown`
  (`NothingEscapesInvalidation`). Freshness alone is not inductive. What the argument
  turns on is the step that reports a write: at that moment no listing of the service
  may be stored or on its way into the store. `OneAtATime` says no listing is on its
  way; `StoredIsKnown`, that an invalidation starts with every stored key;
  `DeletingCoversStored`, that what is left to delete covers what is left stored. Hence
  `StoredIsFresh` and `ReadIsFresh`: what is stored, or was just read, is as new as what
  the service has reported, and a request that finds it, or stores it, is served by it.

`ConnectionPoolProofs` holds for every finite set of requests and of connections and
every choice of handlers.

* `PoolInvariantHolds`: `Spec => []PoolInvariant`, and from it `NoOtherLeaks`
  (`LostConnectionsHaveACause`), `AnswersAlwaysMatchData` (`AnswersMatchData`) and
  `RowsAlwaysHaveTheirFile` (`RowsHaveTheirFile`: the file is where its handler has left
  it; that the worker removes an import's file later is `Unlink` of `RetailerImport`). A dirty connection is handed to the
  next request, whose COMMIT commits whatever is on it, so the answers are true only if
  nothing is on it. `HeldOnce` says that no connection is held twice, `PendingIsOwn`
  that what a transaction holds was written by a request that still holds the
  connection: so it was written by its holder alone (`OwnPending`). Every way to lose a
  connection (rollback, release, its end) must therefore empty the transaction or have
  written nothing in it; the listings satisfy the second. The rest of the invariant says
  what each step of a request knows (`StepsFitShapes`, `FilesInPlace`), and is proved
  request by request: a step of one changes nothing of another (`OthersKeep`).
* `LeftoversHaveACause`: `Spec => []LeftoverInvariant`, and from it `AbortedNeedsTwo`
  (`AbortedByTwo`). A transaction on a connection belongs to its holder, or was left open
  by a listing that has been answered (`Inherited`); it is aborted only when a statement
  of its holder failed, or one that used the connection afterwards outside of a
  transaction of its own: of a handler that begins none, or of `createUser` on its second
  connection, before it has saved the user (`FailedOutside`). That needs to know of every request how it came to have, or
  not to have, begun a transaction (`BegunByShape`, `SuccessEnds`).

`RegistrationProofs` holds for every set of registrations, addresses and names and every
choice of requests.

* `RegistrationInvariantHolds`: `Spec => []RegistrationInvariant`, and from it
  `AnswersAlwaysTellTheTruth` and `CollisionsAreAlwaysRaces`. That the committed rows are
  unique is not inductive, because a commit adds rows that were checked when they were
  inserted. `RowsAreUnique` says that the inserted rows of all open transactions and the
  committed ones are unique together; inserts keep it because they wait or are refused,
  and commits because they only move rows. `ChecksStand` says that what a registration
  has looked up holds until somebody commits; it is why a refusal by an index means a
  race. `StepsInOrder` ties a registration's position to its rows, which after a COMMIT
  without an answer are there although it has failed, and `SeederHasFound` the seeder's.

`AccountProofs` rests on the same invariant.

* `AccountInvariantHolds`: `Spec => []AccountInvariant`. The row of an account holds the
  address and username it was registered with, or the seed's once the seeder has taken it
  over (`RowStands`). As long as the user has the registered username, so does the
  representative, and a login under way writes nothing else back (`RepStands`). Whoever
  may log in has an address in lower case, as `login` looks for it (`LoginsAreLower`).
  The seeder writes only to the account it has found by the seed's address or username
  (`SeederKeepsNames`).
* `AccountsStayReachable`: `Spec => []AccountReachable`, whatever anybody registers with.
  That a login finds no third account follows from the uniqueness of the committed
  addresses and of the committed usernames (`RowsAreUnique`).

`SocketRegistryProofs` holds for every set of processes, sockets, users and messages.

* `SocketInvariantHolds`: `Spec => []SocketInvariant`, and from it
  `RegistriesAlwaysAgree`, `ChatAlwaysFindsTheLatest` and `NothingArrivesTwice`. That no
  socket gets a message twice turns on two facts: a message is on its way only to
  adapters that have not had it (`OnItsWayOnce`), and an open socket belongs to the one
  adapter it was born under (`OpenAtHome`). `DueIsOnItsWay` is the other half, on which
  the liveness property `EverythingArrives` rests: a message that is due to a socket is on
  its way to that socket's adapter.

Every safety invariant and action property of the passing runs has a theorem. Only
model-checked are the liveness properties (`EveryCallEnds`, `QueuedJobsEnd`,
`EveryRequestIsAnswered`, `EveryRegistrationEnds`, `EverythingArrives`), since TLAPS has
no rules for fairness or ENABLED. The properties of the three runs that expect a
violation are false, and so are the serial ones without their conditions.

The theorems rest on the named assumptions of the modules and the conditions stated here:
limits are natural numbers, the tables that describe endpoints, lines and accounts are
functions of the right type, values that stand for nothing are none of the others, and
the sets that are counted (requests, connections, lines, slots) are finite.

## Not modelled

Kafka's start-up loop, pagination and the HTTP plumbing (filters, interceptors, guards,
cookies) keep no state that two requests share. The rows of regions, areas, territories
and distributors are versions in `HierarchyCache`; who is a child of whom matters to no
property here, since assigning and unassigning children has no effect in this code (the
parent columns are NOT NULL). Methods no controller calls (`updateUser`,
`assignRoleToUser`, `deleteUser`, `updateRole`, `deleteRole`, most of `AwsS3Service` and
`FileSystemService`) are left out. Of the seeder the hierarchy and the other accounts are
left out; they repeat the pattern of the one account. Two uploads of one name in the same
millisecond, which multer would give one place, are not modelled.

## Plan

1. `HierarchyCache`: one process with overlapping requests, and processes with a shared
   store, as runs with weaker properties of their own, and what remains of
   `CacheInvariant` without its two conditions as a theorem.
2. `RetailerImport`: what two slots still guarantee about the errors and the retailers of
   a file, as an invariant of its own.
3. `RetailerAssignment`: the serial promises for a request that no other one on its
   retailers overlaps, which needs less than `MaxInFlight = 1`.
4. `ConnectionPool`: the cached reads that begin no transaction, with the cache itself.
5. Safety halves of the liveness properties as theorems, such as a waiting request
   that always waits for one that can go on.
