# Fusebit (q5): a TLA+ model of the function and integration platform

The modules in this directory model the parts of the Fusebit backend whose
correctness depends on the order in which concurrent requests, background work
and failures happen. TLC checks them on small instances; TLAPS proves the
results that do not depend on the size of the instance.

## 1. The system

| Part | Code | State it keeps | Operations | What is hard |
|---|---|---|---|---|
| Entity table | `lib/data/db`, SQL in `lib/data/ops-data-aws/src/migrations` | rows keyed by account, subscription, type and id, each with a version | insert, conditional update and delete, tag writes, expiry, purge | optimistic concurrency: a version must name one content, and a conditional write must see what it overwrites (2.8) |
| Integrations and connectors | `api/function-api/src/routes/service/BaseEntityService.ts`, `schema/common` | rows with `state` and `operationState`, deployed functions | create, update, delete, tags | each request answers early and goes on in the background |
| Sessions, installs, identities | `service/SessionedEntityService.ts` | session tree, installs, identities | create, leaf session, put, start, finish, commit | a commit writes several rows, later, in the background |
| Function build | `lib/server/function-lambda` | build requests and status, specification, Lambda function and versions | put, build status, worker, delete, garbage collection | builder processes run in parallel and are never cancelled |
| Function tasks | `lib/runtime/common/src/tasks.ts`, `invoke_function.js`, `lib/runtime/lambda-cron/src/executor.ts` | S3 task records, SQS queue | schedule, execute, reschedule, statistics | at-least-once delivery, limits counted from a moving queue |
| Cron | `lib/runtime/lambda-cron/src`, `create_function_worker.js` | S3 cron records, SQS queue | periodic scheduling, immediate scheduling after a build, execution | every occurrence must be covered by the one or the other |
| Keys of run-as tokens | `lib/server/runas` | key pair of each process, public keys in DynamoDB, issuer cache | rekey, sign, verify | a verifier must know the key of every live token |
| Storage | `handlers/storageRds.ts`, `lib/data/db` | rows of the entity table | get, put with etag, list, recursive delete | version check and write are separate statements |
| Users, clients, identities | `lib/data/account-data*/src` | five DynamoDB tables: agents, identities, permissions, issuers, initialization tokens | add, update, delete, initialize, resolve | several calls at a time, no transaction, no rollback |
| Audit, registry, npm, Grafana proxy, analytics, CLI, portal | `lib/server/*`, `cli`, `site`, `demo` | DynamoDB tables, S3 objects, none | CRUD, proxies, user interfaces | little beyond single-record operations |

How they interact: the API process serves HTTP requests. An integration request
writes its row through the data access object, calls the function-build handlers
in the same process, and these start a builder Lambda that works on S3 and
Lambda. Several API processes run at once and share only the database, S3, SQS,
DynamoDB and Lambda. Cron and task executors are Lambdas that SQS invokes. There
is no lock anywhere: what keeps the actors apart is the version column of the
`entity` table, the random build id in some of the S3 keys, the conditions on single
DynamoDB items, and the message groups of the FIFO queues.

What makes each part correct:

- *Entity table*: a version names one content of one row, for good.
- *Integrations and connectors*: a row changes only as the API describes it; it says
  "processing" with nobody at work only for the few reasons that are known; the function that
  is deployed is the one the row describes; a conditional request touches only the
  row that its caller saw.
- *Sessions*: a step has one leaf; a committed install holds what every step gave;
  nothing shows "processing" with nobody at work; what the session reports exists.
- *Function build*: after any orderly sequence of requests the specification, the
  package, the schedule, the queues, the tags and the Lambda versions agree; an
  execution always finds the version that the tags name; every accepted build ends.
- *Tasks*: not before their time, not more than `maxRunning` at once, not more than
  `maxPending` waiting, and each one to an end that its status shows.
- *Cron*: between a build and the periodic scheduler no occurrence is left without a
  message and, away from the minute where the two may meet, none is executed twice; the records
  are those the specification names.
- *Run-as keys*: no token outlives the key that signed it; a verifier refuses a valid
  token only if the key was published just before it looked.
- *Storage*: a conditional request takes effect at one moment and only on what its
  caller saw, if the database reads `WHERE CURRENT OF` as its documentation does (2.8); a
  recursive deletion leaves only what is newer than itself.
- *Users and clients*: what was acknowledged is what is stored, however requests for
  others compete for the same identities; an initialization token lets in once.

## 2. Modules

| Module | What it is |
|---|---|
| `EntityStore` | the `entity` table and its SQL functions; every call is atomic, on the reading of `WHERE CURRENT OF` that 2.8 explains |
| `EntityLifecycle` | the requests of `BaseEntityService.ts` and their background parts over `EntityStore` and the deployed functions |
| `EntityContract` | the abstract specification: what an entity may do as a client that polls it sees it |
| `SessionCommit` | the requests on one session, its leaves and its installs |
| `FunctionBuild` | PUT and DELETE of one function, the garbage collection of its versions |
| `FunctionContract` | the abstract specification: what readers of a function see while a request changes it |
| `TaskQueue` | the tasks of one task route: scheduling requests and the executor |
| `AgentAccess` | adding, updating, deleting and initializing users and clients over five tables |
| `CronSchedule` | the schedule of one function: builds, the periodic scheduler, the executor |
| `RunAsKeys` | key stores with their rekey timers, the table of public keys, issuer caches |
| `StorageRows` | the storage requests, SQL statement by SQL statement |
| `StorageContract` | the abstract specification: registers with etags and atomic requests |
| `MC...` | model values and symmetry for TLC, one for each state machine |
| `EntityLifecycleProofs`, `SessionCommitProofs`, `FunctionBuildProofs`, `TaskQueueProofs`, `AgentAccessProofs`, `CronScheduleProofs`, `RunAsKeysProofs`, `StorageRowsProofs` | theorems and their proofs |

`EntityLifecycle` EXTENDS `EntityStore` and refers to `EntityContract` by INSTANCE
with the refinement mapping `View`; `StorageRows` refers to `StorageContract` and
`FunctionBuild` to `FunctionContract` in the same way. `EntityStore` takes the SQL functions as atomic, `StorageRows` looks inside
two of them: that `update_if_version` and `delete_if_version` behave as if atomic is
what `StorageRows` proves, from the documented reading of `WHERE CURRENT OF` (2.8): what is
shown of entities, sessions and storage rests on that reading. The other state machines stand alone.
The function-build service appears inside `EntityLifecycle` as what
`BaseEntityService` sees of it: a build that succeeds, fails or never answers.

Conventions. A request or task is a *process* with a program counter. The code
between two awaits (or two callbacks) runs without interruption in Node, so it is
one action, and every await is a place where all the others may go on. A request
that is refused before it has changed anything is an action that is not enabled.
A definition preceded by a comment that starts with **Slip** is a plausible mistake
in the definition below it: replacing the one by the other must make TLC report a
violation, which shows that the property depends on that code. Slips are used by
nothing else.

### 2.1 EntityStore and EntityLifecycle

`table[k]` is the row of one account, subscription, type and id; `clock` is the
sequence that versions are drawn from. `InsertRow`, `UpdateRow` and `DeleteRow` are the
SQL functions that `entity.ts` calls; `NoVersion` makes a write unconditional. A row whose
`expires` has passed is still there but not `Live`: SELECT and UPDATE do not see it,
INSERT conflicts with it until `PurgeExpiredItems`, which every API process runs on a timer
(`rds.ts:101-102`).

| Code | Actions |
|---|---|
| `createEntity` | `CreateEntity`; in `setImmediate`: `BuildStart` (`createEntityOperation`), `WaitBuild`, `Commit`, or `Abort` after an error |
| `updateEntity` | `GetEntity`, `Mark`; in `setImmediate`: `BuildStart`, `WaitBuild`, `Commit` or `Abort`, and `Fallback` when that write fails |
| `deleteEntity` | `GetEntity`, `Mark`; in `setImmediate`: `Remove`, `Undeploy` |
| `tag.ts` | `SetTag`, `DeleteTag`, one SQL statement each |
| `waitForFunctionBuild` | `BuildSucceeds`, `BuildFails` (the builder), `WaitBuild`, `WaitTimeout` (100 s) |
| calls that fail, processes that die | `MarkFails`, `CommitFails`, `AbortFails`, `FallbackFails`, `RemoveFails` (the version does not match), `WriteThrows`, `CommitThrows`, `UndeployThrows`, `Crash` |

`held[r]` is `existingEntity`, the row a request carries in memory across awaits.
`ServiceVersion` is the version that reaches the service: that of a PUT never does, because
`crud.ts:19-29` builds the entity without it, that of a DELETE does. A fault is a
process that dies, a final write that throws before or after it took effect, or an
undeployment that fails. `clean` is a history variable: the keys on which so far no
two requests overlapped, no build timed out, nothing failed and nothing expired.

### 2.2 SessionCommit

One trunk session whose steps are `1..N`, the leaf sessions and installs that belong
to it, and the identities of its connectors. The initial states are those that
`createSession` leaves, for a new install and for one that exists, followed by any
number of finished steps. The transaction in `persistTrunkSession` is READ COMMITTED
and takes row locks, so others see nothing before it commits and can change nothing
that it wrote: its writes are gathered in the request (`mem`) and applied in
`Persist`. That the memory object and the row differ is kept: the catch block tests
the state of the *object* (`SessionedEntityService.ts:417`), and so does `Rollback`.

| Code | Actions |
|---|---|
| `createLeafSession` (start, finish) | `ReadParent`, `ReadInstall`, `CreateLeaf` |
| `putSession` | `PutSession`, `WriteOutput` |
| `commitSession` | `CommitSession`, `CheckLeaf` per step, `CreateInstall` and `NameInstall`, or `MarkInstall` |
| its `setImmediate` | `PersistLeaf` per step, `GatherInstall`, `Persist` or `Rollback`, `ReadBroken`, `MarkFailed` |
| a user's PUT or DELETE of the install | `EditInstall`, `DeleteInstall` |
| calls that throw, processes that die | `CallThrows` (also a transaction that took effect and reports failure), `Crash` |

### 2.3 FunctionBuild

The places that hold a part of a function are variables: `spec`, `pkg`, `cron` (S3),
`tags` (DynamoDB), `queues` (SQS), `latest`, `versions`, `live` (Lambda), and
`status`, `request` (S3, per build id). A PUT is `Plan` (`compute_build_plan_core`),
then `Accept` when the build is asynchronous, then the stages that the plan names:
`Package`, `CreateFunction` or `SetConf` and `SetCode`, `ClearCron` and
`RegisterCron`, `UpdateTasks`, `ChangeConf` and `PublishConf`, `SaveSpec` and
`SaveTags` in either order, `Report`. A DELETE is `DeleteCron`, `ReadSpec`,
`DeleteQueues`, `DeleteTags`, `DeletePackage`, `DeleteSpec`, `DeleteFunction`.
`Age` lets the versions of now become older than three minutes; `Collect` is the
garbage collection that an update set five minutes before. Requests are numbered as
they arrive, and `AtRestConsistent` speaks of those that came one after the other.

`FunctionContract` has no stores and no plans. Four kinds of reader see the function: GET
and the next PUT by the specification (`reads`), an execution by the version that the tags
name (`runs`), the scheduler by the keys (`fires`), callers of task routes by the queues
(`feeds`). While a request is open each of them goes from the function as it was to the one
asked for, in any order and each at once, the schedule by way of none; a task route that stays keeps its queue
with what waits in it; the answer comes when all are there. A reader of two of them, such
as `get_function_core`, may find the one new and the other old. Of requests that overlap
or fail the code promises nothing, and neither does the contract.

Taken from outside: Lambda never uses a version number twice, its versions do not
change, `publishVersion` makes no new one when nothing changed. Abstracted: the
package is its code; configuration and compute settings are one value; the pair of
queues of a task route is one queue; listing keys and deleting them is one step; the
executions that a new schedule enqueues for the next minutes; a build request that
cannot be read back; a version that takes minutes to become active.

### 2.4 TaskQueue

`msgs` is the set of messages that are not deleted, in the standard queue (no
`group`) or the FIFO queue of the route, each with the time when it becomes visible
and with the progress of the invocation that holds it. A POST is `Arrive`, `Count`
(the pending count, which a process remembers in `cache` until `Forget`), `Save`,
`Send`; the executor is `Reschedule`, `Resend`, `StartRun`, `EndRun`, `Delete`. SQS
delivers a message again when an executor dies (`Crash`) and sometimes without
reason (`DeliverTwice`), and drops one whose deduplication id it has seen (`recent`).
Of the messages of one group only the first that is not deleted is delivered. The
clock advances in half seconds, because delays are rounded to whole seconds.
A failing call is an *outage*: `CountFails`, `ScheduleFails`, `Abandon`. `hit` is a
history variable: which tasks were touched by which kind of fault.

Abstracted: the status is written in one step (the code reads, modifies and writes
the record, and only two deliveries of one message could tell); the times in the
record; batches of delayed messages; the counts that SQS calls approximate are exact.

### 2.5 AgentAccess

`row`, `owner`, `access`, `issuers` and `token` are the tables, each item as DynamoDB
holds it. A request is the set of the calls it has under way (`Promise.all`): any of
them may be answered next, its answer decides what is called then, and an error
answers the request while its other calls run on. An update always makes its three
calls at once, so it writes identities and permissions also when the row is missing
and the answer is 404; a failed add takes back the row and nothing else
(`UserData.ts:66-72`).

| Code | Actions |
|---|---|
| `UserData.add`, `ClientData.add` | `AddAgent`, `InsertRow`, `Claim`, `WriteAccess`, `UndoRow` |
| `update` | `UpdateAgent`, `UpdateRow`, `ReadIds` and `ReadAccess` (`replaceIdentities`, `replaceAccessEntries`), `Claim`, `DropId`, `WriteAccess` |
| `delete` | `DeleteAgent`, `DeleteRow`, `ReadIds`, `DropId`, `CheckIssuer`, `DeleteIssuer`, `ReadAccess`, `WriteAccess` |
| `AgentData.init` | `InitAgent`, `CheckRow`, `PutToken` |
| `AgentData.resolve` | `Resolve`, `ReadToken`, `DeleteToken`, `GetRow`, `ReadIds`, `ReadAccess`, `GotAgent`, `AddIssuer`, then the calls of an update |
| a call that fails | `Fault`; one whose condition does not hold is refused in its own action |

`said` is what the successful requests of an agent add up to, `raced` and `broken` tell
where they were not orderly. A batch is one item after the other. Abstracted: users and
clients are one kind of agent; the issuer of a pki token and its identity have one name;
the cryptography of a token is whether the secret is that of the token presented.

### 2.6 CronSchedule

`keys` are the S3 records of one function, whose name is the schedule, `spec` the schedule in
its specification, `tags` whether the function has its tags, `waiting` the delayed messages
for each occurrence, `ran` the executions, `skipped` the occurrences whose message the executor
deleted, while the record was there, without running anything.
Time is an integer, windows are ten minutes, and `Occurrences` is what `cron-parser` yields.

| Code | Actions |
|---|---|
| `compute_build_plan`, `create_function_worker.js` | `Put`, `DeleteKeys` (`delete_cron`), `Register`, `Enqueue` (`enqueue_imminent_cron`), `Save`, `BuildFails` |
| `delete_function` | `Remove`, `DeleteKeys`, `Save` |
| `scheduler.ts` | `Fire`, `Visit` per schedule (`scheduleExecutions`, `sendToSqs`), `EndRun`, `RunDies` |
| `executor.ts` | `Take`, `TakeFails`, `TakeAndDie` (`processCron`, `checkCronStillExists`, `getFunctionTags`) |

`Visit` reads the record of a schedule at any moment of the run, which is what a paged
listing amounts to. `checkCronStillExists` takes any error of `headObject` for a record that
is not there, and `processCron` catches the errors of what follows; in both cases the
message is deleted and the occurrence does not run (`TakeFails`). The tags of a function are
saved at the end of its first build, after its imminent occurrences are sent: one that
is due in between is dropped as well, without any fault (`Take`). The deletion of tags and of the
specification is one step. Not modelled: an executor that fails before it takes a message
leaves it in the queue, which gives it up to the dead letter queue after a number of times. Abstracted: one clock for all processes; other functions; the filter
of deployments and subscriptions; the execution, which is that of `TaskQueue` and
`FunctionBuild`.

What one sees of the code in the model, and the properties excuse: a schedule built in the eighth minute,
before the scheduler has listed it, is sent by both (`straddled`); a scheduler
that begins late skips a window (`lapsed`); the loop of `enqueue_imminent_cron` has the
condition `(i < limit) || 120`, which always holds, so that only the end of the window
limits it; a build that fails leaves records that are not the specification's; of two
overlapping builds both records may stay; a schedule changed and changed back finds its
old messages and uses them.

### 2.7 RunAsKeys

Keys are numbered; `public` and `since` are the DynamoDB table, `key`, `timer` and
`putting` the key store of each process, `cache` that of each verifier. The timer of a process
that starts is due at once, which is its first `rekey`.

| Code | Actions |
|---|---|
| `AwsKeyStore.rekey`, `KeyStore.createKey`, `setKeyPair` | `Rekey`, `PutDone`, `PutFails`; `Restart` of the process |
| `KeyStore.signJwt` | `Sign` |
| `InternalIssuerCache.findKey`, `refreshCache` | `FindKey`, `Scanned` |

A put that fails rejects a promise nobody handles: the timer is not set again, the old key
is used until `isHealthy` and `signJwt` refuse it, and `orphaned` names it. In the executor
a first rekey that fails is remembered (`executor.ts:40-41`). Nothing sets
`lastCacheRefresh`, so every unknown key causes a scan; of two scans the older may
answer last. A scan that fails is left out: the request is then answered with that error, not
with a refusal of its token, and the cache stays. The comment on `KEYSTORE_REKEY_BEFORE` ("Rekey when the life of the key closer
than this") says less than the code does, which replaces a key that many minutes after it was made.
DynamoDB's own deletion of expired keys is left out, since a scan filters them.

`MaxLate` is an assumption on the process. In a server a timer is late by what the event loop
is busy. The executor is a Lambda function, whose container is frozen between invocations: one
that sleeps past its timer by more than the margin allows signs, when it wakes up, with a
key that has less to live than the token. With the executor's options and a put that
takes no time, it has 90 minutes.

### 2.8 StorageRows and StorageContract

Within one call of a SQL function each statement sees the table as it is then. `call[c]`
is the function in progress: what its cursor saw and when, which rows are still to come,
which are deleted and, until the commit, locked.

| Code | Actions |
|---|---|
| `storageGet` | `Get` |
| `storagePut`, `update_if_version` | `StoragePut`, `CheckIfVersion`, `Update` or `UpdateNothing`, `Insert` or `NothingDone` |
| `storageDelete`, `delete_if_version` | `StorageDelete`, `StoragePrune`, `CheckIfVersion`, `DeleteNext` per row, `DeleteEnds`, `NothingDone` |
| expiry and `purgeExpiredItems` | `Expire`, `PurgeExpiredItems` |
| a statement that times out | `Fails` |

`Current` is what PostgreSQL documents: *Without FOR UPDATE, a subsequent WHERE CURRENT OF
command will have no effect if the row was changed since the cursor was created* (DECLARE).
The server's executor may instead follow the row to its latest version; then two PUTs with
one etag can both succeed, and so can two updates of an entity with one version. The
slip `CurrentFollowed` is that reading, under which TLC finds the lost update and the proof
fails. Which of the two a deployment has must be tried on its server; `FOR UPDATE` in
`check_if_version` makes the question go away.

Also seen: a PUT without `expires` on an item that has expired and is not purged yet succeeds, and the
item stays unreadable; a PUT or DELETE beside another one may answer 404 for an item
that is there all the time; the etag of a recursive deletion is compared with one row, whichever comes first.
Abstracted: an item's data is its version; the pages of a listing, which OFFSET may make
skip rows.

## 3. Runs

`tlc -config <cfg> <module>`; PROJECT.json lists the properties of each run.

### Runs that pass

**entity_pair** (926,000 states, 2 min). Two requests of any kind on one entity that
may exist, with a tag, an expiry and one fault.
`VersionIdentifiesRow`: a version in the table or in a request's memory names one
content. `StuckExplained`: a row says "processing" with nobody at work only because the
request that marked it died, because its last writes threw (of an update both tries),
or because a tag written meanwhile gave the mark a new version, on which the last writes
conflict; never after orderly requests. `SerialConsistent`: on a clean key the deployed function
is what the row says. `ImplementsContract`: every step is one that `EntityContract` allows.

**entity_settle** (166,000 states, 1 min). As before, with data that `sanitizeEntity`
rejects: `ImplementsContract` again; `ServedConditionalWrite`: a request that insists on
a version which reached the service, which is what a DELETE does, overwrites or removes only the
row it saw, over both of its writes; and `RequestsEnd`, under fairness.

**session_race** (556,000 states, 40 s). Three requests of any kind on a session of a
form and a connector, one fault. `OneLeafPerStep`, `CommittedWhole`,
`ProcessingExplained`, `OutputIsCommitted`, as above.

**function_build** (215,000 states, 50 s). Two requests on a function that may exist,
one thing goes wrong. `AtRestConsistent`: the six stores agree after orderly requests,
so the build plan skips nothing that is needed. `ImplementsContract`: until then every step
is one of `FunctionContract`. `RecordedWasPublished`: the specification and the tags name a
version that was published, whatever overlaps and fails. `NewestStays`: garbage collection
never takes the newest version. `BuildsSettle`: an accepted build ends, unless the
process died or the end of the build failed.

**tasks_pair** (307,000 states, 90 s). One delayed and one immediate task on a route
with `maxRunning` 1, one fault. `NotEarly`: no task runs a whole second before its
time; up to a second it does, because delays are rounded down. `RunningLimit`;
`StatusForward`: a poller never sees a status go back unless a fault hit the task;
`TasksSettle`: an accepted task ends, even if an executor dies.

**accounts** (1.6 million states, 1 min). Three requests, two at a time, on an agent that is there
and one that is added, with one failing call. `AgentExact`: unless two requests for one
agent overlap or one of them fails, the agent is exactly what its requests said,
whatever is done to others. `TokenSingleUse`: a second request gets in with
a token only when a newer token of the agent came between. `CliIssuerThere`: an identity of a
command line client does not lose the issuer that verifies it.

**cron** (1.7 million states, 2 min). Two builds or deletions at any moment of two windows, the
scheduler on time, late or restarted, messages refused, delivered twice or dropped by the
executor. `NoGap`: from a build on, each occurrence has its message in time, or the executor has taken
it while the record was there; that it then ran the function is not promised (2.6), and
`skipped` names where it did not. `RanOnce`: none has two, with the exceptions of 2.6.
`KeysMatchSpec`: after orderly requests the records are those of the specification.

**keys** (737,000 states, 20 s). One signer, one verifier with two requests, with late timers, slow and
failing puts, restarts. `TokenInKeyLife`, `RefusedOnlyFresh`, as in 1.

**storage** (422,000 states, 100 s). Three requests of any kind of three clients on two items,
that expire and are purged, one failing statement. `ImplementsContract`: every statement
is a step of `StorageContract` or changes nothing it sees. `PruneLeavesOnlyNew`: a recursive
deletion that succeeds leaves only rows written after it began.

### Runs that find a disagreement

| Run | Property | What happens |
|---|---|---|
| entity_tag_race | `ProcessingMeansInProgress` | A tag set during a creation draws a new version, the creation's final conditional write fails and is only logged: the entity is "being created" for ever. |
| session_failed | `FailedMeansInvalid` | Of two commits of one session the second succeeds; the first fails in its transaction and marks the active install as a creation that failed. |
| storage_revived | `PutMatches` | A PUT with the etag of an item that was deleted or purged meanwhile is accepted, and stores the item anew. |

The quoted documentation and the lines are under `findings` in PROJECT.json. The
passing properties are stated so that they hold in spite of these: `StuckExplained` names
tag writes among its causes, `ServedConditionalWrite` speaks of the versions that reach the
service, `ProcessingExplained` names the commits that
lose the race to name their install, `StorageContract` lets a put through where nothing
is stored.

### Disagreements kept as definitions

These statements are definitions of their modules, TLC refutes each of them, and no run
of this project repeats it. To see one, name it in a configuration that gives the
module the values shown.

| Definition | Configuration | What happens | What is said |
|---|---|---|---|
| `EntityLifecycle!SuccessMeansAvailable` | as entity_tag_race, `MaxFaults` 0 | DELETE removes the row, then the function; a creation in between succeeds and loses its function. | `api_v2.yaml:1266-1267` "Once the `operationState.status` value is `success`, the entity is available for use" |
| `EntityLifecycle!ConditionalWrite` | one key, two requests, two data, no tags, `MaxFaults` 0, as PROPERTY | A PUT that carries the version of an older row overwrites the newer one: `entityFromBody` drops `version`, so the check at `BaseEntityService.ts:265` never fails for a PUT. | `BaseEntityService.ts:265` "Do an initial version check before it gets lost" |
| `FunctionBuild!NoTemporary404` | as function_build, `Faults = {}` | The garbage collection an update set fires while the next update has published its version and not saved the tags: the version the tags name goes. | `function.test.ts:1037` "PUT updates function without a temporary 404" |
| `FunctionBuild!RequestsAnswered` | as function_build, `Faults = {}` | A DELETE that finds a specification and no tags throws in a callback and is never answered; two DELETEs are enough. | `function.test.ts:452` "DELETE on a deleted function returns 404" |
| `TaskQueue!PendingLimit` | three tasks without delay, `MaxPending` 1 | Requests checked against one remembered count all pass. | `api_v1.yaml:3810` "If the number of requests pending execution exceeds `maxPending`, an HTTP 429 response is sent" |

Seen while modelling and stated by no document: the loser of two commits
leaves an install in creating/processing; a repeated commit creates the identities
again; a failed build leaves the new schedule and queues, and the same PUT again
plans nothing; an update that fails after publishing is never repaired, and the
version that is recorded is gone after the next collection; a build whose end fails
says "building" for ever; overlapping PUTs share one package key; the secret of an
initialization token is consumed before the request is verified with it; an update whose
build fails stays in updating/processing for good when a tag was written meanwhile, because
both tries of its last write insist on the version of its mark; what 2.6, 2.7
and 2.8 list.

### Bounds

- *Requests and tasks are used once*; their number bounds a run. The hazards listed
  are races of two actors and a fault; sessions get three requests, because a race
  of two commits needs a third to change a leaf or edit the install.
- *One key* in the entity runs: requests on different keys share only the version
  sequence; `VersionsUnambiguous` is proved for any number of keys.
- *Faults*: `MaxFaults` is 1. One fault is what the code's own fallbacks are for.
- *Time* in `TaskQueue`: `MaxTime` 4 half seconds and `MaxDelay` 1 second make the
  delayed task pass through the standard queue twice, an odd count of half seconds
  appears between, so both the cutting of delays and the rounding happen.
- *MaxOld*, the version of an entity that is there at the start, is 1.
- *Functions*: what a PUT may ask for differs from what is deployed in one thing or in
  several; two task routes, so that an update keeps one and adds the other: with one
  route no update touches queues and keeps any.
- *N = 2* in sessions, one form and one connector that depends on it.
- *Accounts*: an agent that exists and one that is added, an ordinary identity and one
  of a command line token, one permission, three requests of which two run at a time,
  two tokens, one failing call. Two agents and one identity are what a competition for
  it needs; two tokens are what replacing a token under a request needs.
- *Cron*: a tick is two minutes, so a window of ten is 5 ticks, the eighth minute is
  tick 4 and the 15 minutes of SQS are 7. One schedule has an occurrence in the first
  window, at its eighth minute, the other has two in the second, at ticks 6 and 8, one
  more than `MaxExecutions` 1, and a change from the one to the other is an update. The
  clock stops at 8, when all of them are due. Two builds, two copies of a message, one fault.
- *Keys*: a tick is 30 minutes and the options are those of the cron executor
  (`executor.ts:17-24`): a key for 3 hours, replaced every hour, a token for 30 minutes,
  so `MaxKeyTtl` 6, `RekeyInterval` 2, `JwtValid` 1. `MaxPut` 1 and `MaxLate` 1 then fill
  the margin exactly. Three keys, two tokens, two verifications at a time, one fault.
  `Lag` is 0; the theorems hold for any.
- *Storage*: three clients, because a put, a deletion and a recursive deletion that
  meet are three; two items, because a recursive deletion that loses one of its rows
  must go on to the other; three requests, one failing statement.

TLC checks no deadlock (`CHECK_DEADLOCK FALSE`) because requests are used once: when
all of them have ended, the run is over. That they do end is `RequestsEnd`,
`BuildsSettle` and `TasksSettle`, which a deadlock would violate. In the four modules
added last the clock, the keys or the requests run out in the same way.

### Fairness

- `EntityLifecycle`: weak fairness of each request's next step. A callback given to
  `setImmediate` is run by Node; an await of a database or HTTP call ends with a
  result or an error; the wait for a build is limited to 100 seconds in
  `functions.ts`. Nothing is assumed of clients, builders, expiry or purge, so a
  build may never answer. `RequestsEnd` takes for granted that an undeployment
  returns, which fails when DELETEs of a function overlap (`RequestsAnswered`, above).
- `FunctionBuild`: weak fairness of each request's next step, for the same reason; the
  Lambda and S3 clients have timeouts. Garbage collection and time are not fair.
- `TaskQueue`: the clock advances, and for each task some message of it makes progress:
  SQS delivers what is visible, an invocation returns, a function ends by its timeout.
- A crash is never fair and is allowed at any step of the background parts.
- `AgentAccess`, `CronSchedule`, `RunAsKeys`, `StorageRows` state no fairness: their
  properties are about what may never happen. Time-bound promises are stated as such:
  `Tick` of `RunAsKeys` does not pass the latest moment of a timer or a put, and
  `CronSchedule` notes a scheduler that did not end in its window (`lapsed`).

## 4. Proofs

`tlapm <module>` checks all of them. They hold for every value of the constants that
the ASSUMEs of the modules allow.

**EntityLifecycleProofs.** `IInv == TypeOK /\ Control /\ VersionIdentifiesRow` is
inductive. `Control` says what a request holds at each place of its program.
`VersionIdentifiesRow` alone is not inductive: that a held row equals the table's row
of the same version survives a write only because a write draws a version above
`clock`, and because what a request writes from is typed. `TypeCorrect`,
`VersionsUnambiguous` follow; `ServedConditionalWriteSafe` follows because a write whose
condition is "the version is still the one I hold" is, by the invariant, a write over
the very row that is held.

`StuckMarksExplained` needs `Marks`: when a row says "processing", some request owns that
mark (`Owner`): it is on its way to replace it (`Replaces`), and then it holds the row's
version unless a tag write gave the mark a new one (`Carried`), or it has left it behind in one of the
ways of `LeavesMark`. `SerialRequestsAgree` needs
`Serial`: on a key that is clean at most one request works, the row is the one it holds,
and function and row agree as far as its place says.

`LifecycleImplementsContract`: under `IInv` each action maps to an action of the contract or to a stutter through `View`. The hard steps are
`Commit` and `Abort`: that an entity does not become invalid once active, they owe to
the version condition and to `HeldVersions`.

**SessionCommitProofs.** `IInv == TypeOK /\ OneLeafPerStep /\ Known /\ Control /\
CommittedWhole /\ Owed /\ Named /\ OutputIsCommitted`. What makes the properties
inductive is how old the copies in a request's memory may be. `TrunkRead`: a trunk of
the version that the row has is the row, so a conditional write puts back the children
it has not seen change; without it a leaf could be lost. `OldRead` says the same of the
install that the catch block read. `Known` and `LeavesRead`: an identity named by a
leaf, an install or a request is one of that step for good, so the transaction of one
commit, which overwrites identities, cannot spoil the install of another. `Owed`
strengthens `ProcessingExplained`: of the requests that could have left an install
processing, one is still to write it, and if it is at its last write, the version it
holds is the row's, so that this write will find its row. That the initial and the new
identities are numbered without gaps is a counting argument (`Ranks`: an injection
between sets of one size is onto). `TypeCorrect`, `StepsHaveOneLeaf`,
`CommitsAreWhole`, `ProcessingIsExplained`, `OutputsAreCommitted`.

**FunctionBuildProofs.** `IInv == Stored /\ Versions /\ Control`. `Stored` types the
six stores and says that the specification records a queue for exactly its task
routes. `Versions` says that what is live and what a collection waits for was
published, and `NewestStays`: inductive once `live` is known to be within the
published versions, because then the largest live version, which `Collect` spares, is
the newest. `Control` says what each request holds at each stage: until the stage of
the tasks it carries the queues of the specification it read, from then on those
of the routes it wants. `TypeCorrect`, `NewestVersionStays` and `QueuesRecorded`
follow; the last needs no fault-freeness and no order of requests, because a build
that skips the stage of the tasks wants the routes of the specification it read.

`RestsConsistent`: `AtRestConsistent` speaks only of moments when nobody works, so the
invariant, `CleanTidy`, says what orderly requests have made of the stores at every stage. It
has one part for the code (`CodeStage`), the schedule, the queues, the two writes of the
end and the deletion; `Planned` says of a plan that what it leaves out is as it was. A stage
that was skipped is right because the stage that would follow it finds what it left. The proof
shows too that `TurnAround` and `Missing` need a second request. `RecordedVersionsExist` is by
`Dated`: the version that a request carries is 0 only while it has none to record.
`BuildImplementsContract` maps each step to one of `FunctionContract` or a stutter
by three facts: that the answer is due (`Answer`) is `AtRest`, that queues stay (`Feed`) is
`TasksStage`, and the version that runs is the one wanted by `CodeStage`.

**TaskQueueProofs.** `IInv == TypeOK /\ Queues(msgs) /\ Requests`. `Queues` has the parts
`Unique` (a number names one message), `Foremost` (a message in progress is the
first of its group), `Grouped` (a message of the FIFO queue has a group of its task)
and `Scheduled`/`OnTime` (where the message is, and when it becomes visible, never puts
the task a second early). `NeverEarly` is `OnTime` at the moment of running.
`RunsWithinLimit`: by `Foremost` the groups of running tasks differ, so running tasks
inject into the groups, of which there are `maxRunning`. `StatusesGoForward` adds
`InStep` to it: a task that no fault has touched has no message before its request sends
one, at most one open message afterwards, and a record that says how far this message
is; so a step that writes the record of such a task moves its only message.

**AgentAccessProofs.** `CoreInv == TypeOK /\ Control /\ Names /\ InTurn /\ TokenSingleUse`.
`Control` says which calls a request may have under way together (`Fits`), `Names` to which
tokens and agents they refer; the types depend on both, since a body is read by calls
that must not outlive it. `InTurn` is what `TokenSingleUse` lacks: the token an agent has
is newer than any that has let in a request, so a second request let in by the same
token has deleted a newer one. `TypeCorrect`, `TokensLetInOnce`.

`ExactInv` rests on it, as long as no two requests for one agent overlap. `SoFar` says of
each request how far it has written its agent: the identities, the permissions and the
row it has not got to are as they were said to be, and of those it has, exactly what it
has still calls for is missing. `Apart` adds that what it is to drop is its own agent's,
for identities are dropped by their key alone; `InStep` that an agent nobody writes is as it was said
to be. `Fresh` (nothing is stored for an id not given out) is what an addition starts from.
Each kind of call then has one lemma, and the parts it does not touch follow from the
kinds of the calls (`IdsAlone`, `AccessAlone`, `RowAlone`). `AgentsExact`. For the issuers, `IssuersInv`: `FromToken`,
an identity of a token not yet issued is nowhere; `IssuersThere`, an identity an agent has, or a
request is to give it, has its issuer, and an issuer about to be deleted is of an
identity its agent has lost, which only that agent's token could give back. `IssuersStay`.

**CronScheduleProofs.** It assumes `DelayAssumption`: a message can be delayed from the
eighth minute to the end of the next window (20 minutes against 8 and 15). The
invariant has `Coverage`, which says of each schedule that is in place how far its
occurrences are dealt with (`Dealt`: they have a message, or have run, or were dropped by the executor
while the record was there): to the end of this window, and to the end of the next one
once the run of this window is past the schedule (`Swept`). `NoGap` is `Coverage` at
rest. `Once` bounds the messages of a schedule registered once in the same terms, and
`Matches` says what an orderly request has made of the records at each place.
`TypeCorrect`, `NoOccurrenceMissed`, `NoOccurrenceTwice`, `KeysFollowSpec`.

**RunAsKeysProofs.** It assumes the margin `RekeyInterval + 2 * MaxPut + MaxLate +
JwtValid <= MaxKeyTtl`, which the options of both key stores keep. `IInv` adds to the
properties `Numbered` (what is used is published), `Checks` and `Timely`: the time by
which the successor of a key is due follows the key through timer, put and answer.
`TokenInKeyLife` is not inductive without `Timely`, because nothing in a token says
when its key will be replaced. `TypeCorrect`, `TokensVerifiable`, `RefusalsExplained`.

**StorageRowsProofs.** `IInv == TypeOK /\ Calls /\ Apart /\ Etags`. `Calls` has three
parts: `Sound` (what a cursor holds fits the call), `Held` (a row that a deletion has
deleted is still the row it saw, as it is locked) and `Since` (a row the cursor did not see,
or saw with another version, is younger than the cursor). `Apart`: two deletions
hold no row both. `PruneLeaves` is `Since` at the moment the loop is through; `Atomic`
maps every step to one of the contract or a stutter: the write is the moment, since
`Current` and the check at the opening together say that the row still has the version
given. Both rest on what PostgreSQL documents of `WHERE CURRENT OF` (2.8).

Every invariant and every action property of the passing runs is proved. Only model-checked
are the counterexamples and liveness (`RequestsEnd`, `BuildsSettle`, `TasksSettle`), which is out of the
prover's reach, as is ENABLED. Induction over data is too; nothing here needs it, since no
module has a recursive definition.

## 5. Not modelled

Most of the lines of the repository keep no state that two actors share: browser libraries
and demo pages (`demo`, `comp`), the command lines (`cli`), the
portal and editors (`site`), client libraries (`sdk`, `lib/client`), deployment scripts,
route tables, schemas and tests. A state machine of such code would
restate a form or a template. Of the services that do keep state these are left out:

- OAuth proxy: what matters is the provider's rotation of refresh tokens, elsewhere.
- npm registry: publishing reads, merges and writes a package without a condition, so
  two publications may lose one; nothing is promised about it.
- Subscription caches: read-through, refreshed at a limited rate.
- Metering, analytics, logs, Grafana proxy: best-effort buffers that lose a batch by design.
- Accounts, subscriptions, issuers by themselves, audit: single-record operations.
- Operations, command line, portal, SDKs: deployment scripts, user interfaces, clients.

In the modelled parts: routes and their validation of bodies, the comparison of
permissions, the content of data, tokens and logs of an execution, `createSession` and session expiry, requests
on identities, upsert and prefix queries other than those of storage, listing.

Hazards that are known and have no property, because the code makes no promise one could
hold it to: the install is read outside the transaction of the commit; a function stays
when its row is purged; the status of a task is read, extended and written without condition.

## 6. Plan

Done: the entity lifecycle and its contract, sessions, function build and its contract, tasks,
schedules, run-as keys, agents and storage, checked and proved. What is left:

1. A contract of a task for `TaskQueue`, as its POST answers and its status tell it, and
   the refinement: `StatusForward` and `NotEarly` are parts of it.
2. What of `ProcessingExplained` and `CommittedWhole` a contract of sessions would say.
3. `StorageRows` with the other reading of `WHERE CURRENT OF`, once the deployed server
   has been tried.
