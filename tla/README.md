# vault-sync in TLA+

vault-sync copies the secrets of a main Vault cluster to replica clusters and
keeps one row per (secret, replica) in PostgreSQL. This directory holds a model
of it in TLA+: modules that follow the Go code action by action, TLC
configurations that check them on small instances, and proofs that TLAPS checks
for every value of the constants. `PROJECT.json` maps each definition to the
lines it stands for.

    tlc -config MCSyncJob_single.cfg MCSyncJob      # model-check
    tlapm SyncJobMirror_proof.tla                   # check proofs

## 1. The system

| Component | Code | State | Operations | Talks to |
|---|---|---|---|---|
| Command line, wiring | `cmd/`, `internal/core` | none | `sync once`, `dry-run`, printing commands | builds everything, calls `StartSync` |
| Configuration | `internal/config` | the loaded file | load, validate | read by the wiring |
| Orchestrator | `internal/service/orchestrator` | paths, semaphore, WaitGroup, result channel, counters | `StartSync` | path matcher, repository, one job per path |
| Path matching | `internal/service/pathmatching` | the sync rule | `ShouldSync`, the pruned walk over a mount | Vault client |
| Sync job | `internal/service/job` | `SyncState` of one execution | `Execute`: gather, decide, sync or delete, record | Vault client, repository |
| Vault client | `internal/vault/client.go`, `replica_sync_handler.go`, `types.go` | one cluster manager per cluster; results of a fan-out | exists, metadata, sync to replicas, delete from replicas | cluster managers |
| Cluster manager | `internal/vault/cluster_manger.go` | the token of one cluster | read, write, delete, list, login and renewal | Vault |
| Repository | `internal/repository/postgres` | circuit breaker | get, list, upsert, delete a row | PostgreSQL |
| Datastore | `pkg/db` | connection pool, health check goroutine | connect, migrate, ping, `Close` | PostgreSQL |
| Converter, logger, migrations | `pkg/` | none | conversions, logging, schema | |

A run is a process: `runOnce` builds the objects and calls `StartSync`, which
lists the paths Vault has and the paths the table remembers, and executes one
job for each, at most `concurrency` at a time. A job reads the rows of its
secret, then the source's metadata, then whether each replica has the secret;
decides; and either returns, or reads the source again and writes it to all
replicas in parallel, or deletes it from all replicas in parallel. After the
last answer it stores one row per replica. Nothing survives a process but
Vault and the table.

What makes it hard:

- *No call is atomic with another.* Owners change the source, another process
  syncs the same secret, and other people delete copies between any two calls.
- *Failure.* A process dies between writing a replica and writing its row; a
  replica refuses; an answer is lost; a request lands after its caller has left;
  a statement is carried out and reported as failed.
- *Decisions from remembered versions.* Rows stand for contents nobody looks at
  again: only version numbers and existence are compared.
- *Goroutines.* Slots, group, channel and collector of the orchestrator have to
  fit together on every path, with a context that ends at any moment.

Correctness, per component: a *job* must not claim what did not happen (rows,
report), must not lose track of a copy, must not delete a copy that is current,
and must bring replicas and source together in the end; the *orchestrator* must
keep its limit, count each path once, say when jobs were left out, and return;
the *repository* must recover after an outage; the *cluster manager* must call
with a live token; the *walk* must find what `ShouldSync` accepts; the *health
check* must end with `Close`. `PROJECT.json` lists the hazards with their lines.

## 2. Modules

| Module | Models |
|---|---|
| `SecretStore` | data: a KV v2 secret, a replica's copy, a row, a request |
| `SyncJob` | the job of one secret, its Vault calls, its rows, the faults, the owners, overlapping runs |
| `ReplicaMirror` | abstract: what vault-sync promises of one secret while its runs do not overlap; implemented by `SyncJob` |
| `ReplicaStore` | abstract: what is left of that promise when they do; implemented by `SyncJob` |
| `Orchestrator` | `StartSync` with its goroutines |
| `ParallelLoop` | abstract: a loop with a limit; implemented by `Orchestrator` |
| `PathMatcher` | the sync rule: `ShouldSync` and the pruning, as operators |
| `Discovery` | the walk over the mounts of the main cluster; all of a dry run |
| `SyncedSecretRepository` | the circuit breaker and the retries inside it |
| `PostgresDatastore` | the connection pool, migrations, health check, `Close` |
| `Storage` | the two above together |
| `TokenGuard` | the token of one cluster manager and the operations that share it |
| `MC…` | instances of these for TLC |
| `…_proof` | theorems, section 5 |

How they fit together: a run is one `Orchestrator`, which begins with one
`Discovery` and executes one `SyncJob` per path. Every call a `SyncJob` makes of
the table passes `Storage`, every call of Vault passes a `TokenGuard`: what
these can do to a call (fail, late, not at all) is in the faults `dbFail`,
`vaultFail`, `writeFail` and `listFail` of the modules above them. `Storage` is a
real composition, since the calls and the pool constrain each other; the others
are connected by an interface so narrow (a set of paths, an outcome) that the
product would check nothing more.

### SecretStore, SyncJob

One secret. Jobs of different secrets share no key and no row, so a model of
several is a product of this one; what they do share (the slots, the breaker, a
token) belongs to other modules.

- *World:* `source` (state, KV v2 version, content), `replica[r]`, `db[r]` (the
  row). A content is the number of the owners' write that made it, so contents
  are ordered. A row has a `data` field that the table lacks: the content it
  stands for. `landed[r]` is a history of what runs ever wrote to a replica.
- *A run* `p` has a `pc` and the fields of `SyncState`: `records` (rows read),
  `seen` (source), `found` (replicas that have the secret), then `request` and
  one `worker` state per replica (`sent`, `applied` by Vault, `ok`/`failed` as
  the goroutine sees it), `outcome` and `status` as reported.
- *Actions* are one call each: `ReadRecord`, `CheckSource`, `ReadMetadata`,
  `CheckReplica`, `Decide`, `ReadSecret`, per-replica `Apply` and `Reply`,
  `Collect`, `RecordResult`. Replicas are iterated in any order where the code
  ranges over a map, and in the order of their names in the two recording loops,
  which the handler sorts. `CallFails` is every early return with an error.
- *Faults* are in `Faults`, counted by `MaxFaults`: `dbFail` (the statement may
  still have been carried out), `vaultFail`, `writeFail`, `lostReply`,
  `lateWrite` (`GiveUp`, then `LandLate`), `confused404` (`secretExists` and
  `isNotFoundError` look for "404" anywhere in an error text), `crash`,
  `cancel`, and three deeds of others: `recreate`, `replicaDelete`,
  `replicaSoftDelete`. A context that is done fails every later Vault call
  without a further fault; database calls do not take the context.
- *Overlap.* `Runs` with one member is a schedule that never overlaps
  (`concurrencyPolicy: Forbid`, README of the repository, line 294); two are
  cron (line 279).

KV v2 itself is external. From how the code uses it: metadata can be read
until it is deleted, also when the current version is deleted; a read of a
deleted version fails; a write increments the version; deleting the metadata
resets it. `vault kv undelete` and rollback of versions are left out.

### Orchestrator

One `StartSync`. Discovery and the table yield any two sets of paths (the error
of the discovery is dropped, so any subset is possible). One goroutine per
path: `CheckContext`, `Acquire` or `AcquireCancelled`, `Execute`,
`SendResult`, then the deferred `Release` and `Done` as steps of their own.
`slots`, `wg`, `channel` and `closed` are the semaphore's length, the WaitGroup,
the contents of `jobResults` and its state. A job is one of the results
`Execute` can return: `ExecutionResults` lists them, a request that ran into
its own deadline included. `channel` is a set: the collector's counters do not
depend on the order.

*The abstract view.* `Loop == INSTANCE ParallelLoop` maps goroutines that check
or wait for a slot to waiting items, those between `Execute` and the release to
running ones, and those that ended without `Execute` to skipped ones.

### ReplicaMirror, ReplicaStore

Per replica: what it holds, what it has held, what its row claims; the newest
data of the source. It allows four steps: owners act, a replica receives data at
least as new as all it ever had, a copy goes that the source has left behind, a
row claims nothing or the newest data. `SyncJob` implements it while runs do
not overlap and nothing is `Astray` (a late request landed, a "404" in an error
passed for an answer, somebody deleted a copy): a step after that is free.

`ReplicaStore` is what remains for any number of runs at once, and for late
requests: a replica receives only data the source once held, the newest or not; a
copy goes only from a secret whose metadata was deleted at some time (`Dropped`);
a row claims nothing or something its replica has held. It is free only after a
confused "404" or after somebody deleted a copy.

### PathMatcher, Discovery

A key path is a sequence of segments. `Matches` says what `doublestar.Match` does
by cutting a path into pieces, one per segment of the pattern; it is declarative,
so that there is no recursion in it and theorems hold for any length. Wildcards
inside a segment are left out: pruning splits at "/" and never looks into one.
`Discovery` is `DiscoverSecretsForSync`: `EnterMount`, one `List` per directory,
depth first, with pruning and filter, `LeaveMount`; `MountFails` drops a mount.
`Create` and `Delete` are the owners between two requests; `always` and `ever`
are histories of the tree.

### SyncedSecretRepository, PostgresDatastore, Storage

The breaker is sony/gobreaker, external: generations, a closed one that forgets
its counts at `Interval`, an open one that becomes half open at `Timeout`
(`Expire`), noticed at the next call (`Looked`), and answers of an earlier
generation that do not count. From the code come the rate at which it trips, the
number of tests, the tries inside one request, and what becomes of errors. The
pool is database/sql: `held` is who has a connection, and a statement waits for
one without a deadline. The driver of the migrations keeps its own for good. The
health check is a goroutine of five steps, `Close` of three; the stop signal is
sent by a `select` with a `default`, hence `SignalStop` and `DropSignal`.
`Storage` joins them: a statement holds a connection while it runs and fails
when the database is down. Two jobs and a closing goroutine share it.

### TokenGuard

Time in ticks. An operation looks its token up, logs in when less than five
minutes are left, sets the new token, and sends its requests, one or (the walk)
many. Nothing orders the look-ups and `SetToken` calls of different operations.
A role whose tokens live for less than the threshold logs in for each operation.

## 3. Runs

Every passing run is exhaustive. `CHECK_DEADLOCK` is off in `storage`, where
everybody may have finished and the database be closed, and in
`orchestrator_no_slots`, whose finding is that the program stops.

| Run | Instance | Checks |
|---|---|---|
| `job_single` | 1 run, 2 replicas, 2 writes, any 2 faults of 10 kinds | `TypeOK`, `SuccessIsEarned`, `RowNeverAhead`, `CopiesTracked`, `NoOpUpToDate`, `ReportTruthful`, `NeverDeletesCurrentCopy`, `RowGoesLast`, refinement `IsMirror` |
| `job_overlap` | 2 overlapping runs, 1 replica, 2 writes, any 1 fault of 11 kinds | `SuccessIsEarned`, refinement `IsReplicaStore` |
| `job_live` | as `job_single` with fairness and 5 kinds of fault | `DeletionCarriedThrough`, `Mirrors` |
| `job_stale_noop` | a refused write | finding: `NoOpMeansUpToDate` |
| `job_recreate_noop` | a secret created anew | finding: `NoOpMeansUpToDate` |
| `orchestrator` | 3 paths, 2 slots, cancellation at any moment | `TypeOK`, `WithinLimit`, `NoSendOnClosed`, `EveryPathAccountedFor`, `NilErrorMeansAllRan`, `SendersHaveRoom`, `NeverStuck`, `Returns`, refinement `IsParallelLoop` |
| `orchestrator_no_slots` | limit 0 | finding: `Returns` |
| `orchestrator_errors` | 2 paths, 1 slot | finding: `ErrorsCountAsFailed` |
| `discovery` | 2 mounts, one with 5 paths up to depth 3, every pattern up to 3 segments, 1 fault, 1 change of the tree | `TypeOK`, `OnlyWhatTheRuleAccepts`, `Complete`, `PruningHidesNothing`, `Ends` |
| `discovery_pruned` | everything but `a/*` | finding: `WhatMatchesIsDiscovered` |
| `storage` | 2 jobs, 2 connections, 1 outage, 2 `Close` calls | `TypeOK`, `HalfOpenGetsDecided`, `TripsWhenAllFail`, `ClosesAfterAllTests`, `ClosedQuietly`, `NoSendOnClosedChannel`, `NobodyWaitsInVain`, `EveryCallReturns`, `Recovers` |
| `token` | 2 operations of up to 3 requests, tokens of 7 ticks, threshold 4 | `TypeOK`, `NeverDeniedInTime`, `NobodyLogsInTwice`, `OperationsEnd` |

*What the job's properties say.* A row says success only for data that was
written there. Without overlap a replica is never older than its successful
row. Between runs every copy has a row (else a later deletion would miss it),
unless a crash, a cancellation, a database failure, a confused "404" or a late
write came in between: each of these leaves a copy without a row in the code,
and `DeletionCarriedThrough` and `Mirrors` show what is repaired afterwards. A
no-op leaves every replica with what the run saw. A report of *updated*,
*deleted* or *error_deleting* agrees with row and replica: an updated replica
holds the data the run read. No copy is deleted while it holds what the source
holds, and no row is removed while its replica has a copy (`RowGoesLast`): one
replica's failed delete does not cost another its row.

*The orchestrator's.* Beside the limit, the counts and the closing of the channel:
the channel has room for every result, so that sending never blocks
(`SendersHaveRoom`), and there is no state in which main, closer and goroutines all
wait (`NeverStuck`, which spells out what each waits for). `Returns` adds that the
scheduler lets them go on.

*The walk's.* What is found was there and the rule accepts it. Accepting is
`ShouldSync`, that is, doublestar's reading of a pattern; the guide of the rules
(`pathmatching/README.md`) reads some patterns differently, see section 4.
`OnlyWhatTheRuleAccepts` says that a replicated pattern lets in what the guide gives
it (`GuideMatches`) and beyond that two things only, its exemptions
(`BeyondGuide`): the secret named like the directory of `a/**`, and everything in
the root for a single `*`. What the rule accepts, stays there and lies in directories that pruning keeps is found, in
every mount without a fault, however the others fail. Pruning keeps the
directories of all accepted secrets if `**` stands first or last in what is
replicated and last in what is ignored (`PruneSafe`). Elsewhere it does not:
`secrets/**/config` matches at any depth, but the walk stops at the pattern's
own length; that, and `a/*`, are the cases `PruneSafe` excludes.

*The repository's.* A half open breaker that admits nobody waits for a test
that decides it, since it has no expiry; it closes on the answer of its last test,
never on that of a call from before; failures trip it at the stated rate; whoever
waits for a connection waits for a statement or a ping that will give one back; every
call returns through an outage and a `Close`; after the last outage the breaker
closes for good.

*The token's.* A request is denied for its token only later than the threshold
after its check, less the delay by which an older login may overwrite a newer;
nobody logs in twice for one token that ran short.

The exceptions in the properties are the faults under which the code does not
keep them. Each was found by TLC and stays in the formula, so that the property
names exactly what it does not cover.

*Bounds.* Two writes give an old and a new content, which is all the properties
compare; with two replicas one can fail and the other not, and the order of
recording matters; two faults allow a failure during the repair of another.
`job_overlap` has one replica because the runs interact through the row and the
copy of one replica only, and two replicas are beyond what TLC explores. Three
paths on two slots make one job wait. The counts of slots, group and channel
are bounded by the number of paths, so nothing is cut off. Paths of depth three
and patterns of three segments put a wildcard before, between and after names,
and a name that is secret and directory at once is among them. In `storage` the
breaker trips at three requests and tests with three where the code has five
of both, `Window` = 4 requests per closed generation: enough for a call of one
generation to answer in the next but one. With two connections, of which the
migrations keep one, statements and the ping compete for the other. Tokens of
seven ticks, a threshold of four and a delay of two leave room between the
threshold and a new token, and for a walk to outlive its token.

*Fairness.* `SyncJob!FairSpec` has weak fairness on the steps of a run,
`Start` included: the schedule keeps starting runs, and a process that can go on
does. Faults, owners and other people have none. Both properties follow from
repetition: every run looks at everything again. `job_live` leaves out the
faults that break convergence in the code itself: a refused write and a
recreated secret (findings), a cancelled run's and a late request's
effects, and a soft deleted copy, which is taken for a present one.
`Orchestrator!FairSpec` is the Go scheduler: every goroutine that can run runs.
A job is assumed to return; requests time out and retries are limited.
`Discovery!FairSpec` and `TokenGuard!FairSpec` have weak fairness on the walk and
on the operations: every request is answered or fails at its deadline.
`Storage!FairSpec` has weak fairness on the clock, the migrations, the goroutine
(but not on its ticker) and `Close`, and strong fairness on the calls, because
database/sql serves those that wait for a connection in their order. Weak
fairness on asking says that jobs keep coming: `Recovers` is about one run that is
long enough to ask until the breaker has decided, not about the next run, which is
a new process with a fresh breaker. `Outage` and `Repair` have none: `Recovers`
speaks of behaviours that end up with a database that works.

## 4. Findings

1. *A refused update is never retried* (`job_stale_noop`, `sync_job.go:234`).
   The failed row carries the new version, and the decision ignores the status.
2. *A secret created anew is not synced* (`job_recreate_noop`,
   `sync_job.go:190`) until its version exceeds the recorded one.
3. *Without a `concurrency` entry StartSync never returns*
   (`orchestrator_no_slots`, `orchestrator.go:183`, `config.go:20`).
4. *A job that ends in an error counts as a no-op* (`orchestrator_errors`,
   `orchestrator.go:312`), and the run reports no error.
5. *An ignored `a/*` hides all below `a`* (`discovery_pruned`,
   `path_matcher.go:206`), although it matches one level only and the command
   that tests rules says that the rest is synced.

The guide of the rules, `pathmatching/README.md`, is at odds with the code and with
itself; these have no run of their own:

- `secret/**` accepts `secret` (doublestar lets `**` stand for no segment,
  `core_path_matcher.go:51`). Lines 58 and 308 list it under "Doesn't Match" and
  lines 59 to 61 do the same of other patterns; line 54 says that these patterns
  match the path and everything under it. `OnlyWhatTheRuleAccepts` exempts it.
  As a pattern to ignore it ignores `secret` too, which `Complete`, being about
  what `ShouldSync` accepts, follows.
- A single `*` is rejected, lines 14, 226 and 275 say; `syncRuleValidation` does not
  look, and it accepts every secret in the root of a mount. Exempted as well.
- `/*` reaches one level in the code. Lines 48, 257 and 318 say so, lines 11, 277,
  280, 288 and 292 say any depth, and lines 11 and 44 include the path itself. Where the
  guide gives a pattern more than the code does, `Complete` takes the code's reading.

Noted while modelling, without a run of their own: a `Close` during a ping loses
its signal and the goroutine lives on (`ClosedQuietly` excepts it;
`postgres_test.go:197` expects otherwise); with `max_connections: 1` the
migrations hold the only connection and every call waits for ever; statements
have no deadline, and the context of a run does not reach them; ten tries count
as one request of the breaker.

## 5. Proofs

The proofs assume what the modules assume: `Replicas` is a finite non-empty set
of naturals, `MaxWrites` a positive and `MaxFaults` a natural number, `Faults` a
set of known faults, `Paths` and `Callers` finite, `Concurrency` a natural number,
0 included, mounts, trees and rules made of sequences of strings. Nothing bounds
their size. `PROJECT.json` lists all theorems with the property each establishes.

| Module | Theorems |
|---|---|
| `SyncJob_proof` | `TypeCorrect` |
| `SyncJobSafety_proof` | `SuccessEarned`, `ImplementsStore`, for any number of overlapping runs |
| `SyncJobMirror_proof` | `RowsBehindCopies`, `CurrentCopiesKept`, `ImplementsMirror`, `RowsTracked`, `RowsGoLast`, `ReportsTrue`, `NoOpsUpToDate`, for runs that do not overlap (`OneRun`) |
| `Orchestrator_proof` | `LimitKept`, `ClosedChannelSafe`, `OrchestratorTypes` |
| `OrchestratorResult_proof` | `AllAccountedFor`, `NilErrorEarned`, `SendingNeverBlocks`, `DeadlockFree`, `ImplementsParallelLoop` |
| `Discovery_proof` | `DiscoveryTypes`, `OnlyAccepted`, `WalkComplete`, `PruningHarmless`, `SafeRulesDiscoverAll` |
| `Storage_proof` | `BreakerNeverStuck`, `BreakerTrips`, `BreakerClosesLast`, `CloseIsSafe`, `Composition`, `StorageSafe`, `StorageTypes`, `WaitersServed` |
| `TokenGuard_proof` | `TokenTypes`, `DeniedOnlyLate`, `LoginsBounded` |

*SyncJob.* `TypeOK` alone is not inductive: a write's data would leave `Data`
unless the source's content and version are bounded by `written`, which is
`SourceBounded`. `SuccessIsEarned` needs to know, of every run in its fan-out or
recording phase, that a worker that is done with a write has its content in
`landed`: `WorkersEarned`. Overlap needs no more than that, since `landed` only
grows. One lemma per group of actions: those that move no worker, the workers,
the recording, the faults, the environment.

*Views of a step.* The proofs about the data look at a step through two views,
both proved once in `SyncJobSafety_proof` for any number of runs: what it does to
a run's control (`Control`, seven ways to move) and its effect on the data
(`Effects`, seven kinds). An invariant is then proved over the forty-nine cases,
of which few can happen.

*The store.* `ImplementsStore` rests on `StoreInv`: whatever a run has seen, whatever
a write under way or a request on its way carries, has been in the source at some
time (`SourceKnown`, `WritesKnown`, `LateKnown`), and while no "404" was confused
a run whose decision is to delete saw no source, so that the metadata had been
deleted by then (`RemovalsEntitled`). `Dropped` never becomes false again
(`DroppedStays`), which is why a delete that comes late, after the owners have
written anew, is still entitled; that it then takes a copy that is current is what
`ReplicaMirror` forbids and overlapping runs do.

*The mirror.* `MirrorInv` says: while no request has landed late, all data has
been in the source (`CopiesKnown`, `WritesKnown`), a copy is the newest its replica
has held (`CopiesNewest`), and a write under way is as new as all that has landed
(`WritesNewest`: it read the source after every earlier run had ended). While
nothing has gone astray, a source that is live although a run is about to
delete has data no replica has held (`DeletesJustified`: the run saw no source,
so that one was written since). From these the three theorems follow step by
step. With two runs `WritesNewest` is false, and so are the theorems.

*Rows and reports.* `RowsInv` adds the rows, over a third view of a step
(`RowStep`: what it does to a run's workers, rows and statuses). A copy without
a row has a run in its fan-out, or one whose turn to file it has not come
(`Tracked`); a delete that a worker has seen through leaves no copy until it is
filed (`Removed`); a status stays true from its filing until the next
execution (`Reported`). While nobody meddled with a replica
and no request landed late (`Meddled`), a write that a worker has seen through,
and the row that has been filed for it in the same run, have their copy in the
replica (`Held`): the part of a report that speaks of the replica itself.
`RowsGoLast` is `Removed` at the step that files a delete. `NoOpInv` adds what a run concludes from versions, over
a fourth view (`GatherStep`: what a run reads). A version identifies data only while
nobody creates a secret anew (`Numbered`), a row with a version is about data
that has landed only while no write is refused or dropped (`RowsBacked`,
`AnswersLanded`), and what was found is still there unless somebody deletes it
(`FoundThere`): these are the faults that `NoOpUpToDate` excepts, and the proof
uses each exception.

*Orchestrator.* `LimitInv` counts: `slots` is the number of goroutines between
taking and giving back a slot, `wg` the number that have not called `Done`;
`ClosedLast` says that the closer exists only after the last start and that a
closed channel means nobody runs; `StartedOnce` is what makes a start increase
both counts by one. `ResultInv` adds where each result is: past its send a
goroutine's result is either in the channel or collected, never both
(`ResultsKept`), goroutines are exactly the started paths (`StartedAll`), and
without a cancellation exactly those past `Execute` have run (`RanAll`).
`Underway` adds that what main waits for is there or still to come. No deadlock
follows by counting: the results in the channel are of different paths that are
past their send (`ChannelCounted`), so that a path before it finds room, and when
nobody holds a slot `slots` is 0. `ImplementsParallelLoop` needs of these that a return leaves nobody at work and
that fewer than `Concurrency` are at work when a slot is free.

*Discovery.* `DiscoveryTypes` needs `WalkInv` to know that keys are not empty, so
that each directory has a next one below it on the way to a key. `OnlyAccepted`
compares two readings of one pattern (`GuideOrBeyond`): the piece of the last `**`
is empty, and the rest of the pattern matches, or it has a last segment, which the
guide's reading asks for. `WalkComplete` rests on an invariant about one secret that stays: while
its mount is walked, it has been found, or one of its ancestors is pending.
`PruningHarmless` is about patterns alone: it turns a cut of a path into a cut
of its prefix for each shape a safe pattern has.

*Storage.* The breaker's invariant counts the calls of the present generation:
while it is half open, requests are the successes plus those still out. The theorems
about the repository and about the datastore are proved of each by itself and
carried over by `Composition`. `WaitersServed` is about both: a used-up pool of
two or more has given more than the migrations' connection, and who else holds one
is a call whose statement runs (`HeldByCalls`) or a ping (`PingHeld`).
*TokenGuard:* an operation's age bounds how much
its token can have lost since the check.

*Only model-checked:* liveness (`DeletionCarriedThrough`, `Mirrors`, `Returns`,
`Ends`, `EveryCallReturns`, `Recovers`, `OperationsEnd`), which is beyond the prover.
Every invariant, action property and refinement of a passing run is a theorem.
`NeverStuck` spells its guards out because `ENABLED` is beyond the prover too; TLC
checks the absence of deadlock in the same run. No module declares a recursive
operator, so no induction over data is left open.

## 6. Not modelled

- `GetSecretMounts`, `checkMounts` and `DiscoverFromMounts`: nothing in the
  program calls them.
- Reading and validating the configuration, the construction of objects, the
  commands that print, conversions and the logger: sequential, local, without
  state. A change of the configuration between runs is not modelled either: a
  replica that was removed keeps its copies and rows, and a secret the rule has
  come to ignore is synced for as long as it has a row (hazards at
  `sync_job.go:95`, `orchestrator.go:66`).
- The scripts of the migrations, and the test helpers.
- Wildcards inside a segment, `vault kv undelete`, the rollback of versions, and
  the retries of the HTTP client, which the outcome of a call stands for.
