# RunFabric in TLA+

A verification project for RunFabric, a multi-cloud serverless deploy framework
with a command line, a daemon and a durable workflow runtime. It holds TLA+
modules of the parts of the program that keep state under concurrency and
failure, TLC configurations that check them on small instances, and theorems
about them that TLAPS proves for all instances. Paths below are relative to the
repository's root; `PROJECT.json` names the source lines behind each definition.

1. [The system](#1-the-system)
2. [The plan](#2-the-plan)
3. [Modules and code](#3-modules-and-code)
4. [Runs](#4-runs)
5. [Disagreements found](#5-disagreements-found)
6. [Proofs](#6-proofs)
7. [What is not modelled](#7-what-is-not-modelled)

## 1. The system

| Component | State | Operations | What is hard | What makes it correct |
|---|---|---|---|---|
| Durable workflow runtime, `platform/workflow/runtime/workflow_runtime.go` | one JSON record per run: status, cancel flag, replay point; per step status, attempts, input, output | `CreateRun`, `StartRun`, `ResumeRun`, `ReplayRunFromStep`, `ResolveApproval`, `CancelRun` | several processes load, change and save the record; a crash between any two saves; retries, timeouts, an ending context; cancel does not take the lock | verdict agrees with the steps, steps run in order and once, attempts bounded, finished runs stay finished, every run ends |
| Run stores, `platform/core/state/core/runs.go`, `platform/core/state/runstore` | the run files or table items, version tokens | `Save`, `Load`, `List` | check-and-write | whole records, no torn state |
| Run lock, `runstore/dynamodb.go` with `internal/lease` | one lock item: owner token and expiry; a heartbeat goroutine per holder | `Lock`, renew, release | clocks differ, requests are late, answers get lost, holders crash or outlive their lease | one holder at a time; nobody touches another's lease; a crashed holder's lease becomes free |
| Deploy lock, `platform/state/locking/file_backend.go` (and `extensions/states/local`), `cluster/lock_manager.go`, `internal/state/types` | the lock file | `Acquire`, `Renew`, `Release`; the commands `state unlock`, `state force-unlock` | every operation is several system calls | one holder; own lock only; recovery after a crash |
| DynamoDB deploy lock, `extensions/states/dynamodb/locking.go` | lock item | `Acquire`, `ReleaseOwned`, `Renew`, `Steal` | stealing an expired lock | as above |
| Deploy journal and phase engine, `platform/core/state/transactions`, `platform/deploy/exec` | per service and stage: version, status, checkpoints, attempts | `OpenDeployJournal`, mutators ending in `commit`, `FileBackend.Save` | version check and write are two steps; errors of two commits are dropped | what a command leaves behind never blocks the next; completed means deployed |
| Deploy, remove and their use cases, `platform/deploy/api`, `platform/workflow/app` | journal, receipt, release history, the cloud | `Run`, `RunDeploy`, `Remove`, health check and rollback | crash or error between provider call, checkpoint, completion, snapshot and receipt | a successful deploy is live and the receipt names it; the replaced release is kept |
| Recovery, `platform/workflow/app/recover.go` | the journal under the deploy lock | `Recover` | journal is read before the lock | recovery does not block later deploys |
| Router state, `internal/cli/router`, `workflow/app/router_*.go`, `core/state/core/router_sync.go` | routing in force, snapshot history, endpoint weights | sync, canary shift, restore | unlocked read-append-write; preview and apply are two calls; rounding | weights add up, snapshots are kept, a restore goes back, an approval is needed |
| Daemon, `platform/daemon` | Redis answer and key set per stage, request times per client, process environment under `deployMu` | plan, deploy, cache fill and invalidation, rate limit | a fill that races an invalidation; credentials in a process-wide environment | own credentials only, none left behind; bounded rate; an outdated plan expires |
| Extension registry, `apps/registry/internal/{store,server}` | one JSON document in memory and on disk, uploaded files, cache epoch, Redis | publish session, upload, finalize, resolve, restart | a failed save leaves memory ahead of the file; uploads replace files in place; the epoch is not persisted | an acknowledged publish stays; a version has one owner; its bytes are the declared ones |
| Registry metadata, `apps/registry/internal/{store,server}`, MongoDB and Postgres | packages, versions, organizations, members | create, publish, visibility, delete, add and remove member | several statements without a transaction | latest exists and is newest; no orphans; an organization keeps an owner |
| Compose, `platform/workflow/core/compose_file.go` | none | `TopoOrder` | cycles | dependencies first; pure, left to unit tests |
| Cluster coordinator, `platform/deploy/controlplane/cluster` | lock and journal | `AcquireRunContext`, `RunRemove` | lease lost during work | not modelled: nothing outside its package calls it |
| Providers, secret managers, simulators, `extensions/*`; extension loading, `platform/extensions`; CLI, SDKs | none of their own | vendor API calls, parsing, output | I/O | outside the model |

How they interact: the CLI and the daemon call `platform/workflow/app`. A
workflow command builds a `WorkflowRuntime` with a run store and its locker; the
runtime calls step handlers (approval, code, model, MCP) and saves the record
around each attempt. A deploy opens the journal, runs the provider in a phase of
the engine, completes the journal, writes the receipt and, when DNS syncing is
configured, ends with a router sync; it takes no lock. Recovery takes the deploy
lock. The daemon runs the same use cases inside one process, one at a time under
`deployMu`, behind its limiter and cache. The registry is a service of its own.
Processes share only files, tables, Redis and the cloud; there are no messages
between them.

## 2. The plan

| | Module | Content | Status |
|---|---|---|---|
| 1 | `RunRecord`, `WorkflowRuntime` | the run record, its drivers and cancellers, on top of `RunMutex` | done |
| 2 | `RunLifecycle`, `RunMutex` | abstract specifications: what an operator may rely on; what the runtime relies on | done |
| 3 | `RunLease` | the distributed lock; implements `RunMutex` | done |
| 4 | `FileLock` | the deploy lock file | done |
| 5 | `DeployStage` | journal, engine, receipt, history, deploys, removals, recoveries | done |
| 6 | `DaemonApi` | cache, limiter, credentials | done |
| 7 | `RegistryStore`, `RegistryMetadata` | publish sessions and cache; packages and organizations | done |
| 8 | `RouterSteering`, `RouterSync` | weights; syncs, shifts, history and restores | done |

Not planned: the DynamoDB deploy lock, whose conditional writes are those of
`RunLease` without the expiry condition; the coordinator, which no command
reaches; `TopoOrder`, a pure function.

Every safety property that a run checks is also a theorem, some of them under a
hypothesis that section 6 names. Still worth proving: the type
invariant of `DaemonApi` as a whole, and `OrderedExecution` with cancellers,
replays and approvals under a hypothesis that rules out only the behaviour in
section 6 which breaks it.

## 3. Modules and code

**`RunRecord`** is `WorkflowRun` reduced to what the control flow reads, and the
pure updates applied to it between a load and a save (`ResetFrom`,
`RequeueInFlight`, `MarkCancelled`, `WithDecision`, `FinalRun`). Outputs, times,
checkpoints and error texts are dropped: the runtime never branches on them.
Statuses that the code declares but never stores (a pending run) do not occur.

**`WorkflowRuntime`** has drivers, processes that call `ResumeRun`,
`ReplayRunFromStep`, `ResolveApproval` or `CreateRun`, and cancellers, processes
that call `CancelRun`. `pc[d]` is the place in the call, `mem[d]` the record in
the process's memory, `idx`, `attempt` and `replayAt` its loop variables, `ctx`
the caller's context. A step has at most one store access, so every interleaving
of loads and saves is explored; the first load is joined with taking the lock
and the last save with releasing it, since nothing shared is read in between.
Saves replace the whole record, as the runtime always passes the empty version.
A load or save that fails returns an error and drops the memory copy: that is
`Crash`. `Crash` frees the lock at once; the case that it stays taken for a while
only delays others, and the case that it is lost under a live holder is
`LeaseLapses`. `HandlerOutcomes` is what a step can answer: anything for code,
model and MCP steps, and the decision logic of `DefaultApprovalStepRunner` for
approval steps.
Peculiarities of the code that the model keeps: a run that ends inside a replay
keeps its replay point, so `ResumeRun` drives it again; a replay keeps an earlier
approval decision; an exhausted step that is neither failed nor timed out is
passed over by the loop and decided at its end; a cancel seen in the attempt loop
comes back like a finished step.

**`RunMutex`** is the lock as the runtime uses it, lapses included.
**`RunLifecycle`** is the run as its operator sees it: status, completed steps,
replay point, and whether a request is pending.

**`RunLease`** is `Lock`, `tryAcquire`, `renewFunc` and `releaseLock` with the
heartbeat of `internal/lease`. A caller is one call of `Lock`, its id stands for
its token. Time is relative: the item's time left and each heartbeat's time to
its next tick. `Skew` is each clock's error, `age` the delay of a request since
its time stamp was computed. The answer takes its time as well: a caller whose put
was applied is `granted`, and its heartbeat starts when the answer arrives
(`LockReturns`); a renewal is a tick, which takes the time stamp, and later the
write. A write can be applied while its answer is an error (`AnswerLost`, one branch
of `RenewFails`). `AnsweredInTime` is the assumption that a request and its answer
take no longer than an interval, so that renewals do not queue behind each other.
The conditional writes are atomic in the table.

**`FileLock`** is the lock file, one system call per step: read, remove the
expired file, exclusive create, write, and for a renewal read, truncate, write.
The file is absent, torn (empty or unparseable), or a record of an owner, expired
or not. `fd[c]` says whether the file `c` has open is still the one at the path:
a remove by anybody detaches it. Two writers on one file may leave bytes that do
not parse. `Unlock --force` reads before it removes, `StateForceUnlock` does not.

**`DeployStage`** is one stage of a service. A command is one deploy, removal or
recovery, and also the name of the deployment it makes, since it calls the
provider at most once. `proc[c]` is its memory: the journal as it last saw it and
what it read. Each action is one access to a shared thing: a journal commit is a
check of the file's version and then a write; the receipt's save is the snapshot
of the outgoing head and then the write. An error while the head is copied is
dropped (`SnapshotHistory`, with `io` in `Faults`), and the head is overwritten
without a copy. The errors of `IncrementAttempt` and
`MarkCompleted` are dropped as in the code, so a command that lost its journal to
another goes on. `setting` says how the provider is dispatched (over the API, the
receipt saved after completion, or through the lifecycle, saved inside the phase),
whether the receipt is merged by the orchestrator, and whether commands overlap.
`Faults` is what may go wrong at each step: a crash, an I/O error, the provider,
the health check. `made`, `recorded`, `prior`, `missed` and `faulted` are history
variables; `missed` has the releases whose last attempt to be copied failed, and
`prior` is the release that the receipt's one replaced, and is forgotten when a
removal deletes the receipt, since the next deploy then replaces nothing.

**`DaemonApi`** is the config API for one stage. A request passes the cache
lookup, the limiter, `deployMu` with the swap of credentials, the operation, the
unlock with its restore, and the Redis commands of a fill or an invalidation, one
at a time. A lookup that fails is a miss (cache.go:96), so a request that could be
served from the cache may also go on to the limiter. A client's bucket is the set of its requests the limiter still knows;
stamps are ages, which a tick increases, capped where older makes no difference. `data` counts what is deployed. A Redis failure that skips an
invalidation, or a deploy that fails after it changed the stage, sets `silent`.

**`RegistryStore`** is the registry's document in memory and on disk. An
operation changes the memory copy under the mutex and saves all of it; its
parameter `saved` says whether that succeeded, and the change stays in memory
when it did not. `UploadBegins` and `UploadEnds` are two steps since downloads read
the file without the mutex. The cache has the process's `epoch` in its keys;
`Restart` resets it and keeps Redis. An answer's field `clean` is a history
variable: nothing was announced between its read and its store, and no restart
came since.

**`RegistryMetadata`** is one package name and one organization in a database,
one statement per action, for MongoDB and Postgres where they differ (in Postgres
the delete cascades; a publish to a package without a latest version fails on
the NULL it scans, and so does a change of its visibility, after the update). What the requests are for is the constant `Works`, so that a
run can choose it and the proofs need not.

**`RouterSteering`** is the arithmetic of weights. Where the code multiplies by a
rounded float quotient, a half may fall either way, so `Rebalanced` is a set of
results. The correction loop is a recursive function of the number of units it moved
(`Corrections`, by `Moved`); its turns that move none are left out.
**`RouterSync`** has the commands that put a routing in force. A sync previews,
applies under the mutation policy (daemon, deploy pipeline and dry runs have
none), then loads the history and saves it with the new snapshot. `pc`, `cmd`,
`before` and `seen` are a slot's place, command, previewed routing and copy of the
history. `Mixed` is what a sync that fails halfway leaves in force.
`SettingsAssumption` is what the code makes sure of: no sync without endpoints
(router_fabric_ops.go:22), no shift to a canary that is not among them; the numbers
are arbitrary.

**`MC...`** modules hold the values of constants for TLC. **`..._proofs`** and
`WorkflowRuntime_lifecycle` hold the theorems. Definitions named `Mutant...` are
faulty variants of the definition after them, used to see that each property can
fail.

## 4. Runs

Instances of the runtime: two steps, the second with two attempts, so that a
retry, a skipped step, an order and an overtaking exist; two drivers, which is every way in which
one process can interfere with another on one record; each environment event
(crash, replay, approval, new start, lapse, cancel, ending context) with a budget
of one or two, which the runs combine where they interact. Deadlock is not
checked where the system may stop (a finished or paused run; callers that are
done).

| Run | Shows |
|---|---|
| `runtime_locked` | with a lock that never lapses, two crashes, a replay, an approval and an ending context: `RunVerdictMatchesSteps`, `SingleDriver`, `OrderedExecution`, `NoRedo`, and the refinement `ImplementsLifecycle`, by which a finished run is reopened only on request |
| `runtime_cancel` | two cancellers, which take no lock, a crash and an ending context: while there is no replay `RunVerdictMatchesSteps` holds, and for these automatic steps `RunEnds`; once a driver has read a cancel, the flag is never lost again and no handler runs any more (`SeenCancelStops`) |
| `runtime_races` | a lapsed lease and a new start under the run's id, hence two drivers at once on records that replace each other: `AttemptsBounded` |
| `lease_holds` | `OneHolder` with the shortest TTL that satisfies `HeartbeatKeepsUp` for one missed tick, skews of -1, 0 and 1 and a delay of 1 for requests and for answers (11; with 10 TLC finds two holders); `WaitersServed` |
| `lease_lapses` | a TTL too short for the missed ticks: `OthersItemUntouched`, and the refinement `ImplementsMutex` |
| `filelock_exclusive` | four processes, failures at every system call, no expiry: `Exclusive`, `OthersRecordUntouched` |
| `filelock_recovers` | crashes and failed writes at every system call, renewals, expiry of dead and live holders' records, a forced unlock: `LockRecovered`, every caller that keeps trying gets the lock, except behind a torn file that nobody has open and nobody removes |
| `deploy_stage` | `LeftoversNeverBlock` and `LastReleaseKept` with one command at a time, `AckedDeployRecorded`, and `CompletedMeansDeployed` also when two overlap |
| `daemon_api` | `OwnCredentials`, `CredentialsRestored`, `RateBounded` and its converse `LimitedOnlyAtLimit`; `StaleOnlyByRace`, `StaleExpires`, `RequestsEnd` |
| `registry` | the store: `AckedStaysPublished`, `PublishedOwnsVersion`, `PublishedBytesDeclared`, `ServedVersionStable`, `StaleOnlyByRaceOrRestart`; the databases: `LatestIsNewest`, `OrphansOnlyByOverlap`, `OwnerlessOnlyByDemotionOrOverlap` |
| `router_sync` | `WeightsTotal`, `CanaryShare`, `SnapshotKept`, `RestoreGoesBack`, `UnapprovedOnlyByOverlap` |

Type correctness is proved (section 6) for the runtime, the lease, the lock file,
the deploys, the registry store and its metadata, and is not run again. `DaemonApi`
and the router modules describe their variables in comments; what their proofs need
of types is part of the inductive invariants.

Several of these properties name what may break them (an overlap, a lost write, a
restart, a cut-off upload). Those exceptions are what the code really does; the
property says that there is no other way, and section 5 lists them.

Fairness. In `WorkflowRuntime` a driver that is in a call keeps running
(`DriverStep`; handlers have timeouts), some process resumes a run that can be
resumed (the worker or the operator who reruns the command), and a canceller that
has loaded saves. In `RunLease` time passes, heartbeats tick, `Lock` polls, and
the work under the lock ends. In `FileLock` Acquire is retried, a renewal once
begun is finished, and the work ends; its release is strongly fair because it
competes with the heartbeat for a state that recurs: the code cancels the
heartbeat's context first, and the goroutine's `select` picks it eventually.
In `DaemonApi` time passes and every request's goroutine is scheduled; its steps
are strongly fair because one of them, taking `deployMu`, has to be: a waiter that
starves puts Go's mutex into starvation mode, where it is served first. The other
steps stay enabled until they are taken, so that for them it asks no more. The other modules have no liveness
property: their commands and requests run to an end or are retried by hand.
No fairness is assumed of crashes, cancels, operators or lapses.

Bounds named in the configurations: `NumSteps`, `MaxAttempts`, `Budget` for
the runtime; `TTL`, `MaxFails`, `MaxSkew`, `MaxDelay` for the lease; the number
of callers, `FailAt`, `MayExpire`, `Unlocks` for the lock file. The lock file
needs four callers: one that crashed, two that take over, one that is left.

`deploy_stage`: three commands are a victim of a fault, one that meets what it
left, and one that meets the result of both; `ArchiveAfter` 2 lets a rollback
archive within them; `MaxHistory` 3, for the code's 20, is
exceeded when merged receipts are saved in a later second, so that pruning occurs. The four settings cover both dispatches,
alone and overlapping. Commands are symmetric. `daemon_api`: two plans and a
deploy are a fill, an invalidation and a reader of the result; `RateLimitN` 2 is
reached by the third request; `Window` and `TTL` 2 tell one tick from an expiry;
the keys are one that the deploy brings and one of the same group that it does
not. `registry`: the store and the databases share no state, so `side` picks
which one a behaviour explores; two sessions compete for one version, and four
requests on a package allow a create, two overlapping writers and one that finds
what they left. `router_sync`: about 800 configurations with one command each
(one to four endpoints, multipliers that round up, down and to a half, canaries
at 0, at 100 and between, 101 endpoints for the floor of one each) check the
arithmetic; two configurations with several commands check the history, with
`Keep` 3 for the code's 30 so that a snapshot can be pushed out.

## 5. Disagreements found

The run `lost_cancel` refutes workflow_runtime.go:367, a cancel "is honored on the
next transition boundary": a driver's save erases the flag that was set after its
load.

Further observations. For those marked (TLC) another choice of constants, or the
property without its stated exception, gives the counterexample; the others are
visible in the actions named after the code.

Runtime and locks:

- the heartbeat's error is not read, so after a lapse two processes may execute
  handlers of one run (runstore.go:12: "only one instance drives a given run at
  a time"): `SingleDriver` without its hypothesis on lapses, `lapse` budget 1 (TLC);
- a canceller that loaded a finished record and saves it after a replay restores
  the old verdict under the replaying driver, and a run can end ok with a step
  that is not: `RunVerdictMatchesSteps` with budgets for a cancel, a replay and a
  crash (TLC);
- a paused step is checked before the cancel flag, so a cancelled paused run stays
  paused until it is approved (docs/RUNFABRIC_YML_REFERENCE.md:825: "(or cancel with
  `workflow cancel`)"): `AwaitApproval` ends the call before the flag is read;
- a cancel seen in the attempt loop is saved as cancelled and then overwritten as
  failed at the end of the loop (docs/COMMAND_REFERENCE.md:72);
- a rejected approval step completes as ok, the decision being only an output
  (docs/RUNFABRIC_YML_REFERENCE.md:819 says it "fails based on decision/policy");
- two processes take over one expired lock file, each removing what it takes for
  the expired record (docs/STATE_BACKENDS.md:197): `Exclusive` with expiry (TLC);
- a lock file that was created and not yet written is empty, and never stale
  (internal/lease/lease.go:8 says a crashed holder's lease goes stale and can be
  stolen): `LockRecovered` without its exception `[]Stuck` (TLC);
- the file backend releases without comparing tokens, so a holder whose record
  expired removes its successor's: `OthersRecordUntouched` with `live` in
  `MayExpire` (TLC).

Deploys and daemon:

- the journal's version check is not atomic with its write, so two deploys that
  both pass it overwrite each other, although file_backend.go:43-46 and
  journal.go:110-111 mean it to prevent that;
- an error while the outgoing receipt is copied to the history is dropped
  ("Best-effort", core/history.go:54) and the head overwritten, so that the replaced
  release cannot be rolled back to: `LastReleaseKept` without `missed` (TLC);
- after a crash between the provider's deploy and the receipt's save there is
  something deployed and no receipt; deploy/api/remove.go:22 concludes from a missing
  receipt that "nothing was deployed" and removes nothing;
- a deploy that changed the stage and then failed does not invalidate the cache:
  `StaleOnlyByRace` without `silent` (TLC);
- SET and SADD of a fill interleave with SMEMBERS and DEL of an invalidation, and
  the answer can stay in the cache without being in its stage's key set, where no
  later invalidation finds it until it expires (TLC: `StaleOnlyByRace` without
  `raced`);
- cache hits are answered before the limiter counts them; `/validate` and
  `/resolve` run outside `deployMu`, so they may read another request's
  credentials; `promoteScopedCredentialEnv` can fill a key that was cleared for a
  request that brought only part of its provider's group.

Registry:

- finalize does not compare checksums again
  (apps/registry/docs/REGISTRY_API_DB_SCHEMA_MVP.md:236), and a session may be
  uploaded to again after it was published; when that upload is cut off the
  published file is torn: `PublishedBytesDeclared` without `cut` (TLC). The repeated
  upload also takes a published session's status back to "uploaded";
- a save that fails leaves memory ahead of the file: the version is resolved, and
  lost at the next restart: `ServedVersionStable` without `lost` (TLC);
- the epoch starts at 0 after a restart while Redis keeps its answers, and an
  answer read before a publish may be stored under the epoch after it:
  `StaleOnlyByRaceOrRestart` without `clean` (TLC);
- finalizing an extension whose file cannot be read leaves an entry without
  versions;
- Postgres: the first publish of a package fails, because a NULL latest version is
  scanned into a string (postgres/repository.go:300; its integration test expects
  success);
- Postgres: a change of visibility of such a package is applied and answered with
  an error (postgres/repository.go:455-466);
- MongoDB: the error of the update after an insert is dropped, so the latest
  version stays old; a publish that overlaps with a delete leaves versions without a
  package: `LatestIsNewest`, `OrphansOnlyByOverlap` without `shared` (TLC);
- adding an existing member sets the role, so the last owner can be demoted
  (organizations.go:273: "Don't allow removing the last owner."), and two changes
  of the members overwrite each other: `OwnerlessOnlyByDemotionOrOverlap` without
  its exceptions (TLC).

Router:

- `--latest` may pick a dry run (router_fabric_ops.go:111-113: "the newest applied
  one"); dry runs count towards the 30
  snapshots;
- syncs of the daemon and of the deploy pipeline skip the mutation policy;
- two appends to the history lose one of the snapshots: `SnapshotKept` without
  `exposed` (TLC);
- `RunFabricDeploy` with automatic apply puts a routing with a single endpoint in
  force; the health it measures is never saved.

## 6. Proofs

Checked by TLAPS for every value of the constants that satisfies the modules'
assumptions.

*`WorkflowRuntime_proofs`.* `TypeCorrect`; `LockHeldByDriver` (`[]SingleDriver`):
the invariant is inductive with the budget of lapses tied to its initial value;
`LockOwnership`: from how each action moves `pc` and `lock`. `AttemptsWithinLimit`: `AttemptsBounded` speaks of
the stored record only, and a stale copy could bring a larger count back, so the
inductive `AttemptInv` bounds every copy, those of drivers and cancellers
included. It needs no assumption about lapses or cancels. `VerdictUnderLock`: if
all writers hold the lock (no cancellers, no lapses; `OnlyLockedWriters`), new
starts excepted, a stored ok means ok steps. `VerdictInv` says what a driver's memory copy looks
like at each place of the call, and that a stored ok has no replay point, since
otherwise a resumed replay could requeue a step of a run still marked ok. With
cancellers the property needs a run that nobody reopens (see the stale canceller in
section 5): `VerdictDespiteCancels`, for any number of cancels, drivers, crashes and
ended contexts, without lapses, replays, approvals and new starts
(`OnlyResumedAndCancelled`). A canceller's copy may be arbitrarily old and is saved
at any time, so `CancelInv` speaks of all copies together: once any of them is over,
no driver will execute a step again (`Stopping`), so that a finished record that is
put back finds nobody who would build on it.

*`WorkflowRuntime_lifecycle`.* `StepsRunInOrder` (`OrderedExecution`),
`OkStepsNotRedone` (`NoRedo`) and `RuntimeImplementsLifecycle`
(`ImplementsLifecycle`), under `OneWriter`: no cancellers, no lapses, no new start
under the run's id, any number of crashes, replays, approvals and drivers. What the
loop passed is not in the record it executes from, so the inductive `WorkInv`
relates each driver's index, attempt and copy to the stored record by its place in
the call (`WorkOf`: the steps between the replay point and the index are ok in the
store, and the copy is the stored record or differs by one outcome), and says of
every stored record that a stopped replay stands at an unsuccessful step (`Tidy`).
The refinement then goes action by action: one save is one step of the lifecycle.

With cancellers the stored record may be an older one, but then it is flagged.
`FlagInv` says that a flag in a driver's copy is in the store, that without a flag
a working driver's copy is the stored record but for the outcome it is about to
save, and that, without replays, an unflagged driver's copy shows every step as ok
that the store or a canceller's copy shows as ok. From it follow `StepsRunInOrderDespiteCancels` and, without
replays, `OkStepsNotRedoneDespiteCancels`. The first allows either replays or
approvals (`OneKindOfRequest`). With both it is false (TLC; three steps of one attempt
each, one crash, cancel, replay and approval): a flagged older record puts
step 1 back to running with its attempt used up, the cancel marks it cancelled, a
replay from step 3 clears the flag and ends the run, an approval reopens it, and
the loop passes over step 1, whose attempts are exhausted, and executes step 2.
The lifecycle itself is not implemented with cancellers: an older record is a step
back that it does not allow.

`SeenCancelsStopTheRun` (`SeenCancelStops`), for any number of cancellers, crashes,
approvals and drivers, without replays, new starts and lapses, which take the flag
back on purpose or by a second writer. By `FlagInv` a flag that a driver has read is
in the store, and only that driver works; `Stopped`, that the flag is stored and in
the copy of whoever works, and that nobody is in a handler, is then kept by every
action: cancellers save a flag whatever they loaded, drivers save what they loaded,
and the attempt loop turns back before the handler.

*`RunLease_proofs`.* `LeaseTypeCorrect`, with `AskInv`: a renewal on its way is at
most `MaxDelay` old. `LeaseExclusive` (`[]OneHolder`): the inductive `HeldInv` says
that from the applied put on the item is its caller's and has at least `Reserve`
left, the skew plus the way of a renewal plus the time to the next tick (or until
the answer has come) plus an interval for each tick that may still fail, so that no
clock finds it expired. It follows from `(MaxFails + 1) * Interval + 2 * MaxSkew +
3 * MaxDelay <= TTL`: the three delays are those of the put, of its answer, after
which alone the ticker starts, and of the renewal. `LeaseOwnership`;
`LeaseRefinesMutex`: each step of the lease is a step of `RunMutex` or a stutter,
which justifies the lock that `WorkflowRuntime` is built on.

*`FileLock_proofs`.* `FileTypeCorrect`; `FileLockExclusive` and
`FileLockOwnership` under `NobodyBreaksIt` (no expiry, no forced unlock). A
process claims the lock from its exclusive create on; `ClaimInv` says that the
file exists as long as the claim does and that there is one claim.
The assumption on expiry is needed: see the double takeover in section 5.

*`DeployStage_proofs`.* `StageTypeCorrect`. `CompletedJournals`
(`CompletedMeansDeployed`) holds for any number of overlapping commands: the
inductive `ProgressInv` ties each command's place to what it has done, for the
journal in its memory and the one on disk, whoever wrote it last. `LeftoversHarmless`
and `SuccessIsRecorded` are about settings without overlap. `AloneInv` says that at
most one command is at work, that the journal it has in memory is then the one on
disk, so that its version check passes, and that the receipt it saved is the head;
the crux is that a resumed journal is only that of an unfinished deploy.
`ReplacedReleaseKept` (`LastReleaseKept`) needs a history of three entries or more,
the code has 20, and excepts a release whose last copy failed (`missed`).
`ReleaseInv` says where the replaced release is (`Trail`): behind
it in the history there is nothing but the present one, at most twice, because a
merged receipt is a second snapshot of the same release; and once the present one
is in the history, it is its last entry. So a snapshot can push the replaced release
out only when it has become the one before.

*`DaemonApi_proofs`.* `CredentialsIsolated`, `CredentialsGone`: the invariant says that
who is in the section holds `deployMu`, that the saved environment never holds a
request's value, and that the current one differs from it only by the holder's.
`LimitHolds` (`RateBounded`) and `LimitNotEarly` (`LimitedOnlyAtLimit`): a bucket has
every request of the last window (`LimiterInv`), so what the filter keeps of it,
after a sweep or without one, is exactly what the limit is about.
`StaleAnswersRaced` (`StaleOnlyByRace`): by `StaleInv`, as long as nothing failed
silently, a plan that overlapped with no deploy has read what is deployed; its
answer, once the plan has ended, is in the stage's key set, so that every deploy
that changes the stage afterwards finds it there and deletes it.

*`Registry_proofs`.* `RegistryTypeCorrect`. `FinalizeIsDurable`,
`OneOwnerPerVersion`, `BytesAreDeclared` and `ResolvedStays` rest on `StoreInv`: the
file is behind the memory copy (`FileBehind`), a version once entered is never
reassigned in memory, and what the file has a restart brings back.
`StaleAnswersExplained` rests on `CacheInv`: the epoch counts announcements since
the last restart, pending ones are not announced yet, an announced version is
saved, and a clean answer under a later epoch in Redis would come from a later
announcement.

`MetadataTypeCorrect`; `LatestKeptNewest`, `OrphansExplained` and `OwnersExplained`
for the databases. By `PackageInv` a package that is not in `shared` has one request
at most between two steps, a publish among them still holds what it read, and a
version newer than the latest is about to become it; by `OrgInv` a change of the
members that is alone writes back what is there, and it drops no last owner.

*`RouterSync_proofs`.* For any configuration, number of commands and `Keep`.
`ApprovalBypassedOnlyByOverlap` (`UnapprovedOnlyByOverlap`): past its preview an
unapproved command wants the routing it saw. `SnapshotsLostOnlyByOverlap`
(`SnapshotKept`): the property is not inductive, because the file is replaced by
copies; `KeptInv` asks the same of every copy about to be written, and bounds how
far from the end a snapshot may be, so that trimming reaches only old ones.
`RestoreFindsPrevious` (`RestoreGoesBack`): by `RecordInv` an undisturbed history
ends, dry runs left out, with the last two applies in their order, or lacks just
the one that is being recorded. Nothing is assumed of the weights.

`SteeredWeightsAddUp` (`WeightsTotal`) and `CanaryGetsItsShare` (`CanaryShare`), for
any number of endpoints, any multipliers and percentages and either rounding of a
half, from `SettingsAssumption`. They need what a recursive function computes for
every input, and the library's induction theorems take an operator; so induction is
done over sets: a set of natural numbers that holds 0 and is closed under successor
leaves no least number out (`UpTo`, from `WFMin`). With it the equations of
`PartialSums` and `Corrections` are lemmas, and so are how a sum changes with one
weight, scales, adds and compares. The argument about the code is then:

- every unit of the correction loop moves the sum by one towards the target and no
  weight below one, and it finds somebody to take from as long as the sum is above
  the number of endpoints (`MovedUnit`, `CorrectedEnds`);
- hence a rebalanced list adds up, unless there are more than 100 endpoints, when
  the loop stops at one each (`RebalancedBalanced`);
- every other endpoint's rounded share is less than one above and at most a half
  below the exact one, so with n endpoints the shares are at most n - 2 above and
  (n - 1) / 2 below 100 (`SharesClose`); scaling them to 100 and correcting the rest,
  which only takes, or gives at most one unit to each, then moves the canary by at
  most n - 1 (`RebalancedClose`, `CanaryWeighed`).

`WeighedInv` says both of every command's routing, and is inductive because a command
gets its routing when it starts.

Only model-checked: all liveness (`RunEnds`, `WaitersServed`,
`LockRecovered`, `StaleExpires`, `RequestsEnd`), which is out of this prover's reach,
and `RunVerdictMatchesSteps`, `OrderedExecution` and `NoRedo` beyond the hypotheses
of their theorems, as far as the runs' budgets go there.

## 7. What is not modelled

Most of the repository's lines are request building for vendor APIs, argument
parsing, output, generated clients and YAML validation. They keep no state that
outlives a call and have no steps that could interleave; a state machine of them
would only repeat the code. The lines that are mapped, some 4,200 in all, are those
where state is shared, saved or can be lost. In detail:

- the contents of steps (model calls, MCP, retries inside a step), vendor APIs,
  secret managers, simulators, configuration parsing and the planner, extension
  loading, the CLI around the modelled commands, and the SDKs: I/O or stateless;
- the run stores' version-checked save: the runtime does not use it;
- the coordinator and with it the journal's rollback states and operation list: no
  command reaches them;
- errors while the history is pruned: they only keep more entries;
- that creating, changing, deleting and publishing packages raises the epoch of the
  registry's cache as well (apps/registry/internal/server/packages.go:90,177,198,276):
  to an extension's cached answer this is one more loss of the entry, which `Expire`
  allows at any time;
- the DynamoDB deploy lock: conditional writes as in `RunLease`, but without an
  expiry condition, so a crashed holder's lock stays until it is stolen;
- the changeset that narrows a provider call; the daemon's `/validate` and
  `/releases`; the registry's search, lists, advisories and authentication, which
  only read; API keys and audit rows, single inserts; the JSON variant of
  organizations, which works under one mutex;
- the router's stage gates and credential policies, restores by id, the simulation
  of traffic;
- `TopoOrder`: a pure function. It does not reject a service that depends on
  itself.
