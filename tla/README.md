# CloudWorker: specifications, model checking and proofs

CloudWorker takes a job over HTTP, starts an EC2 instance for it, runs the job's command there
through SSM, and destroys the instance. This directory models the parts of the system that have to
get that right: the tables, the processes that write them, the endpoints and the page in front of
them, and what happens when they meet in an unexpected order, when a call fails and when a process
dies.

## The system

| Part | State it keeps | Operations | Talks to |
|---|---|---|---|
| jobs table (`infrastructure/db/job_repository.py`) | `jobs` rows: status, created_at | create, cancel, claim_next_job, fail, complete | every process |
| workers table (`infrastructure/db/worker_repository.py`) | `workers` rows: status, instance_id, updated_at | create, mark_*, get_by_job_id, list_stale | every process |
| worker manager (`services/worker_manager.py`) | none of its own between calls | provision_worker, terminate_worker_for_job | workers table, EC2, SSM |
| job processor (`services/job_processor.py`) | semaphore, set of tasks | run_forever, _run_job, done callback | jobs table, worker manager, executors |
| worker reaper (`services/worker_reaper.py`) | one batch | reap_once, run_forever | both tables, EC2 |
| jobs endpoints (`api/v1/endpoints/jobs.py`) | one session per request | create_job, cancel_job, reads | both tables, worker manager, artifact store |
| executors (`infrastructure/aws/*executor.py`, `ssm_command_dispatch.py`) | none | execute: dispatch, poll, list artifacts | SSM, S3 |
| runner (`infra/packer/scripts/run_playwright.py`) | output directory | run the script, upload | S3 |
| rate limiter (`core/rate_limit.py`) | a window and a count per client | check | |
| accounts and API keys (`endpoints/auth.py`, `endpoints/api_keys.py`, `deps.py`) | users, api_keys | register, login, authenticate, list, create, revoke | rate limiter |
| dashboard (`frontend/src`) | page state, stored session | polling, cancel, artifacts, login | the API |

Two processes run the core. The **API process** serves each request in a coroutine with a
database session of its own. The **worker process** runs the poll loop, one asyncio task per
claimed job, and the reaper in one event loop. They share no memory. They meet in the two tables,
through statements that mostly commit at once, and in EC2.

What is hard about it:

- A coroutine gives way at every `await`, so between any two calls of one task a cancel request or
  the reaper can run its own steps on the same worker row. `_set_status` writes unconditionally,
  and `terminate_worker_for_job` and `reap_once` act on rows they read earlier.
- The cancel's UPDATE is the one statement that does not commit: its row lock lasts until the
  request ends, or until `mark_terminating`, which shares the session, commits it.
- The worker process can die at any await. It loses every task; rows, open instances and jobs stay
  as they are, and only the reaper looks at them again.
- `get_db_session` commits after the answer has been sent. What a client was told can still be
  invisible to its next request, or never become true.
- `check` of the rate limiter runs in the threads of FastAPI's pool and holds no lock.
- The page neither awaits nor aborts a read before it sends the next, so answers overtake each
  other.
- Any statement can raise, `terminate_instances` can raise, and `run_instances` can start an
  instance and lose the answer. The handlers compensate, in an order that matters.

What makes each part correct:

- *jobs table*: a job is claimed by one caller only and enters one terminal status, for good.
- *processor*: permits are neither lost nor duplicated; every queued job ends.
- *worker manager, endpoints and reaper together*: no instance runs that nobody will terminate; a
  row that says `terminated` is right; a worker left in the middle is brought to an end.
- *counter*: a terminal job is counted exactly once.
- *rate limiter*: no client gets more than the documented number of attempts, and nobody is refused
  without cause.
- *accounts*: an address has one account, an account its key, a revoked key opens nothing.
- *runner and executor*: the result of a job lists what was uploaded for it, and nothing is left behind.
- *dashboard*: a final status on the page is the job's, and the page gets there.

## Modules

| Module | Models | Variables |
|---|---|---|
| `JobLifecycle` | what the API promises about a job (abstract) | `job`, `claims` |
| `JobTable` | the jobs table, its statements, the open cancel transaction | `job`, `createdAt`, `claims`, `target`, `cancelTxn`, `jobsTotal` |
| `WorkerTable` | the workers table and its repository | `row` |
| `WorkerManager` | provisioning, teardown and the provisioner, one action per await | `ec2`, `pc`, `seen` |
| `JobProcessor` | the poll loop, the semaphore, `_run_job`, death and restart | `loop`, `permits` |
| `CancelEndpoint` | `create_job` and `cancel_job` with their session | `existing` |
| `WorkerReaper` | `reap_once` at its awaits, and what its loop does on an error | `reap`, `listed` |
| `CloudWorker` | the composition, time, fairness, and the properties | |
| `MCCloudWorker` | instances for TLC | |
| `CloudWorkerProofs`, `CleanupProofs`, `CountingProofs`, `OrphanProofs` | theorems and proofs about `CloudWorker` | |
| `WorkerTiming` | one task in time: provisioning, `dispatch_command`, `poll_for_terminal_status`, the artifacts' listing, `wait_for`, teardown | `now`, `at`, `since`, `updatedAt`, `deadline`, `execStart`, `sentAt` |
| `WorkerTimingProofs` | theorems and proofs about `WorkerTiming` | |
| `RateLimiter` | `check` in its threads, for one client | `clock`, `windowStart`, `count`, `step`, `now`, `seen`, `admitted`, ... |
| `RateLimiterProofs` | theorems and proofs about `RateLimiter` | |
| `Accounts` | register, login, the endpoints of API keys and `get_current_user`, each with its session | `users`, `keys`, `revoked`, `written`, `at`, `answer`, `account`, `ask`, ... |
| `MCAccounts` | instances of `Accounts` for TLC | |
| `AccountBook` | what the accounts API promises about users, keys and revocations (abstract) | `users`, `owner`, `revoked` |
| `AccountsProofs` | theorems and proofs about `Accounts` | |
| `BrowserJob` | one browser job end to end: `create_job`'s session, the runner and its uploads, the executor, the end of its task by failure | `creation`, `runner`, `made`, `left`, `store`, `executor`, `reported`, `faults` |
| `Dashboard` | `JobDetailPage`, its requests in flight and the endpoints that answer them | `page`, `shown`, `error`, `list`, `poll`, `load`, `cancel`, `reply`, ... |
| `MCDashboard` | instances of `Dashboard` for TLC, with files of one name in different directories | |
| `DashboardProofs` | theorems and proofs about `Dashboard` | |

Each module extends the one it calls: `WorkerTable` extends `JobTable`, `WorkerManager` extends
`WorkerTable`, and `JobProcessor`, `CancelEndpoint` and `WorkerReaper` extend `WorkerManager`, as
the classes hold each other in the code. `CloudWorker` joins the three and adds the frame
conditions, and implements `JobLifecycle`. `Accounts` extends `RateLimiter`, since its two public
endpoints call `check` first, and implements both it and `AccountBook`. `BrowserJob` extends `JobTable`, and `Dashboard`
extends `BrowserJob`: the page reads and cancels the very statements of the jobs table that
`CloudWorker` is built from, but of the worker it needs only when it runs, uploads and is gone. It
implements `JobLifecycle` too, by a second path: here a cancel is answered before it commits.
`WorkerTiming` stands beside them: it looks at one task alone and keeps of it only what
takes time. It justifies the one statement about time that `CloudWorker` builds on, that a row
which a live task attends never grows stale (`StaleWhileAttended = FALSE`).

### How state and actions correspond to the code

- **`pc[a]`** is the `await` at which the coroutine of actor `a` is suspended. The task of job `j`
  is the actor `j`; a cancel request is an actor `r` with `target[r]` as its `job_id`. An action
  resumes a coroutine at one await and runs it to the next. A statement that commits is atomic, so
  the model has one step per statement, not one for the statement and one for its commit.
- **`row[j]`** is the only worker row of job `j`. `provision_worker` creates a row per claim, so
  this rests on `ClaimedOnce`, which is checked and proved. Of the columns it keeps the status,
  whether `instance_id` and `ready_at` are set, and whether `updated_at` lies before the reaper's
  cutoff (`stale`). `SetStatus` writes unconditionally because `_set_status` does; it clears `stale`
  because every UPDATE sets `updated_at`. `MarkTerminating` does nothing when the session had loaded
  the row as `terminating`: the ORM then emits no UPDATE.
- **`seen[a]`** is the local variable `worker` of `terminate_worker_for_job`; **`existing[r]`** the
  one of `cancel_job`; **`listed[j]`** the `instance_id` in the reaper's snapshot. They are what the
  code acts on after an await, whatever the table says by then. They are kept after their
  coroutine has ended, so that properties can speak of them.
- **`cancelTxn[r]`** says that request `r` has an uncommitted cancel. `Locked(j)` follows: the claim
  passes over the row, `FinishIfRunning` and a second cancel wait for it. The response is sent
  before the commit (`respond`, then `commit`).
- **`jobsTotal[j]`** counts increments of `cloudworker_jobs_total`, **`claims[j]`** counts claims.
  Nothing reads them. The processor and the reaper increment the counter between the commit of
  `fail()` or `complete()` and the next await, so it belongs to the same action; the cancel
  endpoint increments it several awaits after its UPDATE.
- **`Faulty`** is the set of failures of an instance: `process` (the worker process dies), `api`
  (the API process dies, or the client's request is dropped), `db` (any statement raises),
  `terminate` (`terminate_instances` raises) and `launch` (an instance starts and its id is lost).
  Failures the code treats as ordinary outcomes need no fault: a launch that raises, an instance
  that never registers with SSM, an execution that fails, raises or times out.
- **`Age(j)`** lets `updated_at` of a row pass the cutoff. `core/config.py` sets the cutoff
  "comfortably above" the time a live task takes, so a row ages only when no coroutine attends it,
  unless `StaleWhileAttended` lifts that.
- In `WorkerTiming`, `at` is the await at which the task is suspended, `since` the time that await
  began, `deadline` the local variable of the polling loop that runs (`wait_until_ssm_ready` and
  `poll_for_terminal_status` are never both active), and `execStart` the time at which `wait_for`
  armed its timeout. `Tick` is the only action that lets time pass, and only while the task is
  suspended: an await of a call ends at any moment up to `CallMax`, a sleep after exactly its
  interval, `wait_for` at its timeout. An UPDATE stamps `updated_at` with the start of its
  transaction (`now()` in PostgreSQL), so with some time of the await that ran it. A call that
  raises, a status that is or is not terminal, and an instance that registers or not are free
  choices at every await. The two executors differ in the listing of artifacts only, which one of
  two branches of `PollAnswered` takes.
- `create_job` commits at the end of its request; until then nobody sees the row, so insertion and
  commit are one step. A request for a job that does not exist, or belongs to another user, gets a
  404 and changes nothing; it is not an action.
- In `RateLimiter` a thread can be interrupted after it read the clock and after it read the window;
  the rest of `check` runs in one step. `admitted`, `opened`, `openedAt` and `overlapped` record
  what happened and nothing reads them.
- In `Accounts` a row is named by the request that inserted it. `written[q]` is what the session of
  `q` has written and not committed; `Commit` makes it visible after the answer has left, and
  `Fails` rolls it back. A second insert of one address, and a second UPDATE of one key, wait for the
  first (the unique index of the migration, the row lock). `known`, `promised` and `dead` record
  which requests were sent when.
- In `Dashboard`, `poll[p]` is a read of the job in flight and then its answer, `load[l]` a listing
  of the artifacts, `reply[r]` the answer to a cancel on its way back. Any of them may be processed
  next. `cancel[r]` is where `cancel_job` is on the server; it ends after its answer, as the session
  does. `SetJob` includes the effects that depend on `job`: the interval is armed while the status
  shown is not final (`Armed`), and a final one has the artifacts listed.
- In `BrowserJob`, `made` is what `main` of the runner finds in `output_dir` when it comes to upload,
  `left` what it has yet to try and `store` the files in the bucket. A key ends with `file_path.name`,
  so an object is replaced by a later one of the same `Name` (`Stored`). A script that raises
  `SystemExit` passes both `except Exception` blocks, so `main` ends before its uploads (`quit`) and the
  process returns the script's exit code; so does a `main` that raises for itself. The exit code, and
  with it the status SSM reports, is a free choice of `ExecutorReturns`. `ExecutorGivesUp` stands for
  all the ways in which a task fails its job, and `TaskDies` for those in which it does not come to it:
  `fail` or `complete` raises, or the process dies. `ReaperFails` may fail the job later; it need not,
  since the reaper lists no row that provisioning or a teardown has closed. How the rows come to be so is
  in `CloudWorker`.
- `_run_job` checks `worker.instance_id is None` after provisioning. As its comment says this cannot
  happen, and the branch is left out.

## Properties

Safety of the core, in `CloudWorker.tla`:

- `TypeOK`.
- `RefinesLifecycle`: the tables implement `JobLifecycle`. Terminal statuses are final, a claim
  takes a queued job, and only a running job succeeds or fails, whatever cancels, teardowns,
  reapers and crashes do.
- `ClaimedOnce`, `PermitsConserved`.
- `CountedOnce`: the counter has counted a job exactly when it is terminal, but for a cancel
  request between its commit and its increment.
- `NoOrphan`: an instance that runs is held by a task that will terminate it, or its row is open
  and knows its id so that the reaper will, unless a cancel closed the row before the id was stored
  (`CancelledBlind`, see `cancel_orphan`).
- `ReadyReapable`: from `ready` on, an instance is never lost to a crash or a failure. The property
  names the two exceptions the code has, a teardown by a cancel that read the row before the id
  was stored (`CancelledBlind`) and the same by the reaper when the cutoff is too short
  (`ReapedBlind`).
- `TerminatedMeansGone`: behind a `terminated` row no instance runs, with the first exception.
- `RunningIsOwned`: a running job has a task that will settle it, unless that task died with its
  process or one of its own statements raised. A cancel that is rolled back gives the job back.
- `WorksOnLiveWorker`: as long as its job is running, a task works on an instance that runs. A cancel
  has committed before it terminates anything, and the reaper leaves attended rows alone.
- `NoStandstill`: nobody waits for somebody who waits. The request whose cancel is open, for whose
  row lock the claim, `complete`, `fail` and other cancels wait, is on its way to end it; and the
  poll loop waits for a permit only while a task has one to give back.

In `WorkerTiming`, each under the condition on the settings it is named with:

- `NeverStale` (`CutoffSuffices`): the reaper never lists the row of a live task. This is what the
  comment on `worker_stale_after_seconds` in `core/config.py` promises; nothing in the code
  compares the settings with each other.
- `SafetyNetUnused` (`SlackSuffices`): an executor ends before `wait_for` cancels it, so that the
  timeout stays the "safety net" that `job_processor.py` says it is.
- `SsmHadItsChance` (`PollSuffices`): `poll_for_terminal_status` gives up only after a question it
  asked when the `TimeoutSeconds` of the command had passed.
- `EndsInTime` (no condition): the task, and with it its permit and its instance, ends within
  `LongestLife`.

In `RateLimiter`, however the threads interleave: `LimitPerReset` (no more than max_attempts calls are
admitted between two resets of the counter) and `RefusedOnlyWhenFull` (a refused call follows
max_attempts admissions less than a window before it). `AtMostTwice` (any 2 * max_attempts + 1 admitted
calls span a window, as long as no two calls of the client overlap) is proved and not checked: its
case needs three admissions in a row and a later clock than the `accounts` run has.

In `Accounts`: `OneAccount`, `WholeAccounts` (a user is committed with its first key and a key never
without its user), `RevokedIsDead` (a request sent after the commit of a revocation is refused, and
so is a second revocation, whatever sessions were open), `OwnersRevoke` (behind every revocation is a
request of the key's own account that was answered for it), `CommittedCanLogIn`, `RefinesBook` (what
the sessions write piece by piece appears in the tables as one step of `AccountBook`: an account with
its key for a free address, a key for an account, a revocation that stays), `NoStandstill` (a session
that others wait for is past its own waits), and the liveness property `RequestsEnd`: no request waits
for ever for the insert or the lock of another.

In `Dashboard`: `TerminalShownIsTrue`, with the exception the code has (the page believes a cancel
whose session has not committed yet, or was rolled back after its answer); `ArtifactsAgree`: the
result of a succeeded job, and its page's list, are what the bucket holds, and unless the script left
`main` for itself every file was tried and every name has its object if no call failed; `FoundIsNotLost`, since only the first read can come
before the creation's commit; `NoStandstill`: for whatever the page still lacks, the job or the
artifacts of one that has ended, a request is under way unless one was refused or cut off;
`RefinesLifecycle`; and the liveness property `PageSettles`: the page ends up with the
job's final status and its artifacts or the reason why not, unless its first read, a listing or the
commit of a cancel failed, or the job's task died and nothing has ended the job (`Abandoned`): then the
job stays `running` and the page polls on, for ever when the worker's row was closed before. A read
whose token has expired counts as a call that fails: its 401 makes the page say "Job not found" too.

Liveness of the core: `JobsEnd`, `InstancesEnd` and `OwnedInstancesEnd` (the same but for
`CancelledBlind`), `ReadyInstancesEnd`, `TerminatingEnds`, `ReapedJobsEnd`.

## Runs

| Run | Specification | Bounds | Shows |
|---|---|---|---|
| `adverse` | `Spec` | 1 job, 2 cancels, every fault, early staleness | `TypeOK`, `ClaimedOnce`, `ReadyReapable`, `RunningIsOwned`, `NoStandstill`, `TerminatedMeansGone`, `RefinesLifecycle` |
| `progress` | `FairSpec` | 2 jobs (one without an executor), 1 cancel, 2 permits | `NoOrphan`, `WorksOnLiveWorker`, `CountedOnce`, `PermitsConserved`, `JobsEnd`, `OwnedInstancesEnd` |
| `recovery` | `FairSpec` | 1 job, process deaths, failing terminations and statements | `ReadyInstancesEnd`, `TerminatingEnds` |
| `timing` | `Spec` of `WorkerTiming` | calls of up to 2, settings that meet each condition exactly | `TypeOK`, `NeverStale`, `SafetyNetUnused`, `EndsInTime`, `SsmHadItsChance` |
| `accounts` | `FairSpec` of `Accounts` | four `Scenarios` of three requests, failing database, 1 attempt per window of 2, `MaxTime` 3 | `TypeOK`, `LimitPerReset`, `OneAccount`, `WholeAccounts`, `RevokedIsDead`, `OwnersRevoke`, `NoStandstill`, `CommittedCanLogIn`, `RefinesBook`, `RefusedOnlyWhenFull`, `RequestsEnd` |
| `dashboard` | `FairSpec` of `Dashboard` | 1 job, 2 reads and 1 listing in flight, 1 cancel, 2 files of one name, 1 failure of any call or of the task | `TypeOK`, `TerminalShownIsTrue`, `ArtifactsAgree`, `FoundIsNotLost`, `NoStandstill`, `RefinesLifecycle`, `PageSettles` |
| `crash_leak` | `FairSpec` | 1 job, process deaths | violates `InstancesEnd` |
| `crash_stuck` | `FairSpec` | 1 job, process deaths | violates `ReapedJobsEnd` |
| `cancel_orphan` | `FairSpec` | 1 job, 1 cancel, no fault | violates `InstancesEnd` |
| `cancel_uncounted` | `Spec` | 1 job, 1 cancel, failing terminations | violates `CountedOnce` |
| `limiter_race` | `LimiterSpec` | 3 calls, 1 attempt per window of 2, `MaxTime` 5 | violates `TwicePerWindow` |
| `register_gap` | `FairSpec` of `Accounts` | 1 registration, 1 login, no failure | violates `RegisteredCanLogIn` |

Why the bounds suffice: jobs interact only through the semaphore, the claim order and the reaper's
batch, which two jobs exercise: with two tasks both permits are taken and the loop has to wait.
Everything about one worker happens between its task, its cancels and the reaper, so one job with
two cancels contains every pair of them, and a task, two cancels and a reaper at once. The
processes run for ever and `JobsEnd` needs no bound on time; the model's only counter is `claims`,
which `ClaimedOnce` bounds. Symmetry is used in `adverse` only, which checks no liveness.
`ApiCanTerminate = FALSE`, an API process without a provisioner, is covered by the theorems alone.

`timing` meets its conditions exactly: with a cutoff or a slack one unit smaller, or an SSM minimum
one unit larger, TLC finds a violation. A step of the executor may also hang, so that `wait_for`
fires. A task lasts at most `LongestLife`, so the clock needs no bound of its own.

`Scenarios` bounds `Accounts`: the requests made in one behaviour. The four are two registrations of
one address with a login, a registration with a login and a keyed request, one with two keyed
requests, and two registrations of different addresses with a keyed request; what a keyed request
carries and asks for is chosen freely. The pairs that compete for a row (two inserts, two revokes, a
use and a revoke) are all in them; a second revoke by a request whose own credential is still alive
needs a fourth request, and rests on `RevokedStaysDead`. `MaxTime` lets one window end. In `Dashboard`, `Polls` and `Loads`
bound the requests in flight: two reads are enough for one answer to overtake another. Two files of
one name, of which either may be missing, replace each other; files of different names, which do not,
are covered by the theorem. `MaxFaults`
bounds the failures, since repeated ones only repeat what one shows; a listing is free again once it
was answered or cut off. Every value is then covered by the theorems.

### What the violations show

- `crash_leak`: `run_instances` returns, the process dies before `mark_provisioning`. The row is
  `pending` without an id; the reaper marks it failed and terminates nothing. The instance carries
  a tag with the job's id, but nothing looks for tags. `worker_reaper.py` claims to recover "a
  worker whose owning process crashed mid-provisioning".
- `crash_stuck`: the reaper commits `mark_failed` and dies before `fail`. The row is terminal now,
  no later batch lists it, and the job stays `running`. Failing the job first would leave the row
  for the next batch.
- `cancel_orphan`: a cancel during the launch closes a row that has no instance id yet; the
  instance comes up and, when the cancel's last write is also the row's last write, stays.
- `cancel_uncounted`: the cancel is committed by `mark_terminating`, then `terminate_instances`
  raises, and the increment at the end of the endpoint is not reached.
- `limiter_race`: threads that read the window before one of them replaces it each set the counter to
  one, after the others have counted themselves, and all are admitted. `rate_limit.py` says that a
  client is refused once more than `max_attempts` have been recorded, and bounds the excess by twice
  that number.
- `register_gap`: `register` answers, the dashboard logs in at once, and its login reads the users
  table before the registration commits: 401 for an account that was just created.

Three more disagreements need no run. Two revokes of one key that overlap both find it unrevoked and
are both answered 200, where `domain/repositories.py` (25-28) says that `revoke` reports whether
there was an unrevoked key; `RevokedIsDead` speaks of a revoke sent after the commit of the first.
And `NewJobPage` opens the page of a job whose creation may not have committed: a 404 to the first
read sets an error that nothing clears, and `PageSettles` names this as an exception.
`FoundIsNotLost` says that only the first read can meet this fate. And the docstring of
`run_playwright.py` (11-13) says that everything left in `output_dir` when the script finishes is
uploaded: a script that ends with `sys.exit` uploads nothing (55, 61, 65), and succeeds if its exit code
is 0, and of files of one name in different directories one object remains (72-77). `ArtifactsAgree`
names the first as its exception and speaks of names because of the second.

### Fairness

`FairSpec` assumes that a coroutine whose await is over is resumed (the event loop is fair and the
calls return or raise), that the loops poll on, that time passes, and that a dead worker process is
restarted (`docs/phase-4.md` relies on Docker's restart policy). It never assumes that a client
sends a request or that a process dies. For the reaper alone it assumes strong fairness of each of
its three calls per worker: the call may fail again and again, because the batch is tried again at
the next poll, but not for ever. The liveness properties with crashes are stated under `<>[]Up`,
that the crashes stop eventually.

`Accounts` assumes weak fairness of all that the server does, together: some request that can go on
does. No client has to send a request, no failure has to happen and the clock may stop. `Dashboard`
assumes it of the backend, of the interval, of the reads, of the listings and of the cancels, each as
a whole: timers fire and calls return. The teardown of a cancel, opening the page and clicking the
button are free, and so are failures, the death of a task among them, and the reaper: `PageSettles` does
not count on it.

## Theorems

Proved by TLAPS for every finite set of jobs, every set of requests, every `Faulty`, every number
of permits and both values of the two switches, from the assumptions on the constants that the
modules state (`JobsAssumption`, `FaultyAssumption`, `ProcessorAssumption`, `EndpointAssumption`,
`StalenessAssumption`):

- `TypeCorrect`: `Spec => []TypeOK`.
- `PermitsAreConserved`: `Spec => []PermitsConserved`, and from it `ConcurrencyIsBounded`: no more than
  `MaxConcurrent` tasks at once, whatever crashes and restarts, those in their teardown included.
- `ClaimsAreUnique`: `Spec => []ClaimedOnce`.
- `ImplementsLifecycle`: `Spec => RefinesLifecycle`, and from the same step lemma `TerminalIsFinal`: no
  step of any process, request or failure changes a job that has ended.
- `RunningJobsAreOwned`: `Spec => []RunningIsOwned`.
- `NothingStandsStill`: `Spec => []NoStandstill`.
- `TasksWorkOnLiveWorkers`: `Spec => []WorksOnLiveWorker`, under every fault, as long as the cutoff
  suffices (the property excepts `StaleWhileAttended`).
- `ReadyIsReapable`: `Spec => []ReadyReapable`.
- `TerminatedIsGone`: `Spec => []TerminatedMeansGone`.
- `JobsAreCountedOnce`: `CancelsDoNotRaise` implies `Spec => []CountedOnce`. Nothing but an exception
  in a cancel can spoil the count, as `cancel_uncounted` shows; the worker process may crash.
- `NoneOrphaned`: `Undisturbed` implies `Spec => []NoOrphan`. `Undisturbed` says that nothing in the
  worker process crashes or raises and that the cutoff suffices; requests may be cut off anywhere.

Proved for `WorkerTiming`, for all natural numbers as settings (the intervals and `CallMax` at
least 1, `TimingAssumption`):

- `CutoffIsSafe`: `CutoffSuffices` implies `Spec => []NeverStale`.
- `SlackIsSafe`: `SlackSuffices` implies `Spec => []SafetyNetUnused`.
- `SsmIsHeard`: `PollSuffices` implies `Spec => SsmHadItsChance`.
- `TasksEndInTime`, `TypeCorrect`: `Spec => []EndsInTime` and `Spec => []TypeOK`.

With the defaults (120 s for SSM, 900 s of execution, polls every 5 s, 60 s of slack, a cutoff of
1800 s) the cutoff suffices while no call takes longer than 210 s, and the slack while none takes
longer than 12 s; a slower call lets `wait_for` cut in first, which costs the job its SSM status but
no cleanup. `PollSuffices` holds while no call takes longer than the poll interval of 5 s, and
fails for a `job_execution_timeout_seconds` below 25 s, because `dispatch_command` never asks SSM
for less than 30 s: the executor can then give up before the command's own time is over.

Proved for `RateLimiter`, for every number of calls and every setting (`LimiterAssumption`):
`LimiterTypeCorrect`, `RefusalsHaveCause` (`LimiterSpec => RefusedOnlyWhenFull`), `SequentialBound`
(`LimiterSpec => []AtMostTwice`) and `ResetsBoundAdmissions` (`LimiterSpec => []LimitPerReset`): in
any interleaving no more than `MaxAttempts` calls are admitted between two resets, so all that the race of `limiter_race` adds it
adds by resetting a window that is open.

Proved for `Accounts`, for all sets of calls and keyed requests, every `Email`, every `Scenarios` and
with or without failures (`AccountsAssumption`): `AccountsTypeCorrect`, `AddressesAreUnique`
(`OneAccount`), `AccountsAreWhole` (`WholeAccounts`), `RevokedStaysDead` (`RevokedIsDead`),
`CommittedLogsIn` (`CommittedCanLogIn`), `OwnersOnlyRevoke` (`OwnersRevoke`), `ImplementsBook`
(`Spec => RefinesBook`), `SessionsNeverBlockEachOther` (`NoStandstill`), `ImplementsLimiter`
(`Spec => LimiterSpec`) and what this carries over from the limiter, `EndpointsAreLimited`
(`Spec => RefusedOnlyWhenFull /\ []LimitPerReset /\ []AtMostTwice`).

Proved for `Dashboard`, for all sets of jobs, requests, files, reads and listings and every
`MaxFaults` (`JobsAssumption`, `BrowserJobAssumption`): `DashboardTypeCorrect`, `ShownIsTrue`
(`TerminalShownIsTrue`), `ArtifactsAgreeInTheEnd` (`ArtifactsAgree`), `FoundStaysFound`
(`FoundIsNotLost`), `PageNeverStandsStill` (`NoStandstill`) and `DashboardImplementsLifecycle`
(`Spec => RefinesLifecycle`).

*The control argument* (`CloudWorkerProofs`). None of the first properties is inductive. That a
claim is the first for its job needs `ClaimInv`: a job that is queued has no task, and `claims[j]`
is 1 from the moment a task exists, even after the process that ran it is gone. The semaphore needs
`DownInv` (a process that is down has no task) and the cardinality of the set of tasks, which
changes by one in exactly the actions that move a permit. That committing a cancel is a step of
the abstract job needs `CancelInv`: an open cancel holds the only lock on a row that is still
queued or running, so no other statement can have ended the job in between. `ControlInv` is
their conjunction with the permit count and with `PcInv`, which says where a task and where a
request can be suspended. `RunningIsOwned` is inductive once the types are known; the work is in the
step lemma, since every action of the composition has to be looked at. `NoStandstill` needs `HolderInv`, by which a
request that has its row locked is past the statements that wait for a row, and the permit count: a
loop without a permit to take has given all of them to tasks. `JobsEnd` and `RequestsEnd` say that
waiting ends, under fairness, on the instances TLC checks; the two `NoStandstill` are the part of
that which is safety, for every instance.

*The cleanup argument* (`CleanupProofs`). `CleanupInv` says, for each actor, what its position
implies about the row and the instance: a task that is about to record an id has launched
(`TaskOK`), and in its teardown it has seen a row with an id; what an actor has read of a row
stays true of it, and a teardown that has reached `finish` has terminated what it saw
(`TeardownOK`); a request reads the row once, before its first write (`RequestOK`); the reaper's
snapshot implies the instance it will terminate (`ReaperOK`); a stale row is an unattended one
unless the switch is on (`StaleOK`); a `terminated` row, and a row that was ready, imply what the
two properties say (`GoneOK`, `ReadyOK`). One lemma per action shows that it preserves these facts
about its own job and does not disturb the others'.

*The counting argument* (`CountingProofs`). `OwingInv` says that one cancel at most has run its
UPDATE without having committed and counted yet; while one owes the count, its lock or the status
`cancelled` keeps the statements of everybody else from counting. `SettledInv` says that every other
job is counted exactly if it has ended.

*The ownership argument* (`OrphanProofs`). `OwnedInv` adds to `NoOrphan` that a task on its way to
mark a failed launch has no instance, and is inductive together with `CleanupInv`: who closes a row
has terminated the instance it read, and the reaper, which lists only rows nobody attends, has read
every id that was stored. `WorksOnLiveWorker` needs from the cleanup argument that a stale row is
unattended, and `TearingInv`: a cancel that is about to read or mark the worker still holds its lock,
and one that is about to terminate the instance has cancelled the job for good. `mark_terminating`,
which commits the session, stands between the two.

*The limiter argument* (`RateLimiterProofs`). `CountInv` ties the counter to the admissions since the
last reset, in any interleaving; `ReadInv` says that what a thread holds is no later than the last
reset and the clock. While no calls overlap, `AloneInv` says that the one under way read what is
still there, and `WindowInv` that all admissions before the last reset but the last `MaxAttempts` lie
a whole window before it.

*The accounts argument* (`AccountsProofs`). `PlaceInv` and `WrittenInv` say what the session of a
request holds at each place of its handler; `AddressInv` counts one row for an address, committed or
not; `OwnerInv` says that a request that got past its credential names a committed account; `DeadInv`
how far a request gets that was sent with, or for, a revoked key. `SessionInv` says what a keyed
session carries from its credential to its commit: the account its credential names, the one write
it was asked for, and for each revoked key a request of the owner that ended. On it rest
`OwnersRevoke`, `NoStandstill`, and the map to `AccountBook`, in which only `Commit` is a step: the
address is free because `AddressInv` admits one open insert, and the key comes with the account.

*The dashboard argument* (`DashboardProofs`). `TxnInv` says that one cancel at most has its row
locked and that an answered one is committed, pending or undone; `ShownInv` that a final status that
was read, answered or shown is the job's, with that exception; `RunnerInv` that an executor that
completes has listed the store after the last upload, and that until a call fails the names in the store
are those of the files that were tried; `ListInv` that the page's listing was taken when
the job had ended. `KnownInv` says that what the page knows it knows from a committed row, and
`FirstReadInv` that until then its first read is alone, so that no other can be refused without a
failure. `TxnInv` is also what makes the commit of a cancel that was answered before a step of
`JobLifecycle`: no statement has ended the job in between. `NoStandstill` is inductive with the types
and `KnownInv`.

*The timing argument* (`WorkerTimingProofs`). `TimeInv` bounds the *start* of the await at which the
task is suspended, three times: from the last stamp of the row (`FreshInv`), from the deadline of
the loop that runs (`SsmInv`, `PollInv`), and from the beginning of the task (`AgeInv`).
`ClockInv` adds that no await outlasts its bound, so each bound on a start becomes one on the clock
and, when the await ends, on the start of the next. It holds without any condition on the settings;
the conditions only compare it with the cutoff, the slack or SSM's timeout.

Only model-checked: liveness (`JobsEnd`, `OwnedInstancesEnd`, `ReadyInstancesEnd`, `TerminatingEnds`,
`RequestsEnd`, `PageSettles`), which is out of TLAPS's reach. Every safety property that a passing
run checks is also proved.

## Not modelled

- Several worker processes. `claim_next_job` is written for them, and `ClaimedOnce` rests on the same
  statements; with two, two reapers could also work on one batch. The model has one loop, one
  semaphore and one batch, and a second set would multiply the states beyond what TLC finishes.
- Time in numbers, outside `WorkerTiming` and `RateLimiter`. A second is an integer step, sleeps are
  exact (the event loop is never late), and one `CallMax` stands for every call, the wait for a thread
  of `asyncio.to_thread` and for a connection of the pool included. That calls are bounded at all is
  an assumption: botocore and asyncpg have timeouts and retries of their own.
- A restart of the API process, which forgets the limiter's windows, and the growth of its
  dictionaries, which nothing empties.
- The expiry of a token: a request with an expired one is refused like one with an unknown credential.
- Hashing, signing and validation of input: library calls, reduced to which row a credential names.
- Requests for jobs or keys of other users: a 404 that changes nothing.
- `JobsListPage`, `ApiKeysPage` and the session in `localStorage`: each shows or stores the last
  answer. The login that follows a registration is in `Accounts`.
- Whether naive `datetime` columns and `timestamptz` agree (`worker_repository.py`, 97), and that
  `list_objects_v2` returns at most a thousand keys: conversions of data that no order of events
  changes.
- Metrics other than the job counter, logging, health checks and middleware, which observe and decide
  nothing; migrations, whose tables and indexes are variables and guards here; Terraform, Packer,
  Docker Compose and CI, which are declarative.
