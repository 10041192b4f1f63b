---------------------------- MODULE WorkerTiming ----------------------------
(***************************************************************************)
(* The life of one worker in time, as its task in JobProcessor runs it: it *)
(* is provisioned, executes its command over SSM and is torn down.  Three  *)
(* deadlines nest (SSM's own, the executor's, the one of wait_for), and    *)
(* all of them must end before the reaper calls the row stale.             *)
(*                                                                         *)
(* A clock ticks while the task is suspended.  A call may return at once   *)
(* or take up to CallMax, and may raise; a sleep lasts its interval.       *)
(***************************************************************************)
EXTENDS Naturals

CONSTANTS SsmReadyTimeout,     \* settings.ssm_ready_timeout_seconds
          SsmPollInterval,     \* EC2WorkerProvisioner's interval
          ExecutionTimeout,    \* settings.job_execution_timeout_seconds
          PollInterval,        \* the executors' interval
          Slack,               \* _EXECUTOR_WAIT_SLACK_SECONDS
          SsmMinimum,          \* the least TimeoutSeconds dispatch_command asks for
          StaleAfter,          \* settings.worker_stale_after_seconds
          CallMax              \* the longest a call to AWS or the database takes

ASSUME TimingAssumption ==
    /\ {SsmReadyTimeout, ExecutionTimeout, Slack, SsmMinimum, StaleAfter} \subseteq Nat
    /\ {SsmPollInterval, PollInterval, CallMax} \subseteq Nat \ {0}

VARIABLES now,         \* the time since the task began to provision
          at,          \* the await at which the task is suspended
          since,       \* when that await began
          updatedAt,   \* workers.updated_at
          deadline,    \* the local variable of the polling loop that runs
          execStart,   \* when wait_for started the executor
          sentAt       \* when SSM accepted the command

vars == <<now, at, since, updatedAt, deadline, execStart, sentAt>>
locals == <<deadline, execStart, sentAt>>

\* "hang": an executor that does not bound its own polling.
Executing == at \in {"dispatch", "poll", "pollSleep", "artifacts", "hang"}
Provisioning == at \in {"launch", "record", "ssm", "ready"}
Step == {"create", "launch", "record", "ssm", "ssmSleep", "ready",
         "dispatch", "poll", "pollSleep", "artifacts", "hang",
         "settle", "teardown", "kill", "close", "abort", "undo", "over"}

\* TimeoutSeconds of the SSM command, and when wait_for loses patience.
SsmTimeout == IF ExecutionTimeout > SsmMinimum THEN ExecutionTimeout ELSE SsmMinimum
WaitForDeadline == execStart + ExecutionTimeout + Slack

\* The longest an await lasts.  terminate_worker_for_job reads and marks the row in
\* one transaction; the listing of artifacts asks two buckets; a failed provisioning
\* terminates the instance and fails the job.
AwaitBound ==
    CASE at = "ssmSleep" -> SsmPollInterval
      [] at = "hang" -> ExecutionTimeout + Slack
      [] at = "pollSleep" -> PollInterval
      [] at \in {"artifacts", "teardown", "undo"} -> 2 * CallMax
      [] OTHER -> CallMax

TypeOK ==
    /\ at \in Step
    /\ {now, since, updatedAt, deadline, execStart, sentAt} \subseteq Nat

Init ==
    /\ at = "create"
    /\ now = 0 /\ since = 0 /\ updatedAt = 0
    /\ deadline = 0 /\ execStart = 0 /\ sentAt = 0

-----------------------------------------------------------------------------
\* The await `from` is over and the task suspends at `to`.
Resume(from, to) == at = from /\ at' = to /\ since' = now /\ UNCHANGED now

\* An UPDATE stamps the row with the time its transaction began.
Stamp == updatedAt' \in since..now

\* A loop's sleep lasts its interval.
SleepOver(interval) == now = since + interval

\* provision_worker
Created == Resume("create", "launch") /\ Stamp /\ UNCHANGED locals

Launched == Resume("launch", "record") /\ UNCHANGED <<updatedAt, locals>>

\* Mutant: the timeout is subtracted.
RecordedInThePast ==
    /\ Resume("record", "ssm")
    /\ Stamp
    /\ deadline' = now - SsmReadyTimeout
    /\ UNCHANGED <<execStart, sentAt>>

Recorded ==
    /\ Resume("record", "ssm")
    /\ Stamp
    /\ deadline' = now + SsmReadyTimeout
    /\ UNCHANGED <<execStart, sentAt>>

SsmReady == Resume("ssm", "ready") /\ UNCHANGED <<updatedAt, locals>>

\* Mutant: the loop never looks at its deadline.
SsmKeepsWaiting == Resume("ssm", "ssmSleep") /\ UNCHANGED <<updatedAt, locals>>

SsmNotYet ==
    /\ now < deadline
    /\ Resume("ssm", "ssmSleep")
    /\ UNCHANGED <<updatedAt, locals>>

SsmAskAgain ==
    /\ SleepOver(SsmPollInterval)
    /\ Resume("ssmSleep", "ssm")
    /\ UNCHANGED <<updatedAt, locals>>

\* Mutant: mark_ready leaves updated_at alone.
MarkedReadySilently ==
    /\ Resume("ready", "dispatch")
    /\ execStart' = now
    /\ UNCHANGED <<updatedAt, deadline, sentAt>>

\* mark_ready; the executor starts under wait_for, which guards against one that hangs.
MarkedReady ==
    /\ Resume("ready", "dispatch") \/ Resume("ready", "hang")
    /\ Stamp
    /\ execStart' = now
    /\ UNCHANGED <<deadline, sentAt>>

\* A call raises, or the instance did not register in time; mark_failed follows,
\* and then terminate.
ProvisioningFails ==
    /\ Provisioning
    /\ Resume(at, "abort")
    /\ UNCHANGED <<updatedAt, locals>>

MarkedFailed == Resume("abort", "undo") /\ UNCHANGED <<updatedAt, locals>>

-----------------------------------------------------------------------------
\* dispatch_command, then the first poll.
Dispatched ==
    /\ Resume("dispatch", "poll")
    /\ sentAt' \in since..now
    /\ deadline' = now + ExecutionTimeout + PollInterval
    /\ UNCHANGED <<updatedAt, execStart>>

\* Mutant: the loop never gives up.
PollForEver == Resume("poll", "pollSleep") /\ UNCHANGED <<updatedAt, locals>>

PollNotYet ==
    /\ now < deadline
    /\ Resume("poll", "pollSleep")
    /\ UNCHANGED <<updatedAt, locals>>

PollAgain ==
    /\ SleepOver(PollInterval)
    /\ Resume("pollSleep", "poll")
    /\ UNCHANGED <<updatedAt, locals>>

\* Mutant: the deadline does not outlast SSM's own timeout.
PollGivesUpEarly ==
    /\ now + PollInterval >= deadline
    /\ Resume("poll", "settle")
    /\ UNCHANGED <<updatedAt, locals>>

\* The deadline is over and SSM reports no terminal status.
PollGivesUp ==
    /\ now >= deadline
    /\ Resume("poll", "settle")
    /\ UNCHANGED <<updatedAt, locals>>

\* A terminal status; the Playwright executor then lists the artifacts.
PollAnswered ==
    /\ \/ Resume("poll", "settle")
       \/ Resume("poll", "artifacts")
    /\ UNCHANGED <<updatedAt, locals>>

ArtifactsListed == Resume("artifacts", "settle") /\ UNCHANGED <<updatedAt, locals>>

\* A call of the executor raises.
ExecutorRaises ==
    /\ at \in {"dispatch", "poll", "artifacts"}
    /\ Resume(at, "settle")
    /\ UNCHANGED <<updatedAt, locals>>

\* wait_for cancels the executor at whatever it awaits.
WaitForTimesOut ==
    /\ Executing
    /\ now = WaitForDeadline
    /\ Resume(at, "settle")
    /\ UNCHANGED <<updatedAt, locals>>

-----------------------------------------------------------------------------
\* complete or fail of the job, and then terminate_worker_for_job.
Settled == Resume("settle", "teardown") /\ UNCHANGED <<updatedAt, locals>>

MarkedTerminating == Resume("teardown", "kill") /\ Stamp /\ UNCHANGED locals

Killed == Resume("kill", "close") /\ UNCHANGED <<updatedAt, locals>>

\* The last call is over, or one of these calls raises and the task ends.
TaskEnds ==
    /\ at \in {"create", "settle", "teardown", "kill", "close", "abort", "undo"}
    /\ Resume(at, "over")
    /\ UNCHANGED <<updatedAt, locals>>

Over == at = "over" /\ UNCHANGED vars

\* Time passes while the task is suspended; the event loop serves it in time.
Tick ==
    /\ at # "over"
    /\ now < since + AwaitBound
    /\ Executing => now < WaitForDeadline
    /\ now' = now + 1
    /\ UNCHANGED <<at, since, updatedAt, locals>>

Provision ==
    \/ Created \/ Launched \/ Recorded \/ SsmReady \/ SsmNotYet \/ SsmAskAgain
    \/ MarkedReady \/ ProvisioningFails \/ MarkedFailed
Execute ==
    \/ Dispatched \/ PollNotYet \/ PollAgain \/ PollGivesUp \/ PollAnswered
    \/ ArtifactsListed \/ ExecutorRaises \/ WaitForTimesOut
Finish == Settled \/ MarkedTerminating \/ Killed \/ TaskEnds \/ Over

Next == Provision \/ Execute \/ Finish \/ Tick

Spec == Init /\ [][Next]_vars

-----------------------------------------------------------------------------
(***************************************************************************)
(* Conditions on the settings, and what follows from each.                 *)
(***************************************************************************)

\* worker_stale_after_seconds lies above the two phases in which the task does not
\* write the row and the calls around them.
CutoffSuffices ==
    /\ StaleAfter >= SsmReadyTimeout + SsmPollInterval + 4 * CallMax
    /\ StaleAfter >= ExecutionTimeout + Slack + 4 * CallMax

\* The reaper never lists the row of a live task: core/config.py says the cutoff
\* "never races a job that's still legitimately running".
RowOpen == at \notin {"create", "undo", "over"}
NeverStale == RowOpen => now <= updatedAt + StaleAfter

\* The slack covers what the executor may take beyond its own timeout.
SlackSuffices == Slack >= 2 * PollInterval + 4 * CallMax

\* wait_for is "a safety net [...], not the primary timeout mechanism"
\* (job_processor.py): an executor that bounds its own polling never meets it.
SafetyNetUnused == Executing /\ at # "hang" => now < WaitForDeadline

\* A poll outlasts a call, and the deadline leaves room for SSM's minimum.
PollSuffices == ExecutionTimeout + PollInterval >= SsmTimeout + CallMax

\* The deadline of poll_for_terminal_status is longer than SSM's "so SSM has a chance
\* to report TimedOut itself first": the executor gives up only after a question it
\* asked when the command's own time was over.
SsmHadItsChance == [][PollGivesUp => since >= sentAt + SsmTimeout]_vars

\* A task, and with it its permit and its instance, ends within a bound that the
\* settings give.
LongestLife ==
    SsmReadyTimeout + SsmPollInterval + ExecutionTimeout + Slack + 10 * CallMax
EndsInTime == now <= LongestLife
=============================================================================
