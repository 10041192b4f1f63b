----------------------------- MODULE CloudWorker -----------------------------
(***************************************************************************)
(* CloudWorker: the API process, whose requests create and cancel jobs,    *)
(* and the worker process, whose poll loop, job tasks and reaper share an  *)
(* event loop.  They meet only in the two tables and in EC2.               *)
(***************************************************************************)
EXTENDS JobProcessor, CancelEndpoint, WorkerReaper

\* Whether a row may grow stale while a live coroutine is about to update it.
\* core/config.py sets worker_stale_after_seconds so that it does not.
CONSTANT StaleWhileAttended

ASSUME StalenessAssumption == StaleWhileAttended \in BOOLEAN

vars == <<jobTableVars, row, managerVars, processorVars, existing, reaperVars>>

TypeOK ==
    /\ JobTableTypeOK
    /\ WorkerTableTypeOK
    /\ ManagerTypeOK
    /\ ProcessorTypeOK
    /\ EndpointTypeOK
    /\ ReaperTypeOK

Init ==
    /\ JobTableInit
    /\ WorkerTableInit
    /\ ManagerInit
    /\ ProcessorInit
    /\ EndpointInit
    /\ ReaperInit

-----------------------------------------------------------------------------
\* The API process.
Submit(j) == SubmitJob(j) /\ UNCHANGED <<processorVars, reaperVars>>

StartCancel(r) == CancelRead(r) /\ UNCHANGED <<processorVars, reaperVars>>

Request(r) == CancelStep(r) /\ UNCHANGED <<processorVars, reaperVars>>

\* The worker process.
Poll == PollLoop /\ UNCHANGED <<existing, reaperVars>>

Task(j) == TaskStep(j) /\ UNCHANGED <<existing, reaperVars>>

Reaper ==
    /\ Up
    /\ ReapList \/ ReapRaises \/ \E j \in Jobs : ReapWorker(j)
    /\ UNCHANGED <<processorVars, existing>>

Crash == ProcessDies /\ ReapForgets /\ UNCHANGED existing

StartProcess == Restart /\ UNCHANGED <<existing, reaperVars>>

\* Time: a coroutine attends a row while it still has to write it.
TaskAttends(j) == pc[j] \notin {"idle", "returned", "done", "lost"}
Attended(j) ==
    \/ TaskAttends(j)
    \/ \E r \in Requests : target[r] = j /\ pc[r] \in TeardownSteps

Age(j) ==
    /\ GrowStale(j)
    /\ StaleWhileAttended \/ ~Attended(j)
    /\ UNCHANGED <<jobTableVars, managerVars, processorVars, existing, reaperVars>>

Next ==
    \/ \E j \in Jobs : Submit(j) \/ Task(j) \/ Age(j)
    \/ \E r \in Requests : StartCancel(r) \/ Request(r)
    \/ Poll
    \/ Reaper
    \/ Crash
    \/ StartProcess

Spec == Init /\ [][Next]_vars

\* A suspended coroutine is resumed once its await is over; the loops poll on;
\* time passes; a dead process is started again.  A crash is never due, and
\* neither is a client's request.  The reaper tries again at every poll, and the
\* calls it makes can fail again and again but not for ever.
Fairness ==
    /\ \A j \in Jobs : WF_vars(Task(j)) /\ WF_vars(Age(j))
    /\ \A r \in Requests : WF_vars(Request(r))
    /\ WF_vars(Poll)
    /\ WF_vars(Reaper)
    /\ \A j \in Jobs :
         /\ SF_vars(Reaper /\ ReapTerminate(j))
         /\ SF_vars(Reaper /\ ReapMarkFailed(j))
         /\ SF_vars(Reaper /\ ReapFailJob(j))
    /\ WF_vars(StartProcess)

FairSpec == Spec /\ Fairness

-----------------------------------------------------------------------------
\* The table of jobs implements the abstract life cycle.
Lifecycle == INSTANCE JobLifecycle WITH Jobs <- Jobs, job <- job, claims <- claims
RefinesLifecycle == Lifecycle!LifecycleSpec

\* A job is claimed at most once, so its worker row is its only one: get_by_job_id
\* (scalar_one_or_none) and row[j] rest on it.
ClaimedOnce == \A j \in Jobs : claims[j] <= 1

\* The semaphore neither leaks nor duplicates a permit: run_forever, every task and
\* the done callback hand each one on exactly once.
PermitsConserved ==
    Up => permits + Cardinality(Tasks) + (IF loop = "claim" THEN 1 ELSE 0) = MaxConcurrent

\* cloudworker_jobs_total counts a job once, when it becomes terminal: the cancel
\* endpoint may have committed and not yet counted, or counted and not yet committed.
BetweenCommitAndCount(j) ==
    \E r \in Requests : target[r] = j /\ pc[r] \in {"kill", "finish", "respond", "commit"}
CountedOnce ==
    \A j \in Jobs :
        \/ jobsTotal[j] = (IF job[j] \in Terminal THEN 1 ELSE 0)
        \/ BetweenCommitAndCount(j) /\ jobsTotal[j] <= 1

\* The reaper will find the instance of j: the row is open and knows its id.
Reapable(j) == row[j].status \in NonTerminalWorker /\ row[j].instance

\* A task that will still act on the instance it knows.
Held(j) ==
    \/ pc[j] \in {"record", "ssm", "ready", "abortInstance", "undo"}
    \/ pc[j] \in {"mark", "kill"} /\ seen[j].instance

\* A cancel request tore the worker of j down without an instance id.
CancelledBlind(j) ==
    \E r \in Requests : target[r] = j /\ seen[r].status # "none" /\ ~seen[r].instance

\* While nothing crashes or raises, no instance runs that neither its task nor the
\* reaper would terminate, but for one whose worker a cancel closed unseen.
NoOrphan ==
    \A j \in Jobs : ec2[j] = "running" => Held(j) \/ Reapable(j) \/ CancelledBlind(j)

\* The reaper failed a live worker it had listed without an instance id, which only
\* a cutoff shorter than the longest step of a task allows.
ReapedBlind(j) == StaleWhileAttended /\ row[j].status = "failed" /\ ~listed[j]

\* From the moment a worker is READY its instance is never lost, whatever crashes
\* or raises: until it is terminated the row stays open for the reaper, unless
\* somebody acted on the row as it was before the id was stored.
ReadyReapable ==
    \A j \in Jobs :
        row[j].ready /\ ec2[j] = "running"
            => Reapable(j) \/ CancelledBlind(j) \/ ReapedBlind(j)

\* A worker marked TERMINATED has no running instance, with the first exception.
TerminatedMeansGone ==
    \A j \in Jobs :
        row[j].status = "terminated" => ec2[j] # "running" \/ CancelledBlind(j)

\* A running job has a task that will settle it, unless that task died with its process
\* or one of its own statements raised: cancels, the reaper and the teardown never take a
\* job away from its task without ending it, even when they are rolled back.
Working(j) == pc[j] \in ProvisionSteps \cup TaskSteps
RunningIsOwned ==
    \A j \in Jobs :
        job[j] = "running"
            => \/ Working(j) \/ pc[j] = "lost"
               \/ MayFail("db") /\ pc[j] \in {"returned", "done"}

\* While its job is running a task works on an instance that runs: a cancel has committed
\* before it terminates anything, and the reaper leaves rows alone that a task attends.
OnWorker(j) == pc[j] \in {"record", "ssm", "ready", "execute", "complete", "fail"}
WorksOnLiveWorker ==
    \A j \in Jobs :
        OnWorker(j) /\ job[j] = "running" => ec2[j] = "running" \/ StaleWhileAttended

\* Nobody waits for somebody who waits.  The claim of a row, its complete or fail and a
\* second cancel wait for the request that has locked it, and that one waits for nobody:
\* it ends its transaction, whatever raises.  The poll loop waits for a permit only while
\* a task has one to give back.
NoStandstill ==
    /\ \A r \in Requests : cancelTxn[r] => pc[r] \in {"get", "mark", "respond", "commit"}
    /\ Up /\ loop = "acquire" /\ permits = 0 => Tasks # {}

-----------------------------------------------------------------------------
\* Every job that is queued reaches a terminal status.
JobsEnd == \A j \in Jobs : job[j] = "queued" ~> job[j] \in Terminal

\* Every instance that runs is terminated, if the process stops crashing.
InstancesEnd ==
    <>[]Up => \A j \in Jobs : ec2[j] = "running" ~> ec2[j] # "running"

\* So is every instance, cancels included, but for the same exception.
OwnedInstancesEnd ==
    <>[]Up => \A j \in Jobs :
                 ec2[j] = "running" ~> ec2[j] # "running" \/ CancelledBlind(j)

\* A worker that became READY loses its instance, if the process stops crashing.
ReadyInstancesEnd ==
    <>[]Up => \A j \in Jobs : row[j].ready ~> ec2[j] # "running"

\* A worker left TERMINATING is brought to an end, by its task or by the reaper.
TerminatingEnds ==
    <>[]Up => \A j \in Jobs :
                 row[j].status = "terminating" ~> row[j].status \in FinishedWorker

\* The job of a worker that the reaper can see does not stay running.
ReapedJobsEnd ==
    <>[]Up => \A j \in Jobs :
                 row[j].status \in NonTerminalWorker /\ job[j] = "running"
                     ~> job[j] \in Terminal
=============================================================================
