----------------------------- MODULE BrowserJob -----------------------------
(***************************************************************************)
(* One browser job from its submission to its artifacts: create_job's      *)
(* session, the runner on the worker, and the executor that waits for it.  *)
(* The worker's own life is WorkerManager's; here it is up from the claim  *)
(* to the end of the execution or to a cancel.                             *)
(***************************************************************************)
EXTENDS JobTable

CONSTANTS jobId,         \* the job
          Files,         \* what its script may leave in output_dir
          Name,          \* Name[f]: f without its directory, which its key ends with
          MaxFaults      \* bound: how many statements, commits, uploads and
                         \*        connections fail

ASSUME BrowserJobAssumption ==
    /\ jobId \in Jobs
    /\ MaxFaults \in Nat

VARIABLES creation,      \* create_job's session
          runner,        \* run_playwright.py on the worker
          made,          \* what main found in output_dir
          left,          \* the files of it that it has yet to try to upload
          store,         \* the files in the bucket, one for a key
          executor,      \* PlaywrightJobExecutor.execute
          reported,      \* result["artifacts"]
          faults         \* how many failures there were

runnerVars == <<runner, made, left, store>>
executorVars == <<executor, reported>>
processVars == <<jobTableVars, creation, runnerVars, executorVars>>
browserJobVars == <<processVars, faults>>

BrowserJobTypeOK ==
    /\ JobTableTypeOK
    /\ creation \in {"sent", "answered", "kept", "lost"}
    /\ runner \in {"none", "script", "upload", "exited", "quit", "gone"}
    /\ made \subseteq Files /\ left \subseteq Files /\ store \subseteq Files
    /\ executor \in {"none", "polling", "listed", "lost", "done"}
    /\ reported \subseteq Files
    /\ faults \in 0..MaxFaults

BrowserJobInit ==
    /\ JobTableInit
    /\ creation = "sent"
    /\ runner = "none"
    /\ made = {} /\ left = {} /\ store = {}
    /\ executor = "none" /\ reported = {}
    /\ faults = 0

Fault == faults < MaxFaults /\ faults' = faults + 1

-----------------------------------------------------------------------------
\* create_job answers 201, and its session commits or does not.
CreateAnswered ==
    /\ creation = "sent"
    /\ creation' = "answered"
    /\ UNCHANGED <<jobTableVars, runnerVars, executorVars, faults>>

CreateCommits ==
    /\ creation = "answered"
    /\ creation' = "kept"
    /\ CreateJob(jobId)
    /\ UNCHANGED <<runnerVars, executorVars, faults>>

CreateFails ==
    /\ Fault
    /\ creation = "answered"
    /\ creation' = "lost"
    /\ UNCHANGED <<jobTableVars, runnerVars, executorVars>>

Create == CreateAnswered \/ CreateCommits

-----------------------------------------------------------------------------
\* The processor claims the job, and later dispatches its script.
Claim ==
    /\ ClaimNextJob(jobId)
    /\ UNCHANGED <<creation, runnerVars, executorVars, faults>>

Dispatch ==
    /\ claims[jobId] > 0
    /\ executor = "none"
    /\ executor' = "polling"
    /\ runner' = "script"
    /\ UNCHANGED <<jobTableVars, creation, made, left, store, reported, faults>>

\* The script returns or raises an Exception, or the browser does not start: main goes on
\* to the uploads.  A SystemExit passes both except blocks: the process ends with the
\* script's exit code and uploads nothing, as it does when main raises for itself.
ScriptEnds ==
    /\ runner = "script"
    /\ \/ runner' = "upload" /\ made' \in SUBSET Files /\ left' = made'
       \/ runner' = "quit" /\ UNCHANGED <<made, left>>
    /\ UNCHANGED <<jobTableVars, creation, store, executorVars, faults>>

\* Files of one name in different directories have one key: the later replaces the earlier.
Stored(f) == {g \in store : Name[g] # Name[f]} \cup {f}

Upload(f) ==
    /\ runner = "upload" /\ f \in left
    /\ left' = left \ {f}
    /\ \/ store' = Stored(f) /\ UNCHANGED faults
       \/ Fault /\ UNCHANGED store
    /\ UNCHANGED <<jobTableVars, creation, runner, made, executorVars>>

\* Mutant: main returns while uploads are still under way.
RunnerExitsEarly ==
    /\ runner = "upload"
    /\ runner' = "exited"
    /\ UNCHANGED <<jobTableVars, creation, made, left, store, executorVars, faults>>

RunnerExits ==
    /\ runner = "upload" /\ left = {}
    /\ runner' = "exited"
    /\ UNCHANGED <<jobTableVars, creation, made, left, store, executorVars, faults>>

\* The instance is terminated: by a cancel, by the end of the task, or by the reaper.
RunnerKilled ==
    /\ runner \in {"script", "upload"}
    /\ job[jobId] = "cancelled" \/ executor \in {"lost", "done"}
    /\ runner' = "gone" /\ made' = {} /\ left' = {}
    /\ UNCHANGED <<jobTableVars, creation, store, executorVars, faults>>

Runner == ScriptEnds \/ RunnerExits \/ RunnerKilled \/ \E f \in Files : Upload(f)

\* SSM has reported a terminal status: the executor lists what showed up.
ExecutorLists ==
    /\ executor = "polling" /\ runner \in {"exited", "quit"}
    /\ executor' = "listed"
    /\ reported' = store
    /\ UNCHANGED <<jobTableVars, creation, runnerVars, faults>>

ExecutorReturns ==
    /\ executor = "listed"
    /\ executor' = "done"
    /\ CompleteIfRunning(jobId) \/ FailIfRunning(jobId)
    /\ UNCHANGED <<creation, runnerVars, reported, faults>>

Working == claims[jobId] > 0 /\ executor \in {"none", "polling", "listed"}

\* No worker comes up, a call of the executor raises, the script outlives its timeout, or
\* SSM reports anything but Success: a failed job keeps no result.
ExecutorGivesUp ==
    /\ Working
    /\ executor' = "done"
    /\ FailIfRunning(jobId)
    /\ UNCHANGED <<creation, runnerVars, reported, faults>>

Executor == Dispatch \/ ExecutorLists \/ ExecutorReturns \/ ExecutorGivesUp

\* The worker process dies, or the task's own fail or complete raises: the job stays running.
TaskDies ==
    /\ Fault
    /\ Working
    /\ executor' = "lost"
    /\ UNCHANGED <<jobTableVars, creation, runnerVars, reported>>

\* The reaper has terminated the instance and fails the job.  It never does when the row
\* of the worker was closed before the task died.
ReaperFails ==
    /\ executor = "lost" /\ runner \notin {"script", "upload"}
    /\ executor' = "done"
    /\ FailIfRunning(jobId)
    /\ UNCHANGED <<creation, runnerVars, reported, faults>>

\* What goes on for this job whatever its clients do, as long as nothing fails.
Backend == Create \/ Claim \/ Runner \/ Executor

BrowserJobNext == Backend \/ CreateFails \/ TaskDies \/ ReaperFails
=============================================================================
