---------------------------- MODULE JobProcessor ----------------------------
(***************************************************************************)
(* JobProcessor: the poll loop that claims jobs under a semaphore, and     *)
(* _run_job, the asyncio task it starts for each claimed job.  The process *)
(* can die, which loses every task, and be started again.                  *)
(***************************************************************************)
EXTENDS WorkerManager

CONSTANTS MaxConcurrent,   \* settings.max_concurrent_jobs
          Unsupported      \* the jobs whose type no executor is registered for

ASSUME ProcessorAssumption ==
    /\ MaxConcurrent \in Nat \ {0}
    /\ Unsupported \subseteq Jobs

VARIABLES loop,      \* the poll loop: before acquire, before claim, or not running
          permits    \* the value of the semaphore

processorVars == <<loop, permits>>

ProcessorTypeOK ==
    /\ loop \in {"acquire", "claim", "down"}
    /\ permits \in Nat

ProcessorInit == loop = "acquire" /\ permits = MaxConcurrent

Up == loop # "down"

\* The tasks the event loop still knows: background_tasks.
Tasks == {j \in Jobs : pc[j] \notin {"idle", "done", "lost"}}

-----------------------------------------------------------------------------
\* Mutant: the loop does not wait for a permit.
AcquireAtOnce ==
    /\ loop = "acquire"
    /\ permits' = permits - 1
    /\ loop' = "claim"
    /\ UNCHANGED <<row, managerVars, jobTableVars>>

\* run_forever
Acquire ==
    /\ loop = "acquire"
    /\ permits > 0
    /\ permits' = permits - 1
    /\ loop' = "claim"
    /\ UNCHANGED <<row, managerVars, jobTableVars>>

\* claim_next_job returned a job: its task starts, the permit stays taken.
ClaimJob ==
    /\ loop = "claim"
    /\ \E j \in Jobs : ClaimNextJob(j) /\ Goto(j, "start")
    /\ loop' = "acquire"
    /\ UNCHANGED <<permits, row, ec2, seen>>

\* Mutant: the permit is not given back.
ClaimNothingKeepsPermit ==
    /\ loop = "claim"
    /\ Claimable = {}
    /\ loop' = "acquire"
    /\ UNCHANGED <<permits, row, managerVars, jobTableVars>>

\* claim_next_job returned None: the permit goes back.
ClaimNothing ==
    /\ loop = "claim"
    /\ Claimable = {}
    /\ permits' = permits + 1
    /\ loop' = "acquire"
    /\ UNCHANGED <<row, managerVars, jobTableVars>>

PollLoop == Acquire \/ ClaimJob \/ ClaimNothing

-----------------------------------------------------------------------------
\* _run_job: without an executor the job fails at once.
TaskStart(j) ==
    /\ At(j, "start")
    /\ \/ j \notin Unsupported /\ ProvisionCreate(j)
       \/ /\ j \in Unsupported
          /\ Goto(j, "failJob")
          /\ UNCHANGED <<row, ec2, seen, jobTableVars>>

TaskProvision(j) ==
    \/ ProvisionLaunch(j)
    \/ ProvisionRecord(j)
    \/ ProvisionWait(j)
    \/ ProvisionReady(j)
    \/ ProvisionMarkFailed(j)
    \/ ProvisionUndo(j)

\* executor.execute under wait_for: it succeeds, or it fails, raises or times out.
TaskExecute(j) ==
    /\ At(j, "execute")
    /\ Goto(j, "complete") \/ Goto(j, "fail")
    /\ UNCHANGED <<row, ec2, seen, jobTableVars>>

\* Mutant: complete() and fail() pass over a row that a cancel has locked.
TaskFinishSkipsLocked(j) ==
    /\ \/ At(j, "complete") /\ (CompleteIfRunning(j) \/ (Locked(j) /\ UNCHANGED jobTableVars))
       \/ At(j, "fail") /\ (FailIfRunning(j) \/ (Locked(j) /\ UNCHANGED jobTableVars))
    /\ Goto(j, "get")
    /\ UNCHANGED <<row, ec2, seen>>

\* complete() or fail() after execution, and then the teardown.
TaskFinish(j) ==
    /\ \/ At(j, "complete") /\ CompleteIfRunning(j)
       \/ At(j, "fail") /\ FailIfRunning(j)
    /\ Goto(j, "get")
    /\ UNCHANGED <<row, ec2, seen>>

\* fail() where no worker is left to tear down.
TaskFailJob(j) ==
    /\ At(j, "failJob")
    /\ FailIfRunning(j)
    /\ Goto(j, "returned")
    /\ UNCHANGED <<row, ec2, seen>>

\* A statement or the teardown raises out of _run_job.
TaskRaises(j) ==
    /\ \/ (\E step \in {"complete", "fail", "failJob"} : At(j, step)) /\ MayFail("db")
       \/ TeardownRaises(j)
    /\ Goto(j, "returned")
    /\ UNCHANGED <<row, ec2, seen, jobTableVars>>

\* _on_job_task_done
TaskDone(j) ==
    /\ At(j, "returned")
    /\ Goto(j, "done")
    /\ permits' = permits + 1
    /\ UNCHANGED <<loop, row, ec2, seen, jobTableVars>>

TaskStep(j) ==
    \/ /\ \/ TaskStart(j)
          \/ TaskProvision(j)
          \/ TaskExecute(j)
          \/ TaskFinish(j)
          \/ TaskFailJob(j)
          \/ Teardown(j)
          \/ TaskRaises(j)
       /\ UNCHANGED processorVars
    \/ TaskDone(j)

-----------------------------------------------------------------------------
\* The process dies: it is killed, or claim_next_job raises, which run_forever
\* does not catch, so that asyncio.gather ends the process with every task in it.
ProcessDies ==
    /\ \/ Up /\ MayFail("process")
       \/ loop = "claim" /\ MayFail("db")
    /\ loop' = "down"
    /\ pc' = [a \in Actors |-> IF a \in Tasks THEN "lost" ELSE pc[a]]
    /\ UNCHANGED <<permits, row, ec2, seen, jobTableVars>>

\* A new process: an empty event loop and a fresh semaphore.
Restart ==
    /\ loop = "down"
    /\ loop' = "acquire"
    /\ permits' = MaxConcurrent
    /\ UNCHANGED <<row, managerVars, jobTableVars>>
=============================================================================
