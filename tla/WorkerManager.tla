---------------------------- MODULE WorkerManager ----------------------------
(***************************************************************************)
(* WorkerManager and the EC2 provisioner it drives: provision_worker, run  *)
(* by the task of a job, and terminate_worker_for_job, run by that task    *)
(* when execution is over and by a cancel request.  One action per awaited *)
(* call; everything between two awaits belongs to the action before it.    *)
(***************************************************************************)
EXTENDS WorkerTable

\* The kinds of failure of this instance.  "process": the worker process dies;
\* "api": the API process dies; "db": any statement raises; "terminate":
\* terminate_instances raises; "launch": run_instances starts an instance and
\* its answer is lost.
CONSTANT Faulty

ASSUME FaultyAssumption == Faulty \subseteq {"process", "api", "db", "terminate", "launch"}

VARIABLES ec2,       \* ec2[j]: the instance launched for j
          pc,        \* pc[a]: the await at which the coroutine of actor a is suspended
          seen       \* seen[a]: the row terminate_worker_for_job last read for a

managerVars == <<ec2, pc, seen>>

\* The task of job j is the actor j; a cancel request is an actor too.
Actors == Jobs \cup Requests
JobOf(a) == IF a \in Jobs THEN a ELSE target[a]

Ec2State == {"none", "running", "terminated"}

\* provision_worker; terminate_worker_for_job; the rest of _run_job; of cancel_job.
ProvisionSteps == {"launch", "record", "ssm", "ready", "abort", "abortInstance", "undo"}
TeardownSteps == {"get", "mark", "kill", "finish"}
TaskSteps == {"start", "execute", "complete", "fail", "failJob"}
RequestSteps == {"cancel", "respond", "commit"}
PC == ProvisionSteps \cup TeardownSteps \cup TaskSteps \cup RequestSteps
        \cup {"idle", "returned", "done", "lost"}

ManagerTypeOK ==
    /\ ec2 \in [Jobs -> Ec2State]
    /\ pc \in [Actors -> PC]
    /\ seen \in [Actors -> Row]

ManagerInit ==
    /\ ec2 = [j \in Jobs |-> "none"]
    /\ pc = [a \in Actors |-> "idle"]
    /\ seen = [a \in Actors |-> NoRow]

\* Resume actor a at one of its awaits, and suspend it at another.
At(a, step) == pc[a] = step
Goto(a, step) == pc' = [pc EXCEPT ![a] = step]

MayFail(fault) == fault \in Faulty

\* Where a goes when terminate_worker_for_job returns.
Returned(a) == IF a \in Jobs THEN "returned" ELSE "respond"

-----------------------------------------------------------------------------
\* The provisioner.  A terminated instance never runs again.
Launch(j) == ec2' = [ec2 EXCEPT ![j] = "running"]

Terminate(j) == ec2' = [ec2 EXCEPT ![j] = IF @ = "running" THEN "terminated" ELSE @]

-----------------------------------------------------------------------------
\* provision_worker: the row is created before the try block, so a failure
\* leaves nothing to mark and is handled by _run_job.
ProvisionCreate(j) ==
    \/ /\ CreateWorker(j)
       /\ Goto(j, "launch")
       /\ UNCHANGED <<ec2, seen, jobTableVars>>
    \/ /\ MayFail("db")
       /\ Goto(j, "failJob")
       /\ UNCHANGED <<ec2, seen, row, jobTableVars>>

\* run_instances: it answers, it raises, or it starts an instance nobody hears of.
ProvisionLaunch(j) ==
    /\ At(j, "launch")
    /\ \/ Launch(j) /\ Goto(j, "record")
       \/ Goto(j, "abort") /\ UNCHANGED ec2
       \/ MayFail("launch") /\ Launch(j) /\ Goto(j, "abort")
    /\ UNCHANGED <<row, seen, jobTableVars>>

\* mark_provisioning, which stores the instance id.
ProvisionRecord(j) ==
    /\ At(j, "record")
    /\ \/ SetStatus(j, "provisioning") /\ Goto(j, "ssm")
       \/ MayFail("db") /\ Goto(j, "abortInstance") /\ UNCHANGED row
    /\ UNCHANGED <<ec2, seen, jobTableVars>>

\* wait_until_ssm_ready: ready, or a timeout or an exception.  An instance that
\* is no longer running can still be listed by SSM, so ec2 is not consulted.
ProvisionWait(j) ==
    /\ At(j, "ssm")
    /\ Goto(j, "ready") \/ Goto(j, "abortInstance")
    /\ UNCHANGED <<row, ec2, seen, jobTableVars>>

\* mark_ready: the row becomes READY whatever it says by then.
ProvisionReady(j) ==
    /\ At(j, "ready")
    /\ \/ SetStatus(j, "ready") /\ Goto(j, "execute")
       \/ MayFail("db") /\ Goto(j, "abortInstance") /\ UNCHANGED row
    /\ UNCHANGED <<ec2, seen, jobTableVars>>

\* Mutant: the launched instance is not terminated.
ProvisionMarkFailedOnly(j) ==
    /\ At(j, "abort") \/ At(j, "abortInstance")
    /\ SetStatus(j, "failed")
    /\ Goto(j, "failJob")
    /\ UNCHANGED <<ec2, seen, jobTableVars>>

\* The except block: mark_failed first, and then the instance, if its id is known.
ProvisionMarkFailed(j) ==
    /\ At(j, "abort") \/ At(j, "abortInstance")
    /\ \/ /\ SetStatus(j, "failed")
          /\ Goto(j, IF At(j, "abortInstance") THEN "undo" ELSE "failJob")
       \/ MayFail("db") /\ Goto(j, "failJob") /\ UNCHANGED row
    /\ UNCHANGED <<ec2, seen, jobTableVars>>

ProvisionUndo(j) ==
    /\ At(j, "undo")
    /\ Terminate(j) \/ (MayFail("terminate") /\ UNCHANGED ec2)
    /\ Goto(j, "failJob")
    /\ UNCHANGED <<row, seen, jobTableVars>>

-----------------------------------------------------------------------------
\* terminate_worker_for_job, as actor a runs it.  The caller's own exception
\* paths (a rollback, for a request) are its own actions.
NothingToTerminate(worker) == worker.status \in {"none"} \cup FinishedWorker

TeardownGet(a) ==
    /\ At(a, "get")
    /\ seen' = [seen EXCEPT ![a] = row[JobOf(a)]]
    /\ Goto(a, IF NothingToTerminate(row[JobOf(a)]) THEN Returned(a) ELSE "mark")
    /\ UNCHANGED <<row, ec2, jobTableVars>>

\* Mutant: the row is closed before the instance is terminated.
TeardownMarkTerminated(a) ==
    /\ At(a, "mark")
    /\ SetStatus(JobOf(a), "terminated")
    /\ Goto(a, IF seen[a].instance THEN "kill" ELSE "finish")
    /\ IF a \in Requests THEN CommitCancel(a) ELSE UNCHANGED jobTableVars
    /\ UNCHANGED <<ec2, seen>>

\* Mutant: mark_terminating only flushes, and the cancel commits with its request.
TeardownMarkFlushed(a) ==
    /\ At(a, "mark")
    /\ MarkTerminating(JobOf(a), seen[a].status)
    /\ Goto(a, IF seen[a].instance THEN "kill" ELSE "finish")
    /\ UNCHANGED <<ec2, seen, jobTableVars>>

\* mark_terminating commits the session: a cancel left open in it commits too.
TeardownMark(a) ==
    /\ At(a, "mark")
    /\ MarkTerminating(JobOf(a), seen[a].status)
    /\ Goto(a, IF seen[a].instance THEN "kill" ELSE "finish")
    /\ IF a \in Requests THEN CommitCancel(a) ELSE UNCHANGED jobTableVars
    /\ UNCHANGED <<ec2, seen>>

\* Mutant: a failing terminate_instances is swallowed.
TeardownKillQuietly(a) ==
    /\ At(a, "kill")
    /\ Terminate(JobOf(a)) \/ (MayFail("terminate") /\ UNCHANGED ec2)
    /\ Goto(a, "finish")
    /\ UNCHANGED <<row, seen, jobTableVars>>

TeardownKill(a) ==
    /\ At(a, "kill")
    /\ Terminate(JobOf(a))
    /\ Goto(a, "finish")
    /\ UNCHANGED <<row, seen, jobTableVars>>

TeardownFinish(a) ==
    /\ At(a, "finish")
    /\ SetStatus(JobOf(a), "terminated")
    /\ Goto(a, Returned(a))
    /\ UNCHANGED <<ec2, seen, jobTableVars>>

Teardown(a) == TeardownGet(a) \/ TeardownMark(a) \/ TeardownKill(a) \/ TeardownFinish(a)

\* The exceptions of the calls above.
TeardownRaises(a) ==
    \/ At(a, "kill") /\ MayFail("terminate")
    \/ (\E step \in {"get", "mark", "finish"} : At(a, step)) /\ MayFail("db")
=============================================================================
