----------------------------- MODULE OrphanProofs -----------------------------
(***************************************************************************)
(* While nothing crashes or raises, no instance is left behind but by a    *)
(* blind cancel: NoOrphan, for every set of jobs and requests.             *)
(***************************************************************************)
EXTENDS CleanupProofs

\* No call of the worker process raises or loses its answer, the process does not die, and
\* the reaper's cutoff is long enough.  Cancel requests may be cut off anywhere.
Undisturbed == Faulty \subseteq {"api"} /\ ~StaleWhileAttended

\* A launch that raised started nothing; and NoOrphan for one job.
OwnedOK(j) ==
    /\ pc[j] = "abort" => ec2[j] # "running"
    /\ ec2[j] = "running" => Held(j) \/ Reapable(j) \/ CancelledBlind(j)

OwnedInv == \A j \in Jobs : OwnedOK(j)

LEMMA Quiet ==
  ASSUME Undisturbed
  PROVE  /\ ~MayFail("process") /\ ~MayFail("db") /\ ~MayFail("terminate")
         /\ ~MayFail("launch")
  BY DEF Undisturbed, MayFail

LEMMA OwnedUntouched ==
  ASSUME NEW k \in Jobs, OwnedOK(k), CancelledBlind(k) => CancelledBlind(k)',
         row'[k] = row[k], ec2'[k] = ec2[k], pc'[k] = pc[k], seen'[k] = seen[k]
  PROVE  OwnedOK(k)'
  BY DEF OwnedOK, Held, Reapable

-----------------------------------------------------------------------------
\* The task of a job holds the instance it has launched until the row is READY, and takes
\* it back for the teardown.
LEMMA OwnedTask ==
  ASSUME TypeOK, ControlInv, CleanupInv, OwnedInv, Undisturbed, NEW j \in Jobs, Task(j)
  PROVE  OwnedInv'
  <1>0. /\ WorkerTableTypeOK
        /\ pc \in [Actors -> PC] /\ j \in Actors /\ j \notin Requests /\ JobOf(j) = j
        /\ ec2 \in [Jobs -> Ec2State] /\ seen \in [Actors -> Row]
        /\ TaskOK(j) /\ TeardownOK(j) /\ OwnedOK(j)
    BY JobsAssumption
       DEF TypeOK, ManagerTypeOK, Actors, CleanupInv, JobOK, JobOf, OwnedInv
  <1>1. CancelledBlind(j) => CancelledBlind(j)'
    BY <1>0, TaskLocal, BlindStable DEF Actors
  <1>2. ASSUME NEW k \in Jobs \ {j}
        PROVE  OwnedOK(k)'
    <2>1. CancelledBlind(k) => CancelledBlind(k)'
      BY <1>0, TaskLocal, BlindStable, JobsAssumption DEF Actors
    <2> QED
      BY <2>1, TaskLocal, OwnedUntouched DEF Actors, OwnedInv
  <1>3. OwnedOK(j)'
    <2> USE <1>0, <1>1, Quiet DEF At, Goto, OwnedOK
    <2>1. CASE TaskStart(j)
      BY <2>1 DEF TaskStart, ProvisionCreate, TaskOK, BeforeLaunch
    <2>2. CASE ProvisionLaunch(j)
      BY <2>2 DEF ProvisionLaunch, Launch, Held, TaskOK, BeforeLaunch
    <2>3. CASE ProvisionRecord(j) \/ ProvisionWait(j)
      BY <2>3 DEF ProvisionRecord, ProvisionWait, Held
    <2>4. CASE ProvisionReady(j)
      BY <2>4, SetStatusFields
         DEF ProvisionReady, TaskOK, Reapable, WorkerStatus, NonTerminalWorker
    <2>5. CASE ProvisionMarkFailed(j)
      BY <2>5 DEF ProvisionMarkFailed, Held
    <2>6. CASE ProvisionUndo(j)
      BY <2>6 DEF ProvisionUndo, Terminate
    <2>7. CASE TaskExecute(j) \/ TaskFinish(j) \/ TaskFailJob(j) \/ TaskDone(j)
      BY <2>7 DEF TaskExecute, TaskFinish, TaskFailJob, TaskDone, Held, Reapable
    <2>8. CASE TeardownGet(j)
      BY <2>8 DEF TeardownGet, Returned, Held, Reapable
    <2>9. CASE TeardownMark(j)
      BY <2>9 DEF TeardownMark, Held, TaskOK
    <2>10. CASE TeardownKill(j)
      BY <2>10 DEF TeardownKill, Terminate
    <2>11. CASE TeardownFinish(j)
      BY <2>11 DEF TeardownFinish, Returned, TaskOK, TeardownOK
    <2>12. CASE TaskRaises(j)
      BY <2>12 DEF TaskRaises, TeardownRaises
    <2> QED
      BY <2>1, <2>2, <2>3, <2>4, <2>5, <2>6, <2>7, <2>8, <2>9, <2>10, <2>11, <2>12
         DEF Task, TaskStep, TaskProvision, Teardown
  <1> QED
    BY <1>2, <1>3 DEF OwnedInv

\* A cancel request keeps the row open, has terminated the instance, or was blind.
LEMMA OwnedRequest ==
  ASSUME TypeOK, CleanupInv, OwnedInv, NEW r \in Requests, StartCancel(r) \/ Request(r)
  PROVE  OwnedInv'
  <1> PICK j \in Jobs : j = target[r]
    BY DEF TypeOK, JobTableTypeOK
  <1>0. r \in Actors /\ r \notin Jobs /\ JobOf(r) = j /\ TeardownOK(r) /\ RequestOK(r)
    BY JobsAssumption DEF Actors, JobOf, CleanupInv
  <1>1. ASSUME NEW k \in Jobs
        PROVE  CancelledBlind(k) => CancelledBlind(k)'
    BY RequestLocal, BlindStable DEF Actors
  <1>2. ASSUME NEW k \in Jobs \ {j}
        PROVE  OwnedOK(k)'
    BY <1>0, <1>1, RequestLocal, OwnedUntouched DEF Actors, OwnedInv
  <1>3. OwnedOK(j)'
    <2>1. /\ OwnedOK(j)
          /\ pc'[j] = pc[j] /\ seen'[j] = seen[j] /\ target' = target
      BY <1>0, RequestLocal DEF Actors, OwnedInv
    <2>2. CASE row'[j].status = "terminated" /\ pc[r] = "finish" /\ seen'[r] = seen[r]
               /\ ec2'[j] = ec2[j]
      BY <1>0, <2>1, <2>2 DEF OwnedOK, TeardownOK, CancelledBlind
    <2>3. CASE row'[j] = row[j] \/ row'[j].status = "terminating"
      BY <1>1, <2>1, <2>3, RequestTarget
         DEF OwnedOK, Held, Reapable, NonTerminalWorker
    <2> QED
      BY <2>2, <2>3, RequestTarget
  <1> QED
    BY <1>2, <1>3 DEF OwnedInv

\* The reaper closes a row whose instance it has terminated, or that never had one.
LEMMA OwnedReaper ==
  ASSUME TypeOK, CleanupInv, OwnedInv, Undisturbed, Reaper
  PROVE  OwnedInv'
  <1>1. ASSUME NEW j \in Jobs, ReapTerminate(j)
        PROVE  OwnedInv'
    <2>1. /\ UNCHANGED <<row, pc, seen, target>>
          /\ \A k \in Jobs : ec2'[k] = ec2[k] \/ ec2'[k] = "terminated"
      BY <1>1 DEF ReapTerminate, Terminate, jobTableVars, TypeOK, ManagerTypeOK
    <2> QED
      BY <2>1 DEF OwnedInv, OwnedOK, Held, Reapable, CancelledBlind
  <1>2. ASSUME NEW j \in Jobs, ReapMarkFailed(j)
        PROVE  OwnedInv'
    <2>1. /\ SetStatus(j, "failed") /\ UNCHANGED <<ec2, pc, seen, target>>
          /\ reap[j] = "markFailed"
      BY <1>2 DEF ReapMarkFailed, managerVars, jobTableVars
    <2>2. \A k \in Jobs \ {j} : row'[k] = row[k]
      BY <2>1, SetStatusFields DEF TypeOK, WorkerStatus, FinishedWorker
    <2>3. \A k \in Jobs : CancelledBlind(k) => CancelledBlind(k)'
      BY <2>1 DEF CancelledBlind
    <2>4. ReaperOK(j) /\ StaleOK(j) /\ OwnedOK(j)
      BY DEF CleanupInv, JobOK, OwnedInv
    <2>5. OwnedOK(j)'
      BY <2>1, <2>3, <2>4
         DEF ReaperOK, StaleOK, Undisturbed, Abandoned, OwnedOK, Held, Reapable
    <2> QED
      BY <2>1, <2>2, <2>3, <2>5, OwnedUntouched DEF OwnedInv
  <1>3. CASE ReapList \/ ReapRaises \/ \E j \in Jobs : ReapFailJob(j)
    <2>1. UNCHANGED <<row, ec2, pc, seen, target>>
      BY <1>3 DEF ReapList, ReapRaises, ReapForgets, ReapFailJob, FailIfRunning,
                  FinishIfRunning, managerVars, jobTableVars
    <2> QED
      BY <2>1 DEF OwnedInv, OwnedOK, Held, Reapable, CancelledBlind
  <1> QED
    BY <1>1, <1>2, <1>3 DEF Reaper, ReapWorker

LEMMA OwnedStep ==
  ASSUME TypeOK, ControlInv, CleanupInv, OwnedInv, Undisturbed, [Next]_vars
  PROVE  OwnedInv'
  <1>1. CASE UNCHANGED <<row, ec2, pc, seen, target>>
    BY <1>1 DEF OwnedInv, OwnedOK, Held, Reapable, CancelledBlind
  <1>2. CASE UNCHANGED vars \/ StartProcess \/ \E j \in Jobs : Submit(j)
    BY <1>1, <1>2 DEF vars, StartProcess, Restart, Submit, SubmitJob, CreateJob, managerVars,
                      jobTableVars
  <1>3. ASSUME NEW j \in Jobs, Age(j)
        PROVE  OwnedInv'
    <2>1. /\ UNCHANGED <<ec2, pc, seen, target>>
          /\ \A k \in Jobs : /\ row'[k].status = row[k].status
                             /\ row'[k].instance = row[k].instance
      BY <1>3 DEF Age, GrowStale, managerVars, jobTableVars, TypeOK, WorkerTableTypeOK, Row
    <2> QED
      BY <2>1 DEF OwnedInv, OwnedOK, Held, Reapable, CancelledBlind
  <1>4. CASE Poll
    <2>1. CASE ClaimJob
      <3> PICK j \in Jobs : ClaimNextJob(j) /\ Goto(j, "start")
        BY <2>1 DEF ClaimJob
      <3>1. /\ UNCHANGED <<row, ec2, seen, target>>
            /\ \A k \in Jobs \ {j} : pc'[k] = pc[k]
            /\ pc'[j] = "start" /\ pc[j] = "idle"
        BY <2>1 DEF ClaimJob, ClaimNextJob, Claimable, ControlInv, ClaimInv, Goto, TypeOK,
                    ManagerTypeOK, Actors
      <3>2. ec2[j] = "none"
        BY <3>1 DEF CleanupInv, JobOK, TaskOK, BeforeLaunch
      <3> QED
        BY <3>1, <3>2 DEF OwnedInv, OwnedOK, Held, Reapable, CancelledBlind
    <2> QED
      BY <1>1, <1>4, <2>1
         DEF Poll, PollLoop, Acquire, ClaimNothing, managerVars, jobTableVars
  <1>5. ~Crash
    BY Quiet DEF Crash, ProcessDies
  <1> QED
    BY <1>2, <1>3, <1>4, <1>5, OwnedTask, OwnedRequest, OwnedReaper DEF Next

\* While nothing in the worker process crashes or raises, every instance that runs is held
\* by its task or can be found by the reaper, but for one whose worker a cancel closed
\* before the instance id was stored (WorkerManager, reap_once).
THEOREM NoneOrphaned ==
  ASSUME Undisturbed
  PROVE  Spec => []NoOrphan
  <1>1. Init => OwnedInv
    BY DEF Init, ManagerInit, OwnedInv, OwnedOK, Actors
  <1>2. OwnedInv => NoOrphan
    BY DEF OwnedInv, OwnedOK, NoOrphan
  <1> QED
    BY <1>1, <1>2, OwnedStep, TypeCorrect, Control, Cleanup, PTL DEF Spec
-----------------------------------------------------------------------------
(***************************************************************************)
(* No instance is terminated under a task whose job is still running.      *)
(***************************************************************************)

\* A cancel that is about to read or to mark the worker still holds its lock, and one that
\* is about to terminate the instance has cancelled the job for good.
TearingInv ==
    \A r \in Requests :
        /\ pc[r] \in {"get", "mark"} => cancelTxn[r]
        /\ pc[r] \in {"kill", "finish"} => job[target[r]] = "cancelled"

\* The steps of a request before and in its teardown.
LEMMA TearingMoves ==
  ASSUME TypeOK, NEW r \in Requests, StartCancel(r) \/ Request(r)
  PROVE  /\ \A q \in Requests \ {r} : pc'[q] = pc[q] /\ (cancelTxn'[q] <=> cancelTxn[q])
         /\ \/ pc'[r] \notin TeardownSteps
            \/ pc'[r] = "get" /\ OpenCancel(r)
            \/ pc[r] = "get" /\ pc'[r] = "mark" /\ UNCHANGED jobTableVars
            \/ pc[r] = "mark" /\ CommitCancel(r) /\ pc'[r] \in {"kill", "finish"}
            \/ pc[r] = "kill" /\ pc'[r] = "finish" /\ UNCHANGED jobTableVars
  <1>0. /\ pc \in [Actors -> PC] /\ r \in Actors /\ r \notin Jobs /\ Requests \subseteq Actors
        /\ cancelTxn \in [Requests -> BOOLEAN]
    BY JobsAssumption DEF TypeOK, ManagerTypeOK, JobTableTypeOK, Actors
  <1>1. \A q \in Requests \ {r} : pc'[q] = pc[q]
    BY <1>0, RequestGoto DEF Goto
  <1>2. \A q \in Requests \ {r} : cancelTxn'[q] <=> cancelTxn[q]
    BY <1>0, RequestJobs DEF OpenCancel, CommitCancel, RollbackCancel, jobTableVars
  <1> USE <1>0 DEF At, Goto, TeardownSteps
  <1>3. CASE StartCancel(r)
    BY <1>1, <1>2, <1>3 DEF StartCancel, CancelRead
  <1>4. CASE CancelUpdate(r)
    BY <1>1, <1>2, <1>4 DEF CancelUpdate
  <1>5. CASE CancelConflict(r) \/ CancelRespond(r) \/ CancelCommit(r) \/ CancelRaises(r)
    BY <1>1, <1>2, <1>5 DEF CancelConflict, CancelRespond, CancelCommit, CancelRaises
  <1>6. CASE Teardown(r)
    BY <1>1, <1>2, <1>6 DEF Teardown, TeardownGet, TeardownMark, TeardownKill, TeardownFinish,
                            Returned
  <1> QED
    BY <1>3, <1>4, <1>5, <1>6 DEF Request, CancelStep

\* Only requests open, commit and roll back cancels, and move requests.
LEMMA RequestsRest ==
  ASSUME TypeOK, [Next]_vars, ~(\E r \in Requests : StartCancel(r) \/ Request(r)),
         NEW r \in Requests
  PROVE  pc'[r] = pc[r] /\ cancelTxn'[r] = cancelTxn[r]
  <1>0. pc \in [Actors -> PC] /\ r \in Actors /\ r \notin Jobs
    BY JobsAssumption DEF TypeOK, ManagerTypeOK, Actors
  <1>1. ASSUME NEW j \in Jobs, Task(j)
        PROVE  pc'[r] = pc[r] /\ cancelTxn'[r] = cancelTxn[r]
    BY <1>0, <1>1, TaskGoto, TaskJobs DEF Goto, FinishIfRunning, jobTableVars
  <1>2. CASE Poll
    BY <1>0, <1>2 DEF Poll, PollLoop, Acquire, ClaimJob, ClaimNothing, ClaimNextJob, Goto,
                      Actors, managerVars, jobTableVars
  <1>3. CASE Crash \/ StartProcess
    BY <1>0, <1>3 DEF Crash, ProcessDies, StartProcess, Restart, Tasks, managerVars,
                      jobTableVars
  <1>4. CASE Reaper \/ UNCHANGED vars \/ \E j \in Jobs : Submit(j) \/ Age(j)
    BY <1>4 DEF Reaper, ReapList, ReapRaises, ReapWorker, ReapTerminate, ReapMarkFailed,
                ReapFailJob, FailIfRunning, FinishIfRunning, vars, Submit, SubmitJob,
                CreateJob, Age, managerVars, jobTableVars
  <1> QED
    BY <1>1, <1>2, <1>3, <1>4 DEF Next

LEMMA TearingStep ==
  ASSUME TypeOK, CancelInv, TearingInv, [Next]_vars
  PROVE  TearingInv'
  <1>1. /\ target' = target
        /\ \A j \in Jobs : job[j] = "cancelled" => job'[j] = "cancelled"
    BY TargetFixed, LifecycleStep
       DEF TypeOK, JobTableTypeOK, Lifecycle!LifecycleNext, Lifecycle!lifecycleVars,
           Lifecycle!Submit, Lifecycle!Claim, Lifecycle!Finish, Lifecycle!Cancel,
           Lifecycle!Become
  <1>2. CASE ~(\E r \in Requests : StartCancel(r) \/ Request(r))
    BY <1>1, <1>2, RequestsRest DEF TearingInv, TypeOK, JobTableTypeOK
  <1>3. ASSUME NEW r \in Requests, StartCancel(r) \/ Request(r)
        PROVE  TearingInv'
    <2>1. ASSUME NEW q \in Requests \ {r}
          PROVE  /\ pc'[q] \in {"get", "mark"} => cancelTxn'[q]
                 /\ pc'[q] \in {"kill", "finish"} => job'[target'[q]] = "cancelled"
      BY <1>1, <1>3, <2>1, TearingMoves DEF TearingInv, TypeOK, JobTableTypeOK
    <2>2. /\ pc'[r] \in {"get", "mark"} => cancelTxn'[r]
          /\ pc'[r] \in {"kill", "finish"} => job'[target'[r]] = "cancelled"
      BY <1>1, <1>3, TearingMoves
         DEF TearingInv, TypeOK, JobTableTypeOK, TeardownSteps, OpenCancel, CommitCancel,
             jobTableVars
    <2> QED
      BY <2>1, <2>2 DEF TearingInv
  <1> QED
    BY <1>2, <1>3

-----------------------------------------------------------------------------
\* Whoever terminates the instance of a job in a step: its own task, no longer on the
\* worker; a cancel that has ended the job; or the reaper, once nobody attends the row.
LEMMA EndedUnderTask ==
  ASSUME TypeOK, ControlInv, CleanupInv, TearingInv, [Next]_vars, ~StaleWhileAttended,
         NEW j \in Jobs, ec2[j] = "running", ec2'[j] # "running", job[j] = "running"
  PROVE  ~OnWorker(j)
  <1>0. /\ ec2 \in [Jobs -> Ec2State] /\ target \in [Requests -> Jobs]
    BY DEF TypeOK, ManagerTypeOK, JobTableTypeOK
  <1>1. ASSUME NEW k \in Jobs, Task(k)
        PROVE  ~OnWorker(j)
    <2>1. k = j
      BY <1>1, TaskLocal
    <2>2. pc[j] \in {"undo", "kill"}
      BY <1>0, <1>1, <2>1, TaskCases
         DEF TaskMove, Launch, Teardown, TeardownGet, TeardownMark, TeardownKill,
             TeardownFinish, At
    <2> QED
      BY <2>2 DEF OnWorker
  <1>2. ASSUME NEW r \in Requests, StartCancel(r) \/ Request(r)
        PROVE  FALSE
    <2>1. j = target[r]
      BY <1>2, RequestLocal
    <2>2. pc[r] = "kill"
      BY <1>2, RequestCases DEF Teardown, TeardownGet, TeardownMark, TeardownKill,
                                TeardownFinish, At
    <2> QED
      BY <2>1, <2>2 DEF TearingInv
  <1>3. ASSUME Reaper
        PROVE  ~OnWorker(j)
    <2>1. PICK k \in Jobs : ReapTerminate(k)
      BY <1>3 DEF Reaper, ReapList, ReapRaises, ReapWorker, ReapMarkFailed, ReapFailJob,
                  managerVars
    <2>2. k = j /\ reap[j] = "listed"
      BY <1>0, <2>1 DEF ReapTerminate, Terminate
    <2> QED
      BY <2>2 DEF CleanupInv, JobOK, StaleOK, Abandoned, OnWorker
  <1>4. ASSUME Poll \/ Crash \/ StartProcess \/ UNCHANGED vars
                 \/ \E k \in Jobs : Submit(k) \/ Age(k)
        PROVE  FALSE
    BY <1>4 DEF Poll, PollLoop, Acquire, ClaimJob, ClaimNothing, Crash, ProcessDies,
                StartProcess, Restart, vars, Submit, SubmitJob, Age, managerVars
  <1> QED
    BY <1>1, <1>2, <1>3, <1>4 DEF Next

\* A task comes to its worker by the launch alone.
LEMMA ComesByLaunch ==
  ASSUME TypeOK, [Next]_vars, NEW j \in Jobs, ~OnWorker(j), OnWorker(j)'
  PROVE  ec2'[j] = "running"
  <1>0. /\ pc \in [Actors -> PC] /\ j \in Actors /\ j \notin Requests
        /\ ec2 \in [Jobs -> Ec2State]
    BY JobsAssumption DEF TypeOK, ManagerTypeOK, Actors
  <1>1. CASE Task(j)
    BY <1>0, <1>1, TaskCases
       DEF TaskMove, QuietMove, Launch, Teardown, TeardownGet, TeardownMark, TeardownKill,
           TeardownFinish, Returned, At, Goto, OnWorker
  <1>2. ASSUME NEW k \in Jobs \ {j}, Task(k)
        PROVE  FALSE
    BY <1>0, <1>2, TaskGoto DEF Goto, OnWorker
  <1>3. ASSUME NEW r \in Requests, StartCancel(r) \/ Request(r)
        PROVE  FALSE
    BY <1>0, <1>3, RequestGoto DEF Goto, OnWorker
  <1>4. CASE Poll
    BY <1>0, <1>4 DEF Poll, PollLoop, Acquire, ClaimJob, ClaimNothing, Goto, Actors,
                      managerVars, OnWorker
  <1>5. CASE Crash \/ StartProcess
    BY <1>0, <1>5 DEF Crash, ProcessDies, StartProcess, Restart, managerVars, OnWorker
  <1>6. CASE Reaper \/ UNCHANGED vars \/ \E k \in Jobs : Submit(k) \/ Age(k)
    BY <1>6 DEF Reaper, ReapList, ReapRaises, ReapWorker, ReapTerminate, ReapMarkFailed,
                ReapFailJob, vars, Submit, SubmitJob, Age, managerVars, OnWorker
  <1> QED
    BY <1>1, <1>2, <1>3, <1>4, <1>5, <1>6 DEF Next

LEMMA LiveStep ==
  ASSUME TypeOK, ControlInv, CleanupInv, TearingInv, WorksOnLiveWorker, [Next]_vars
  PROVE  WorksOnLiveWorker'
  <1> SUFFICES ASSUME ~StaleWhileAttended, NEW j \in Jobs, OnWorker(j)', job'[j] = "running"
               PROVE  ec2'[j] = "running"
    BY DEF WorksOnLiveWorker
  <1>1. job[j] = "running"
    BY RunningByClaim DEF OnWorker
  <1>2. CASE OnWorker(j)
    BY <1>1, <1>2, EndedUnderTask DEF WorksOnLiveWorker
  <1>3. CASE ~OnWorker(j)
    BY <1>3, ComesByLaunch
  <1> QED
    BY <1>2, <1>3

\* With a cutoff longer than a task's longest step, no cancel, no reaper and no other task
\* terminates the instance that a task still works on for a running job, whatever fails:
\* the cancel has committed by then (terminate_worker_for_job's mark_terminating does).
THEOREM TasksWorkOnLiveWorkers == Spec => []WorksOnLiveWorker
  <1>1. Init => CancelInv /\ TearingInv /\ WorksOnLiveWorker
    BY DEF Init, JobTableInit, ManagerInit, CancelInv, TearingInv, WorksOnLiveWorker, OnWorker,
           Actors
  <1> QED
    BY <1>1, TypeCorrect, Control, Cleanup, CancelStepInv, TearingStep, LiveStep, PTL DEF Spec
=============================================================================
