-------------------------- MODULE CloudWorkerProofs --------------------------
(***************************************************************************)
(* Theorems about CloudWorker, for every set of jobs and requests, every   *)
(* combination of faults and every setting: its types, its semaphore and   *)
(* claims, and that the jobs table implements JobLifecycle.                *)
(***************************************************************************)
EXTENDS CloudWorker, FiniteSetTheorems, TLAPS

-----------------------------------------------------------------------------
(***************************************************************************)
(* The invariant of the tasks, the claims and the cancel transactions, in  *)
(* named parts.                                                            *)
(***************************************************************************)

TaskPC == ProvisionSteps \cup TeardownSteps \cup TaskSteps
            \cup {"idle", "returned", "done", "lost"}
RequestPC == TeardownSteps \cup RequestSteps \cup {"idle", "done"}

\* Tasks and requests suspend at awaits of their own code.
PcInv ==
    /\ \A j \in Jobs : pc[j] \in TaskPC
    /\ \A r \in Requests : pc[r] \in RequestPC

\* A job has a task exactly when it has been claimed.
ClaimInv ==
    \A j \in Jobs :
        /\ claims[j] = IF pc[j] = "idle" THEN 0 ELSE 1
        /\ job[j] \in {"none", "queued"} => pc[j] = "idle"

\* A process that is down has no task and no batch.
DownInv == ~Up => Tasks = {}

\* An open cancel holds the only lock on a job that is still cancellable.
CancelInv ==
    \A r \in Requests :
        cancelTxn[r] =>
            /\ job[target[r]] \in Cancellable
            /\ \A q \in Requests : cancelTxn[q] /\ target[q] = target[r] => q = r

-----------------------------------------------------------------------------
(***************************************************************************)
(* What the building blocks of the actions do to the types.                *)
(***************************************************************************)

\* SetStatus and CreateWorker write well-formed rows.
LEMMA RowTyped ==
  ASSUME WorkerTableTypeOK, NEW j \in Jobs, NEW status \in WorkerStatus,
         SetStatus(j, status) \/ CreateWorker(j)
  PROVE  WorkerTableTypeOK'
  <1>1. row \in [Jobs -> Row] /\ row[j] \in Row
    BY DEF WorkerTableTypeOK
  <1>2. CASE CreateWorker(j)
    BY <1>1, <1>2 DEF WorkerTableTypeOK, CreateWorker, Row, NoRow, WorkerStatus,
                      NonTerminalWorker
  <1>3. CASE SetStatus(j, status)
    <2> DEFINE instance == IF status = "provisioning" THEN TRUE ELSE row[j].instance
               ready == IF status = "ready" THEN TRUE ELSE row[j].ready
    <2>1. instance \in BOOLEAN /\ ready \in BOOLEAN
      BY <1>1 DEF Row
    <2>2. row' = [row EXCEPT ![j] = [status |-> status, instance |-> instance,
                                     ready |-> ready, stale |-> FALSE]]
      BY <1>3 DEF SetStatus
    <2> HIDE DEF instance, ready
    <2> QED
      BY <1>1, <2>1, <2>2 DEF WorkerTableTypeOK, Row
  <1> QED
    BY <1>2, <1>3

\* Goto suspends an actor at a known await.
LEMMA GotoTyped ==
  ASSUME pc \in [Actors -> PC], NEW a \in Actors, NEW step \in PC, Goto(a, step)
  PROVE  pc' \in [Actors -> PC]
  BY DEF Goto

\* The provisioner's calls keep an instance in a known state.
LEMMA Ec2Typed ==
  ASSUME ec2 \in [Jobs -> Ec2State], NEW j \in Jobs, Launch(j) \/ Terminate(j)
  PROVE  ec2' \in [Jobs -> Ec2State]
  BY DEF Launch, Terminate, Ec2State

\* fail() and complete() keep the types of the jobs table.
LEMMA FinishTyped ==
  ASSUME JobTableTypeOK, NEW j \in Jobs, NEW s \in JobStatus, FinishIfRunning(j, s)
  PROVE  JobTableTypeOK'
  BY DEF JobTableTypeOK, FinishIfRunning, JobStatus

\* So do the steps of a cancel transaction.
LEMMA CancelTyped ==
  ASSUME JobTableTypeOK, NEW r \in Requests,
         OpenCancel(r) \/ CommitCancel(r) \/ RollbackCancel(r)
  PROVE  JobTableTypeOK'
  BY DEF JobTableTypeOK, OpenCancel, CommitCancel, RollbackCancel, JobStatus, Terminal

-----------------------------------------------------------------------------
(***************************************************************************)
(* What one step of a task, and of a cancel request, can change.           *)
(***************************************************************************)

\* A task that steps is suspended somewhere in _run_job, and stays there until
\* its done callback.
LEMMA TaskGoto ==
  ASSUME NEW j \in Jobs, Task(j)
  PROVE  /\ pc[j] \notin {"idle", "done", "lost"}
         /\ \/ \E step \in TaskPC \ {"idle", "done", "lost"} :
                   Goto(j, step) /\ UNCHANGED permits
            \/ Goto(j, "done") /\ permits' = permits + 1
  BY DEF Task, TaskStep, TaskStart, TaskProvision, ProvisionCreate, ProvisionLaunch,
         ProvisionRecord, ProvisionWait, ProvisionReady, ProvisionMarkFailed, ProvisionUndo,
         TaskExecute, TaskFinish, TaskFailJob, Teardown, TeardownGet, TeardownMark,
         TeardownKill, TeardownFinish, TaskRaises, TaskDone, Returned,
         TeardownRaises, At, processorVars, TaskPC, ProvisionSteps, TeardownSteps, TaskSteps

\* A task creates its row or sets the status of it.
LEMMA TaskRow ==
  ASSUME NEW j \in Jobs, Task(j)
  PROVE  \/ UNCHANGED row
         \/ CreateWorker(j)
         \/ \E status \in WorkerStatus : SetStatus(j, status)
  BY DEF Task, TaskStep, TaskStart, TaskProvision, ProvisionCreate, ProvisionLaunch,
         ProvisionRecord, ProvisionWait, ProvisionReady, ProvisionMarkFailed, ProvisionUndo,
         TaskExecute, TaskFinish, TaskFailJob, Teardown, TeardownGet, TeardownMark,
         TeardownKill, TeardownFinish, TaskRaises, TaskDone, MarkTerminating, JobOf,
         WorkerStatus, NonTerminalWorker, FinishedWorker, managerVars

\* A task launches or terminates its own instance only.
LEMMA TaskEc2 ==
  ASSUME NEW j \in Jobs, Task(j)
  PROVE  UNCHANGED ec2 \/ Launch(j) \/ Terminate(j)
  BY DEF Task, TaskStep, TaskStart, TaskProvision, ProvisionCreate, ProvisionLaunch,
         ProvisionRecord, ProvisionWait, ProvisionReady, ProvisionMarkFailed, ProvisionUndo,
         TaskExecute, TaskFinish, TaskFailJob, Teardown, TeardownGet, TeardownMark,
         TeardownKill, TeardownFinish, TaskRaises, TaskDone, JobOf

\* What a task has read changes only when it reads its row.
LEMMA TaskSeen ==
  ASSUME NEW j \in Jobs, Task(j)
  PROVE  UNCHANGED seen \/ seen' = [seen EXCEPT ![j] = row[j]]
  BY DEF Task, TaskStep, TaskStart, TaskProvision, ProvisionCreate, ProvisionLaunch,
         ProvisionRecord, ProvisionWait, ProvisionReady, ProvisionMarkFailed, ProvisionUndo,
         TaskExecute, TaskFinish, TaskFailJob, Teardown, TeardownGet, TeardownMark,
         TeardownKill, TeardownFinish, TaskRaises, TaskDone, JobOf

\* A task changes the jobs table by a conditional UPDATE of its own job only.
LEMMA TaskJobs ==
  ASSUME NEW j \in Jobs, Task(j)
  PROVE  \/ UNCHANGED jobTableVars
         \/ \E s \in {"failed", "succeeded"} : FinishIfRunning(j, s)
  BY JobsAssumption
     DEF Task, TaskStep, TaskStart, TaskProvision, ProvisionCreate, ProvisionLaunch,
         ProvisionRecord, ProvisionWait, ProvisionReady, ProvisionMarkFailed, ProvisionUndo,
         TaskExecute, TaskFinish, TaskFailJob, Teardown, TeardownGet, TeardownMark,
         TeardownKill, TeardownFinish, TaskRaises, TaskDone, FailIfRunning, CompleteIfRunning

\* A task leaves the requests, the reaper and the poll loop alone.
LEMMA TaskFrame ==
  ASSUME NEW j \in Jobs, Task(j)
  PROVE  UNCHANGED <<existing, reaperVars, loop>>
  BY DEF Task, TaskStep, TaskDone, processorVars

\* The steps of a cancel request.
LEMMA RequestGoto ==
  ASSUME NEW r \in Requests, StartCancel(r) \/ Request(r)
  PROVE  \E step \in RequestPC \ {"idle"} : Goto(r, step)
  BY JobsAssumption
     DEF StartCancel, CancelRead, Request, CancelStep, CancelUpdate, CancelConflict,
         CancelRespond, CancelCommit, CancelRaises, Teardown, TeardownGet, TeardownMark,
         TeardownKill, TeardownFinish, Returned, RequestPC, TeardownSteps, RequestSteps

\* A request sets the status of the row of its target.
LEMMA RequestRow ==
  ASSUME NEW r \in Requests, StartCancel(r) \/ Request(r)
  PROVE  \/ UNCHANGED row
         \/ \E status \in WorkerStatus : SetStatus(JobOf(r), status)
  BY DEF StartCancel, CancelRead, Request, CancelStep, CancelUpdate, CancelConflict,
         CancelRespond, CancelCommit, CancelRaises, Teardown, TeardownGet, TeardownMark,
         TeardownKill, TeardownFinish, MarkTerminating, WorkerStatus, NonTerminalWorker,
         FinishedWorker

\* A request only terminates the instance of its target.
LEMMA RequestEc2 ==
  ASSUME NEW r \in Requests, StartCancel(r) \/ Request(r)
  PROVE  UNCHANGED ec2 \/ Terminate(JobOf(r))
  BY DEF StartCancel, CancelRead, Request, CancelStep, CancelUpdate, CancelConflict,
         CancelRespond, CancelCommit, CancelRaises, Teardown, TeardownGet, TeardownMark,
         TeardownKill, TeardownFinish

\* What a request has read changes only when it reads the row.
LEMMA RequestSeen ==
  ASSUME NEW r \in Requests, StartCancel(r) \/ Request(r)
  PROVE  \/ UNCHANGED seen
         \/ At(r, "get") /\ seen' = [seen EXCEPT ![r] = row[JobOf(r)]]
  BY DEF StartCancel, CancelRead, Request, CancelStep, CancelUpdate, CancelConflict,
         CancelRespond, CancelCommit, CancelRaises, Teardown, TeardownGet, TeardownMark,
         TeardownKill, TeardownFinish

\* A request changes the jobs table by a step of its transaction, or counts.
LEMMA RequestJobs ==
  ASSUME NEW r \in Requests, StartCancel(r) \/ Request(r)
  PROVE  \/ UNCHANGED jobTableVars
         \/ OpenCancel(r) \/ CommitCancel(r) \/ RollbackCancel(r)
         \/ /\ jobsTotal' = [jobsTotal EXCEPT ![target[r]] = @ + 1]
            /\ UNCHANGED <<job, createdAt, claims, target, cancelTxn>>
  BY DEF StartCancel, CancelRead, Request, CancelStep, CancelUpdate, CancelConflict,
         CancelRespond, CancelCommit, CancelRaises, Teardown, TeardownGet, TeardownMark,
         TeardownKill, TeardownFinish

\* A request leaves the worker process alone.
LEMMA RequestFrame ==
  ASSUME NEW r \in Requests, StartCancel(r) \/ Request(r)
  PROVE  /\ UNCHANGED <<processorVars, reaperVars>>
         /\ \/ UNCHANGED existing
            \/ existing' = [existing EXCEPT ![r] = job[target[r]]]
  BY DEF StartCancel, CancelRead, Request, CancelStep, CancelUpdate, CancelConflict,
         CancelRespond, CancelCommit, CancelRaises, Teardown
-----------------------------------------------------------------------------
(***************************************************************************)
(* Type correctness.                                                       *)
(***************************************************************************)

\* A step of a task keeps the types.
LEMMA TypeTask ==
  ASSUME TypeOK, NEW j \in Jobs, Task(j)
  PROVE  TypeOK'
  <1>1. JobTableTypeOK'
    BY TaskJobs, FinishTyped DEF TypeOK, JobTableTypeOK, jobTableVars, JobStatus, Terminal
  <1>2. WorkerTableTypeOK'
    <2>1. CASE UNCHANGED row
      BY <2>1 DEF TypeOK, WorkerTableTypeOK
    <2>2. CASE \E status \in WorkerStatus : SetStatus(j, status) \/ CreateWorker(j)
      BY <2>2, RowTyped DEF TypeOK
    <2> QED
      BY <2>1, <2>2, TaskRow DEF WorkerStatus, FinishedWorker
  <1>3. ManagerTypeOK'
    <2>1. pc' \in [Actors -> PC]
      BY TaskGoto, GotoTyped DEF TypeOK, ManagerTypeOK, TaskPC, PC, Actors
    <2>2. ec2' \in [Jobs -> Ec2State]
      BY TaskEc2, Ec2Typed DEF TypeOK, ManagerTypeOK
    <2>3. seen' \in [Actors -> Row]
      BY TaskSeen DEF TypeOK, ManagerTypeOK, WorkerTableTypeOK, Actors
    <2> QED
      BY <2>1, <2>2, <2>3 DEF ManagerTypeOK
  <1>4. ProcessorTypeOK'
    BY TaskFrame, TaskGoto DEF TypeOK, ProcessorTypeOK
  <1>5. EndpointTypeOK' /\ ReaperTypeOK'
    BY TaskFrame DEF TypeOK, EndpointTypeOK, ReaperTypeOK, reaperVars
  <1> QED
    BY <1>1, <1>2, <1>3, <1>4, <1>5 DEF TypeOK

\* A step of a request keeps the types.
LEMMA TypeRequest ==
  ASSUME TypeOK, NEW r \in Requests, StartCancel(r) \/ Request(r)
  PROVE  TypeOK'
  <1>0. JobOf(r) \in Jobs /\ target[r] \in Jobs
    BY DEF JobOf, TypeOK, JobTableTypeOK
  <1>1. JobTableTypeOK'
    BY <1>0, RequestJobs, CancelTyped DEF TypeOK, JobTableTypeOK, jobTableVars
  <1>2. WorkerTableTypeOK'
    BY <1>0, RequestRow, RowTyped DEF TypeOK, WorkerTableTypeOK
  <1>3. ManagerTypeOK'
    <2>1. pc' \in [Actors -> PC]
      BY RequestGoto, GotoTyped DEF TypeOK, ManagerTypeOK, RequestPC, PC, Actors
    <2>2. ec2' \in [Jobs -> Ec2State]
      BY <1>0, RequestEc2, Ec2Typed DEF TypeOK, ManagerTypeOK
    <2>3. seen' \in [Actors -> Row]
      BY <1>0, RequestSeen DEF TypeOK, ManagerTypeOK, WorkerTableTypeOK, Actors
    <2> QED
      BY <2>1, <2>2, <2>3 DEF ManagerTypeOK
  <1>4. ProcessorTypeOK' /\ ReaperTypeOK'
    BY RequestFrame DEF TypeOK, ProcessorTypeOK, ReaperTypeOK, processorVars, reaperVars
  <1>5. EndpointTypeOK'
    BY <1>0, RequestFrame DEF TypeOK, EndpointTypeOK, JobTableTypeOK
  <1> QED
    BY <1>1, <1>2, <1>3, <1>4, <1>5 DEF TypeOK

\* A step of the reaper keeps the types.
LEMMA TypeReaper ==
  ASSUME TypeOK, Reaper
  PROVE  TypeOK'
  <1> USE DEF Reaper, ReapList, ReapRaises, ReapForgets, ReapWorker, ReapTerminate,
              ReapMarkFailed, ReapFailJob, NextReapStep
  <1>1. JobTableTypeOK'
    <2>1. CASE UNCHANGED jobTableVars
      BY <2>1 DEF TypeOK, JobTableTypeOK, jobTableVars
    <2>2. CASE \E j \in Jobs : FailIfRunning(j)
      BY <2>2, FinishTyped DEF TypeOK, FailIfRunning, JobStatus, Terminal
    <2> QED
      BY <2>1, <2>2
  <1>2. WorkerTableTypeOK'
    <2>1. CASE UNCHANGED row
      BY <2>1 DEF TypeOK, WorkerTableTypeOK
    <2>2. CASE \E j \in Jobs : SetStatus(j, "failed")
      BY <2>2, RowTyped DEF TypeOK, WorkerStatus, FinishedWorker
    <2> QED
      BY <2>1, <2>2
  <1>3. ManagerTypeOK'
    BY Ec2Typed DEF TypeOK, ManagerTypeOK, managerVars
  <1>4. ProcessorTypeOK' /\ EndpointTypeOK'
    BY DEF TypeOK, ProcessorTypeOK, EndpointTypeOK, processorVars
  <1>5. ReaperTypeOK'
    BY DEF TypeOK, ReaperTypeOK, ReapStep, WorkerTableTypeOK, Row
  <1> QED
    BY <1>1, <1>2, <1>3, <1>4, <1>5 DEF TypeOK

\* A step of the poll loop or of the process keeps the types.
LEMMA TypeProcess ==
  ASSUME TypeOK, Poll \/ Crash \/ StartProcess
  PROVE  TypeOK'
  <1> USE DEF TypeOK, ProcessorTypeOK, EndpointTypeOK, ReaperTypeOK, ManagerTypeOK,
              WorkerTableTypeOK, JobTableTypeOK, managerVars, processorVars, reaperVars,
              jobTableVars
  <1>1. CASE Poll
    <2>1. CASE Acquire
      BY <1>1, <2>1 DEF Poll, Acquire
    <2>2. CASE ClaimNothing
      BY <1>1, <2>2 DEF Poll, ClaimNothing
    <2>3. CASE ClaimJob
      <3> PICK j \in Jobs : ClaimNextJob(j) /\ Goto(j, "start")
        BY <2>3 DEF ClaimJob
      <3>1. pc' \in [Actors -> PC]
        BY GotoTyped DEF Actors, PC, TaskSteps
      <3> QED
        BY <1>1, <2>3, <3>1 DEF Poll, ClaimJob, ClaimNextJob, JobStatus
    <2> QED
      BY <1>1, <2>1, <2>2, <2>3 DEF Poll, PollLoop
  <1>2. CASE Crash
    BY <1>2 DEF Crash, ProcessDies, ReapForgets, ReapStep, PC
  <1>3. CASE StartProcess
    BY <1>3, ProcessorAssumption DEF StartProcess, Restart
  <1> QED
    BY <1>1, <1>2, <1>3

\* A submission keeps the types: its rank is a number.
LEMMA TypeSubmit ==
  ASSUME TypeOK, NEW j \in Jobs, Submit(j)
  PROVE  TypeOK'
  <1> DEFINE rank == 1 + Cardinality({k \in Jobs : Exists(k)})
  <1>1. rank \in Nat
    <2>1. IsFiniteSet({k \in Jobs : Exists(k)})
      BY JobsAssumption, FS_Subset, {k \in Jobs : Exists(k)} \subseteq Jobs
    <2> QED
      BY <2>1, FS_CardinalityType
  <1>2. createdAt' = [createdAt EXCEPT ![j] = rank]
    BY DEF Submit, SubmitJob, CreateJob
  <1> HIDE DEF rank
  <1>3. JobTableTypeOK'
    BY <1>1, <1>2 DEF Submit, SubmitJob, CreateJob, JobStatus, TypeOK, JobTableTypeOK
  <1>4. WorkerTableTypeOK' /\ ManagerTypeOK'
    BY DEF Submit, SubmitJob, managerVars, TypeOK, WorkerTableTypeOK, ManagerTypeOK
  <1>5. ProcessorTypeOK' /\ EndpointTypeOK' /\ ReaperTypeOK'
    BY DEF Submit, SubmitJob, processorVars, reaperVars, TypeOK, ProcessorTypeOK,
           EndpointTypeOK, ReaperTypeOK
  <1> QED
    BY <1>3, <1>4, <1>5 DEF TypeOK

\* The passing of time keeps the types.
LEMMA TypeAge ==
  ASSUME TypeOK, NEW j \in Jobs, Age(j)
  PROVE  TypeOK'
  BY DEF Age, GrowStale, Row, TypeOK, ProcessorTypeOK, EndpointTypeOK, ReaperTypeOK,
         ManagerTypeOK, WorkerTableTypeOK, JobTableTypeOK, managerVars, processorVars,
         reaperVars, jobTableVars

\* The types hold at the start.
LEMMA TypeInit == Init => TypeOK
  <1> SUFFICES ASSUME Init PROVE TypeOK
    OBVIOUS
  <1>1. JobTableTypeOK /\ EndpointTypeOK
    BY DEF Init, JobTableInit, JobTableTypeOK, EndpointInit, EndpointTypeOK
  <1>2. WorkerTableTypeOK /\ ManagerTypeOK
    BY DEF Init, WorkerTableInit, WorkerTableTypeOK, ManagerInit, ManagerTypeOK, Row, NoRow,
           PC, Ec2State
  <1>3. ProcessorTypeOK /\ ReaperTypeOK
    BY ProcessorAssumption
       DEF Init, ProcessorInit, ProcessorTypeOK, ReaperInit, ReaperTypeOK, ReapStep
  <1> QED
    BY <1>1, <1>2, <1>3 DEF TypeOK

\* Every step keeps the types.
LEMMA TypeStep ==
  ASSUME TypeOK, [Next]_vars
  PROVE  TypeOK'
  <1>1. CASE UNCHANGED vars
    BY <1>1 DEF vars, TypeOK, ProcessorTypeOK, EndpointTypeOK, ReaperTypeOK, ManagerTypeOK,
                WorkerTableTypeOK, JobTableTypeOK, managerVars, processorVars, reaperVars,
                jobTableVars
  <1>2. CASE Next
    BY <1>2, TypeTask, TypeRequest, TypeReaper, TypeProcess, TypeSubmit, TypeAge DEF Next
  <1> QED
    BY <1>1, <1>2

\* Every variable keeps its type in every instance of the system.
THEOREM TypeCorrect == Spec => []TypeOK
  BY TypeInit, TypeStep, PTL DEF Spec

-----------------------------------------------------------------------------
(***************************************************************************)
(* Claims, tasks and permits.                                              *)
(***************************************************************************)
ControlInv == PcInv /\ ClaimInv /\ DownInv /\ PermitsConserved

\* The tasks can be counted.
LEMMA TasksFinite == IsFiniteSet(Tasks) /\ Cardinality(Tasks) \in Nat
  <1>1. Tasks \subseteq Jobs
    BY DEF Tasks
  <1> QED
    BY <1>1, JobsAssumption, FS_Subset, FS_CardinalityType

\* A step of a task keeps ControlInv: its callback alone returns its permit.
LEMMA ControlTask ==
  ASSUME TypeOK, ControlInv, NEW j \in Jobs, Task(j)
  PROVE  ControlInv'
  <1> USE DEF ControlInv
  <1>0. pc \in [Actors -> PC] /\ j \in Actors /\ j \notin Requests
    BY JobsAssumption DEF TypeOK, ManagerTypeOK, Actors
  <1>1. PcInv'
    BY <1>0, TaskGoto DEF Goto, PcInv, TaskPC, Actors
  <1>2. ClaimInv'
    <2>1. UNCHANGED claims /\ \A k \in Jobs : job'[k] \in {"none", "queued"} => job'[k] = job[k]
      BY TaskJobs DEF TypeOK, JobTableTypeOK, FinishIfRunning, jobTableVars
    <2> QED
      BY <1>0, <2>1, TaskGoto DEF ClaimInv, Goto, Actors
  <1>3. DownInv' /\ Up
    BY TaskGoto, TaskFrame DEF DownInv, Up, Tasks
  <1>4. PermitsConserved'
    <2>1. CASE UNCHANGED <<permits, Tasks>>
      BY <2>1, TaskFrame DEF PermitsConserved, Up
    <2>2. CASE permits' = permits + 1 /\ Goto(j, "done")
      <3>1. j \in Tasks /\ Tasks' = Tasks \ {j}
        BY <1>0, <2>2, TaskGoto DEF Tasks, Goto, Actors
      <3>2. Cardinality(Tasks') = Cardinality(Tasks) - 1
        BY <3>1, TasksFinite, FS_RemoveElement
      <3> QED
        BY <1>3, <2>2, <3>2, TaskFrame, TasksFinite, ProcessorAssumption
           DEF PermitsConserved, Up, TypeOK, ProcessorTypeOK
    <2>3. ASSUME NEW step \in TaskPC \ {"idle", "done", "lost"}, Goto(j, step)
          PROVE  Tasks' = Tasks
      BY <1>0, <2>3, TaskGoto DEF Tasks, Goto, Actors
    <2> QED
      BY <2>1, <2>2, <2>3, TaskGoto
  <1> QED
    BY <1>1, <1>2, <1>3, <1>4

\* A step of a request keeps ControlInv.
LEMMA ControlRequest ==
  ASSUME TypeOK, ControlInv, NEW r \in Requests, StartCancel(r) \/ Request(r)
  PROVE  ControlInv'
  <1> USE DEF ControlInv
  <1>0. pc \in [Actors -> PC] /\ r \in Actors /\ r \notin Jobs
    BY JobsAssumption DEF TypeOK, ManagerTypeOK, Actors
  <1>1. \A j \in Jobs : pc'[j] = pc[j]
    BY <1>0, RequestGoto DEF Goto, Actors
  <1>2. PcInv'
    BY <1>0, <1>1, RequestGoto DEF Goto, PcInv, RequestPC, Actors
  <1>3. ClaimInv'
    <2>1. UNCHANGED claims /\ \A k \in Jobs : job'[k] \in {"none", "queued"} => job'[k] = job[k]
      BY RequestJobs
         DEF TypeOK, JobTableTypeOK, OpenCancel, CommitCancel, RollbackCancel, jobTableVars
    <2> QED
      BY <1>1, <2>1 DEF ClaimInv
  <1>4. Tasks' = Tasks
    BY <1>1 DEF Tasks
  <1>5. DownInv' /\ PermitsConserved'
    BY <1>4, RequestFrame DEF DownInv, PermitsConserved, Up, processorVars
  <1> QED
    BY <1>2, <1>3, <1>5

\* The poll loop keeps ControlInv: a claim turns its permit into that of a task.
LEMMA ControlPoll ==
  ASSUME TypeOK, ControlInv, Poll
  PROVE  ControlInv'
  <1> USE DEF ControlInv
  <1>1. CASE Acquire
    <2>1. UNCHANGED <<pc, job, claims, Tasks>> /\ Up /\ Up'
      BY <1>1 DEF Acquire, managerVars, jobTableVars, Tasks, Up
    <2> QED
      BY <1>1, <2>1, TasksFinite, ProcessorAssumption
         DEF Acquire, PcInv, ClaimInv, DownInv, PermitsConserved, TypeOK, ProcessorTypeOK
  <1>2. CASE ClaimNothing
    <2>1. UNCHANGED <<pc, job, claims, Tasks>> /\ Up /\ Up'
      BY <1>2 DEF ClaimNothing, managerVars, jobTableVars, Tasks, Up
    <2> QED
      BY <1>2, <2>1, TasksFinite, ProcessorAssumption
         DEF ClaimNothing, PcInv, ClaimInv, DownInv, PermitsConserved, TypeOK, ProcessorTypeOK
  <1>3. CASE ClaimJob
    <2> PICK j \in Jobs : ClaimNextJob(j) /\ Goto(j, "start")
      BY <1>3 DEF ClaimJob
    <2>0. pc \in [Actors -> PC] /\ j \in Actors /\ j \notin Requests
      BY JobsAssumption DEF TypeOK, ManagerTypeOK, Actors
    <2>1. job[j] = "queued" /\ pc[j] = "idle"
      BY DEF ClaimNextJob, Claimable, ClaimInv
    <2>2. PcInv'
      BY <2>0, <2>1 DEF PcInv, Goto, TaskPC, TaskSteps, Actors
    <2>5. ClaimInv'
      <3>1. claims[j] = 0
        BY <2>1 DEF ClaimInv
      <3>2. pc'[j] = "start" /\ job'[j] = "running" /\ claims'[j] = 1
        BY <2>0, <3>1 DEF Goto, ClaimNextJob, TypeOK, JobTableTypeOK
      <3>3. \A k \in Jobs \ {j} : pc'[k] = pc[k] /\ job'[k] = job[k] /\ claims'[k] = claims[k]
        BY <2>0 DEF Goto, ClaimNextJob, Actors, TypeOK, JobTableTypeOK
      <3> QED
        BY <3>2, <3>3 DEF ClaimInv
    <2>3. Tasks' = Tasks \cup {j} /\ j \notin Tasks
      BY <2>0, <2>1 DEF Tasks, Goto, Actors
    <2>4. Cardinality(Tasks') = Cardinality(Tasks) + 1
      BY <2>3, TasksFinite, FS_AddElement
    <2> QED
      BY <1>3, <2>2, <2>5, <2>4, TasksFinite, ProcessorAssumption
         DEF ClaimJob, DownInv, PermitsConserved, Up, TypeOK, ProcessorTypeOK
  <1> QED
    BY <1>1, <1>2, <1>3 DEF Poll, PollLoop

\* A crash and a restart keep ControlInv.
LEMMA ControlProcess ==
  ASSUME TypeOK, ControlInv, Crash \/ StartProcess
  PROVE  ControlInv'
  <1> USE DEF ControlInv
  <1>0. pc \in [Actors -> PC]
    BY DEF TypeOK, ManagerTypeOK
  <1>1. CASE Crash
    <2>1. \A a \in Actors : pc'[a] = IF a \in Tasks THEN "lost" ELSE pc[a]
      BY <1>1 DEF Crash, ProcessDies
    <2>2. PcInv' /\ ClaimInv'
      BY <1>1, <2>1, JobsAssumption
         DEF Crash, ProcessDies, PcInv, ClaimInv, TaskPC, Tasks, Actors, jobTableVars
    <2>3. Tasks' = {}
      BY <2>1 DEF Tasks, Actors
    <2> QED
      BY <1>1, <2>2, <2>3 DEF Crash, ProcessDies, DownInv, PermitsConserved, Up
  <1>2. CASE StartProcess
    <2>1. UNCHANGED <<pc, job, claims, Tasks>> /\ Tasks = {} /\ loop' = "acquire"
      BY <1>2 DEF StartProcess, Restart, managerVars, jobTableVars, Tasks, DownInv, Up
    <2>2. Cardinality(Tasks') = 0
      BY <2>1, FS_EmptySet
    <2> QED
      BY <1>2, <2>1, <2>2, ProcessorAssumption
         DEF StartProcess, Restart, PcInv, ClaimInv, DownInv, PermitsConserved, Up
  <1> QED
    BY <1>1, <1>2

\* The other steps touch neither a task, a permit nor a claim.
LEMMA ControlOther ==
  ASSUME TypeOK, ControlInv,
         Reaper \/ UNCHANGED vars \/ \E j \in Jobs : Submit(j) \/ Age(j)
  PROVE  ControlInv'
  <1>1. UNCHANGED <<pc, claims, loop, permits>>
    BY DEF Reaper, ReapList, ReapRaises, ReapWorker, ReapTerminate, ReapMarkFailed,
           ReapFailJob, FailIfRunning, FinishIfRunning, vars, Submit, SubmitJob, CreateJob,
           Age, managerVars, processorVars, jobTableVars
  <1>2. \A k \in Jobs : job'[k] \in {"none", "queued"} => job[k] \in {"none", "queued"}
    BY DEF Reaper, ReapList, ReapRaises, ReapWorker, ReapTerminate, ReapMarkFailed,
           ReapFailJob, FailIfRunning, FinishIfRunning, vars, Submit, SubmitJob, CreateJob,
           Exists, Age, jobTableVars, TypeOK, JobTableTypeOK
  <1>3. Tasks' = Tasks
    BY <1>1 DEF Tasks
  <1> QED
    BY <1>1, <1>2, <1>3 DEF ControlInv, PcInv, ClaimInv, DownInv, PermitsConserved, Up

\* ControlInv holds at the start.
LEMMA ControlInit == Init => ControlInv
  <1> SUFFICES ASSUME Init PROVE ControlInv
    OBVIOUS
  <1>1. PcInv /\ ClaimInv /\ DownInv
    BY DEF Init, ManagerInit, JobTableInit, ProcessorInit, PcInv, ClaimInv, DownInv, Up,
           TaskPC, RequestPC, Actors
  <1>2. Tasks = {} /\ Cardinality(Tasks) = 0
    BY FS_EmptySet DEF Init, ManagerInit, Tasks, Actors
  <1> QED
    BY <1>1, <1>2, ProcessorAssumption DEF ControlInv, PermitsConserved, Init, ProcessorInit

\* Every step keeps ControlInv.
LEMMA ControlStep ==
  ASSUME TypeOK, ControlInv, [Next]_vars
  PROVE  ControlInv'
  BY ControlTask, ControlRequest, ControlPoll, ControlProcess, ControlOther DEF Next

\* Tasks follow the order of _run_job, a process that is down has none, and claims,
\* tasks and permits agree.
THEOREM Control == Spec => []ControlInv
  BY TypeCorrect, ControlInit, ControlStep, PTL DEF Spec

\* No permit of the semaphore is ever lost or given back twice, whatever raises.
THEOREM PermitsAreConserved == Spec => []PermitsConserved
  BY Control, PTL DEF ControlInv

\* At no time does the process have more than max_concurrent_jobs tasks, those that only
\* tear their worker down and those left from before a failed claim included (run, _run_job).
THEOREM ConcurrencyIsBounded == Spec => [](Cardinality(Tasks) <= MaxConcurrent)
  <1>1. TypeOK /\ ControlInv => Cardinality(Tasks) <= MaxConcurrent
    <2> SUFFICES ASSUME TypeOK, ControlInv
                 PROVE  Cardinality(Tasks) <= MaxConcurrent
      OBVIOUS
    <2>1. Cardinality(Tasks) \in Nat /\ permits \in Nat
      BY TasksFinite, FS_CardinalityType DEF TypeOK, ProcessorTypeOK
    <2>2. CASE Up
      BY <2>1, <2>2, ProcessorAssumption DEF ControlInv, PermitsConserved
    <2>3. CASE ~Up
      <3>1. Tasks = {}
        BY <2>3 DEF ControlInv, DownInv, Tasks
      <3> QED
        BY <3>1, FS_EmptySet, ProcessorAssumption
    <2> QED
      BY <2>2, <2>3
  <1> QED
    BY <1>1, TypeCorrect, Control, PTL

\* No job is handed to two tasks, however often the process restarts.
THEOREM ClaimsAreUnique == Spec => []ClaimedOnce
  <1>1. ControlInv => ClaimedOnce
    BY DEF ControlInv, ClaimInv, ClaimedOnce
  <1> QED
    BY <1>1, Control, PTL

-----------------------------------------------------------------------------
(***************************************************************************)
(* The jobs table implements JobLifecycle.                                 *)
(***************************************************************************)

\* Every step is one statement on the jobs table, or leaves its statuses alone.
LEMMA JobsStep ==
  ASSUME [Next]_vars
  PROVE  \/ UNCHANGED <<job, claims, target, cancelTxn>>
         \/ \E j \in Jobs, s \in {"failed", "succeeded"} : FinishIfRunning(j, s)
         \/ \E j \in Jobs : ClaimNextJob(j) \/ CreateJob(j)
         \/ \E r \in Requests : OpenCancel(r) \/ CommitCancel(r) \/ RollbackCancel(r)
  <1>1. CASE \E j \in Jobs : Submit(j) \/ Age(j)
    BY <1>1 DEF Submit, SubmitJob, Age, jobTableVars
  <1>2. CASE \E j \in Jobs : Task(j)
    BY <1>2, TaskJobs DEF jobTableVars
  <1>3. CASE \E r \in Requests : StartCancel(r) \/ Request(r)
    BY <1>3, RequestJobs DEF jobTableVars
  <1>4. CASE Poll
    BY <1>4 DEF Poll, PollLoop, Acquire, ClaimJob, ClaimNothing, jobTableVars
  <1>5. CASE Reaper
    BY <1>5 DEF Reaper, ReapList, ReapRaises, ReapWorker, ReapTerminate, ReapMarkFailed,
                ReapFailJob, FailIfRunning, jobTableVars
  <1>6. CASE Crash \/ StartProcess \/ UNCHANGED vars
    BY <1>6 DEF Crash, ProcessDies, StartProcess, Restart, vars, jobTableVars
  <1> QED
    BY <1>1, <1>2, <1>3, <1>4, <1>5, <1>6 DEF Next

\* Every step keeps CancelInv.
LEMMA CancelStepInv ==
  ASSUME TypeOK, CancelInv, [Next]_vars
  PROVE  CancelInv'
  <1> USE DEF TypeOK, JobTableTypeOK
  <1>1. CASE UNCHANGED <<job, claims, target, cancelTxn>>
    BY <1>1 DEF CancelInv
  <1>2. ASSUME NEW j \in Jobs, NEW s \in {"failed", "succeeded"}, FinishIfRunning(j, s)
        PROVE  CancelInv'
    BY <1>2 DEF CancelInv, FinishIfRunning, Locked
  <1>3. ASSUME NEW j \in Jobs, ClaimNextJob(j)
        PROVE  CancelInv'
    BY <1>3 DEF CancelInv, ClaimNextJob, Claimable, Locked
  <1>4. ASSUME NEW j \in Jobs, CreateJob(j)
        PROVE  CancelInv'
    BY <1>4 DEF CancelInv, CreateJob, Exists, Cancellable
  <1>5. ASSUME NEW r \in Requests, OpenCancel(r)
        PROVE  CancelInv'
    BY <1>5 DEF CancelInv, OpenCancel, CancelMatches, Locked
  <1>6. ASSUME NEW r \in Requests, CommitCancel(r) \/ RollbackCancel(r)
        PROVE  CancelInv'
    BY <1>6 DEF CancelInv, CommitCancel, RollbackCancel
  <1> QED
    BY <1>1, <1>2, <1>3, <1>4, <1>5, <1>6, JobsStep

\* Every step is a step of JobLifecycle or leaves the statuses and the claims alone.
LEMMA LifecycleStep ==
  ASSUME TypeOK, CancelInv, [Next]_vars
  PROVE  [Lifecycle!LifecycleNext]_(Lifecycle!lifecycleVars)
  <1> USE DEF TypeOK, JobTableTypeOK, Lifecycle!LifecycleNext, Lifecycle!lifecycleVars,
              Lifecycle!Become
  <1>1. CASE UNCHANGED <<job, claims, target, cancelTxn>>
    BY <1>1
  <1>2. ASSUME NEW j \in Jobs, NEW s \in {"failed", "succeeded"}, FinishIfRunning(j, s)
        PROVE  Lifecycle!Finish(j) \/ UNCHANGED <<job, claims>>
    BY <1>2 DEF FinishIfRunning, Lifecycle!Finish
  <1>3. ASSUME NEW j \in Jobs, ClaimNextJob(j)
        PROVE  Lifecycle!Claim(j)
    BY <1>3 DEF ClaimNextJob, Claimable, Lifecycle!Claim
  <1>4. ASSUME NEW j \in Jobs, CreateJob(j)
        PROVE  Lifecycle!Submit(j)
    BY <1>4 DEF CreateJob, Exists, Lifecycle!Submit
  <1>5. ASSUME NEW r \in Requests, OpenCancel(r) \/ RollbackCancel(r)
        PROVE  UNCHANGED <<job, claims>>
    BY <1>5 DEF OpenCancel, RollbackCancel
  <1>6. ASSUME NEW r \in Requests, CommitCancel(r)
        PROVE  Lifecycle!Cancel(target[r]) \/ UNCHANGED <<job, claims>>
    BY <1>6 DEF CommitCancel, CancelInv, Cancellable, Lifecycle!Cancel
  <1> QED
    BY <1>1, <1>2, <1>3, <1>4, <1>5, <1>6, JobsStep

\* Whatever fails or interleaves, a job goes through JobLifecycle: claimed once, from
\* queued only, and terminal for ever.
THEOREM ImplementsLifecycle == Spec => RefinesLifecycle
  <1>1. Init => Lifecycle!LifecycleInit /\ CancelInv
    BY DEF Init, JobTableInit, Lifecycle!LifecycleInit, CancelInv
  <1> QED
    BY <1>1, TypeCorrect, CancelStepInv, LifecycleStep, PTL
       DEF Spec, RefinesLifecycle, Lifecycle!LifecycleSpec

\* Nobody leaves a terminal status: not the task that comes late, a second cancel, nor the
\* reaper (the WHERE clauses of complete, fail and cancel in job_repository.py).
THEOREM TerminalIsFinal ==
  Spec => [][\A j \in Jobs : job[j] \in Terminal => job'[j] = job[j]]_vars
  <1>1. Init => CancelInv
    BY DEF Init, JobTableInit, CancelInv
  <1>2. ASSUME TypeOK, CancelInv, [Next]_vars
        PROVE  \A j \in Jobs : job[j] \in Terminal => job'[j] = job[j]
    BY <1>2, LifecycleStep
       DEF TypeOK, JobTableTypeOK, Lifecycle!LifecycleNext, Lifecycle!lifecycleVars,
           Lifecycle!Submit, Lifecycle!Claim, Lifecycle!Finish, Lifecycle!Cancel,
           Lifecycle!Become, Terminal
  <1> QED
    BY <1>1, <1>2, TypeCorrect, CancelStepInv, PTL DEF Spec

-----------------------------------------------------------------------------
(***************************************************************************)
(* A running job has an owner.                                             *)
(***************************************************************************)

\* RunningIsOwned for one job.
Owned(j) ==
    job[j] = "running"
        => \/ Working(j) \/ pc[j] = "lost"
           \/ MayFail("db") /\ pc[j] \in {"returned", "done"}

\* Only a claim makes a job running, and it starts the task of that job.
LEMMA RunningStays ==
  ASSUME TypeOK, [Next]_vars, NEW j \in Jobs, job'[j] = "running", job[j] # "running"
  PROVE  ClaimNextJob(j)
  <1> USE DEF TypeOK, JobTableTypeOK
  <1>1. ASSUME NEW k \in Jobs, NEW s \in {"failed", "succeeded"}, FinishIfRunning(k, s)
        PROVE  FALSE
    BY <1>1 DEF FinishIfRunning
  <1>2. ASSUME NEW k \in Jobs, CreateJob(k)
        PROVE  FALSE
    BY <1>2 DEF CreateJob
  <1>3. ASSUME NEW r \in Requests, OpenCancel(r) \/ CommitCancel(r) \/ RollbackCancel(r)
        PROVE  FALSE
    BY <1>3 DEF OpenCancel, CommitCancel, RollbackCancel
  <1>4. ASSUME NEW k \in Jobs, ClaimNextJob(k)
        PROVE  k = j
    BY <1>4 DEF ClaimNextJob
  <1> QED
    BY <1>1, <1>2, <1>3, <1>4, JobsStep

LEMMA RunningByClaim ==
  ASSUME TypeOK, [Next]_vars, NEW j \in Jobs, job'[j] = "running", job[j] # "running"
  PROVE  ClaimJob /\ pc'[j] = "start"
  <1>0. claims'[j] # claims[j]
    BY RunningStays DEF ClaimNextJob, TypeOK, JobTableTypeOK
  <1>1. ASSUME NEW k \in Jobs, Task(k)
        PROVE  UNCHANGED claims
    BY <1>1, TaskJobs DEF FinishIfRunning, jobTableVars
  <1>2. ASSUME NEW r \in Requests, StartCancel(r) \/ Request(r)
        PROVE  UNCHANGED claims
    BY <1>2, RequestJobs DEF OpenCancel, CommitCancel, RollbackCancel, jobTableVars
  <1>3. ASSUME Reaper \/ UNCHANGED vars \/ \E k \in Jobs : Submit(k) \/ Age(k)
        PROVE  UNCHANGED claims
    BY <1>3 DEF Reaper, ReapList, ReapRaises, ReapWorker, ReapTerminate, ReapMarkFailed,
                ReapFailJob, FailIfRunning, FinishIfRunning, vars, Submit, SubmitJob,
                CreateJob, Age, jobTableVars
  <1>4. ASSUME Crash \/ StartProcess
        PROVE  UNCHANGED claims
    BY <1>4 DEF Crash, ProcessDies, StartProcess, Restart, jobTableVars
  <1>5. Poll
    BY <1>0, <1>1, <1>2, <1>3, <1>4 DEF Next
  <1>6. ClaimJob
    BY <1>0, <1>5 DEF Poll, PollLoop, Acquire, ClaimNothing, jobTableVars
  <1> QED
    BY <1>0, <1>6 DEF ClaimJob, ClaimNextJob, Goto, Actors, TypeOK, ManagerTypeOK,
                      JobTableTypeOK

\* A task gives a running job up only by ending it, or by raising.
LEMMA OwnedByTask ==
  ASSUME TypeOK, NEW j \in Jobs, Task(j), Owned(j)
  PROVE  Owned(j)'
  <1>0. /\ pc \in [Actors -> PC] /\ j \in Actors /\ j \notin Requests
        /\ job \in [Jobs -> JobStatus \cup {"none"}]
    BY JobsAssumption DEF TypeOK, ManagerTypeOK, JobTableTypeOK, Actors
  <1> USE <1>0 DEF Owned, Working, ProvisionSteps, TaskSteps, At, Goto, MayFail
  <1>1. CASE TaskStart(j)
    BY <1>1 DEF TaskStart, ProvisionCreate, jobTableVars
  <1>2. CASE TaskProvision(j)
    BY <1>2 DEF TaskProvision, ProvisionLaunch, ProvisionRecord, ProvisionWait, ProvisionReady,
                ProvisionMarkFailed, ProvisionUndo, jobTableVars
  <1>3. CASE TaskExecute(j)
    BY <1>3 DEF TaskExecute, jobTableVars
  <1>4. CASE TaskFinish(j) \/ TaskFailJob(j)
    BY <1>4 DEF TaskFinish, TaskFailJob, CompleteIfRunning, FailIfRunning, FinishIfRunning
  <1>5. CASE Teardown(j)
    BY <1>5 DEF Teardown, TeardownGet, TeardownMark, TeardownKill, TeardownFinish, jobTableVars
  <1>6. CASE TaskRaises(j) \/ TaskDone(j)
    BY <1>6 DEF TaskRaises, TeardownRaises, TaskDone, jobTableVars
  <1> QED
    BY <1>1, <1>2, <1>3, <1>4, <1>5, <1>6 DEF Task, TaskStep

LEMMA OwnedStays ==
  ASSUME TypeOK, [Next]_vars, NEW j \in Jobs, Owned(j)
  PROVE  Owned(j)'
  <1>0. pc \in [Actors -> PC] /\ j \in Actors /\ j \notin Requests
    BY JobsAssumption DEF TypeOK, ManagerTypeOK, Actors
  <1>1. CASE Task(j)
    BY <1>1, OwnedByTask
  <1>2. CASE pc'[j] = pc[j] /\ (job'[j] = "running" => job[j] = "running")
    BY <1>2 DEF Owned, Working
  <1>3. CASE ClaimJob
    BY <1>0, <1>3 DEF ClaimJob, ClaimNextJob, Goto, Actors, Owned, Working, TaskSteps, TypeOK,
                      JobTableTypeOK
  <1>4. CASE Crash
    BY <1>0, <1>4 DEF Crash, ProcessDies, Owned, Working, Tasks, jobTableVars
  <1>5. ASSUME ~Task(j), ~ClaimJob, ~Crash
        PROVE  pc'[j] = pc[j]
    <2>1. ASSUME NEW k \in Jobs \ {j}, Task(k)
          PROVE  pc'[j] = pc[j]
      BY <1>0, <2>1, TaskGoto DEF Goto
    <2>2. ASSUME NEW r \in Requests, StartCancel(r) \/ Request(r)
          PROVE  pc'[j] = pc[j]
      BY <1>0, <2>2, RequestGoto DEF Goto
    <2>3. ASSUME Reaper \/ UNCHANGED vars \/ \E k \in Jobs : Submit(k) \/ Age(k)
          PROVE  pc'[j] = pc[j]
      BY <2>3 DEF Reaper, ReapList, ReapRaises, ReapWorker, ReapTerminate, ReapMarkFailed,
                  ReapFailJob, vars, Submit, SubmitJob, Age, managerVars
    <2>4. ASSUME Poll \/ StartProcess
          PROVE  pc'[j] = pc[j]
      BY <1>5, <2>4 DEF Poll, PollLoop, Acquire, ClaimNothing, StartProcess, Restart, managerVars
    <2> QED
      BY <1>5, <2>1, <2>2, <2>3, <2>4 DEF Next
  <1>6. job'[j] = "running" /\ job[j] # "running" => ClaimJob
    BY RunningByClaim
  <1> QED
    BY <1>1, <1>2, <1>3, <1>4, <1>5, <1>6

\* A job that is running is worked on by a task that will settle it, unless that task died
\* with its process or one of its own statements raised: whatever cancels, the reaper and
\* their rollbacks do in between, no job is left running by the code's own decision.
THEOREM RunningJobsAreOwned == Spec => []RunningIsOwned
  <1>1. Init => RunningIsOwned
    BY DEF Init, JobTableInit, RunningIsOwned
  <1>2. TypeOK /\ RunningIsOwned /\ [Next]_vars => RunningIsOwned'
    BY OwnedStays DEF RunningIsOwned, Owned
  <1> QED
    BY <1>1, <1>2, TypeCorrect, PTL DEF Spec

-----------------------------------------------------------------------------
(***************************************************************************)
(* Who holds a row's lock, or a permit, goes on.                           *)
(***************************************************************************)

\* A cancel holds its row between the UPDATE and the end of its transaction, and on the way
\* there it waits for no row.
HolderInv ==
    \A r \in Requests : cancelTxn[r] => pc[r] \in {"get", "mark", "respond", "commit"}

\* The steps of a request, as far as its own lock goes.
LEMMA HolderRequest ==
  ASSUME TypeOK, HolderInv, NEW r \in Requests, StartCancel(r) \/ Request(r)
  PROVE  cancelTxn'[r] => pc'[r] \in {"get", "mark", "respond", "commit"}
  <1> USE DEF At, Goto, HolderInv, OpenCancel, CommitCancel, RollbackCancel, jobTableVars,
              TypeOK, ManagerTypeOK, JobTableTypeOK, Actors
  <1>1. CASE StartCancel(r)
    BY <1>1 DEF StartCancel, CancelRead
  <1>2. CASE CancelUpdate(r) \/ CancelConflict(r) \/ CancelRespond(r)
    BY <1>2, JobsAssumption DEF CancelUpdate, CancelConflict, CancelRespond
  <1>3. CASE CancelCommit(r) \/ CancelRaises(r)
    BY <1>3 DEF CancelCommit, CancelRaises
  <1>4. CASE Teardown(r)
    <2>0. r \notin Jobs
      BY JobsAssumption
    <2>1. CASE TeardownGet(r)
      BY <2>0, <2>1 DEF TeardownGet, Returned
    <2>2. CASE TeardownMark(r)
      BY <2>2 DEF TeardownMark
    <2>3. CASE TeardownKill(r) \/ TeardownFinish(r)
      BY <2>3 DEF TeardownKill, TeardownFinish
    <2> QED
      BY <1>4, <2>1, <2>2, <2>3 DEF Teardown
  <1> QED
    BY <1>1, <1>2, <1>3, <1>4 DEF Request, CancelStep

LEMMA HolderStep ==
  ASSUME TypeOK, ControlInv, HolderInv, [Next]_vars
  PROVE  HolderInv'
  <1>0. pc \in [Actors -> PC] /\ Jobs \cap Requests = {} /\ Requests \subseteq Actors
    BY JobsAssumption DEF TypeOK, ManagerTypeOK, Actors
  <1>1. ASSUME NEW r \in Requests, StartCancel(r) \/ Request(r) PROVE HolderInv'
    <2>1. \A q \in Requests \ {r} : pc'[q] = pc[q]
      BY <1>0, <1>1, RequestGoto DEF Goto
    <2>2. \A q \in Requests \ {r} : cancelTxn'[q] = cancelTxn[q]
      BY <1>1, RequestJobs
         DEF OpenCancel, CommitCancel, RollbackCancel, jobTableVars, TypeOK, JobTableTypeOK
    <2> QED
      BY <1>1, <2>1, <2>2, HolderRequest DEF HolderInv
  <1>2. ASSUME \A r \in Requests : pc'[r] = pc[r], cancelTxn' = cancelTxn PROVE HolderInv'
    BY <1>2 DEF HolderInv
  <1>3. ASSUME NEW j \in Jobs, Task(j) PROVE HolderInv'
    BY <1>0, <1>2, <1>3, TaskGoto, TaskJobs DEF Goto, FinishIfRunning, jobTableVars
  <1>4. CASE Poll
    BY <1>0, <1>2, <1>4 DEF Poll, PollLoop, Acquire, ClaimJob, ClaimNothing, ClaimNextJob, Goto,
                            managerVars, jobTableVars
  <1>5. CASE Crash
    BY <1>0, <1>2, <1>5 DEF Crash, ProcessDies, Tasks, jobTableVars
  <1>6. CASE StartProcess \/ Reaper \/ UNCHANGED vars \/ \E j \in Jobs : Submit(j) \/ Age(j)
    BY <1>2, <1>6 DEF StartProcess, Restart, Reaper, ReapList, ReapRaises, ReapWorker,
       ReapTerminate, ReapMarkFailed, ReapFailJob, FailIfRunning, FinishIfRunning, vars, Submit,
       SubmitJob, CreateJob, Age, managerVars, jobTableVars
  <1> QED
    BY <1>1, <1>3, <1>4, <1>5, <1>6 DEF Next

\* Nobody waits for somebody who waits: the holder of a row's lock goes on to the end of its
\* transaction, and a loop that waits for a permit has a task that will give one back.
THEOREM NothingStandsStill == Spec => []NoStandstill
  <1>1. Init => HolderInv
    BY DEF Init, JobTableInit, HolderInv
  <1>2. TypeOK /\ ControlInv /\ HolderInv => NoStandstill
    <2> SUFFICES ASSUME TypeOK, ControlInv, Up, loop = "acquire", permits = 0
                 PROVE  Tasks # {}
      BY DEF HolderInv, NoStandstill
    <2>1. Cardinality(Tasks) = MaxConcurrent
      BY TasksFinite DEF ControlInv, PermitsConserved
    <2> QED
      BY <2>1, FS_EmptySet, ProcessorAssumption
  <1> QED
    BY <1>1, <1>2, TypeCorrect, Control, HolderStep, PTL DEF Spec

=============================================================================
