---------------------------- MODULE CleanupProofs ----------------------------
(***************************************************************************)
(* No instance is lost once its worker is READY, and TERMINATED means      *)
(* gone: ReadyReapable and TerminatedMeansGone, for every instance of the  *)
(* system and every fault.                                                 *)
(***************************************************************************)
EXTENDS CloudWorkerProofs

-----------------------------------------------------------------------------
(***************************************************************************)
(* The inductive invariant, in named parts.                                *)
(***************************************************************************)

\* What the position of a task says of its row and its instance.
BeforeLaunch == {"idle", "start", "launch"}
AfterRecord == TaskPC \ (BeforeLaunch \cup {"record"})
AfterReady == {"execute", "complete", "fail", "returned", "done", "lost"} \cup TeardownSteps

TaskOK(j) ==
    /\ pc[j] \in BeforeLaunch => ec2[j] = "none"
    /\ pc[j] \in {"idle", "start"} => row[j].status = "none"
    /\ row[j].instance => pc[j] \in AfterRecord
    /\ row[j].ready => row[j].instance /\ pc[j] \in AfterReady
    /\ pc[j] \in {"ssm", "ready", "execute", "complete", "fail", "get"} => row[j].instance
    /\ pc[j] \in {"mark", "kill", "finish"} => seen[j].instance

\* What an actor has read stays true of the row it read.
TeardownOK(a) ==
    /\ seen[a].instance => row[JobOf(a)].instance
    /\ seen[a].status # "none" => row[JobOf(a)].status # "none"
    /\ pc[a] \in {"mark", "kill", "finish"} => seen[a].status # "none"
    /\ pc[a] = "finish" /\ seen[a].instance => ec2[JobOf(a)] # "running"

\* A request reads the row once.
RequestOK(r) == pc[r] \in {"idle", "cancel", "get"} => seen[r].status = "none"

\* What the reaper has listed stays true of the row it listed.
ReaperOK(j) ==
    /\ listed[j] => row[j].instance
    /\ reap[j] # "idle" => row[j].status # "none"
    /\ reap[j] = "markFailed" /\ listed[j] => ec2[j] # "running"

\* Only a row nobody attends is stale, and it stays unattended.
Abandoned(j) == pc[j] \in {"returned", "done", "lost"}
StaleOK(j) ==
    ~StaleWhileAttended =>
        /\ row[j].stale => Abandoned(j)
        /\ reap[j] # "idle" => Abandoned(j) /\ (row[j].instance => listed[j])

\* The two cleanup properties, strengthened to be preserved.
GoneOK(j) ==
    row[j].status = "terminated" =>
        (ec2[j] # "running" /\ row[j].instance) \/ CancelledBlind(j)
ReadyOK(j) ==
    row[j].ready /\ ec2[j] = "running"
        => Reapable(j) \/ CancelledBlind(j) \/ ReapedBlind(j)

JobOK(j) == TaskOK(j) /\ ReaperOK(j) /\ StaleOK(j) /\ GoneOK(j) /\ ReadyOK(j)

CleanupInv ==
    /\ \A j \in Jobs : JobOK(j)
    /\ \A a \in Actors : TeardownOK(a)
    /\ \A r \in Requests : RequestOK(r)

-----------------------------------------------------------------------------
(***************************************************************************)
(* What the building blocks of the actions leave in the fields of a row.   *)
(***************************************************************************)

\* What _set_status leaves in the fields of a row.
LEMMA SetStatusFields ==
  ASSUME WorkerTableTypeOK, NEW j \in Jobs, NEW status \in WorkerStatus, SetStatus(j, status)
  PROVE  /\ \A k \in Jobs \ {j} : row'[k] = row[k]
         /\ row'[j].status = status
         /\ row'[j].instance <=> status = "provisioning" \/ row[j].instance
         /\ row'[j].ready <=> status = "ready" \/ row[j].ready
         /\ ~row'[j].stale
  <1> DEFINE instance == IF status = "provisioning" THEN TRUE ELSE row[j].instance
             ready == IF status = "ready" THEN TRUE ELSE row[j].ready
             new == [status |-> status, instance |-> instance, ready |-> ready, stale |-> FALSE]
  <1>1. row' = [row EXCEPT ![j] = new]
    BY DEF SetStatus
  <1>2. new.status = status /\ new.instance = instance /\ new.ready = ready /\ new.stale = FALSE
    OBVIOUS
  <1> HIDE DEF new
  <1>3. row'[j] = new /\ \A k \in Jobs \ {j} : row'[k] = row[k]
    BY <1>1 DEF WorkerTableTypeOK
  <1> QED
    BY <1>2, <1>3

\* What create leaves in the fields of a row.
LEMMA CreateWorkerFields ==
  ASSUME WorkerTableTypeOK, NEW j \in Jobs, CreateWorker(j)
  PROVE  /\ \A k \in Jobs \ {j} : row'[k] = row[k]
         /\ row'[j].status = "pending"
         /\ ~row'[j].instance /\ ~row'[j].ready /\ ~row'[j].stale
  BY DEF WorkerTableTypeOK, CreateWorker, NoRow

\* A task between two positions.
TaskMove(j, from, to) == pc[j] = from /\ pc' = [pc EXCEPT ![j] = to]

\* The moves of a task that touch neither its row nor its instance.
QuietMove(j) ==
    \/ \E from \in {"start", "launch", "record", "ssm", "ready", "abort", "abortInstance",
                    "undo"} :
          \E to \in {"abort", "abortInstance", "failJob"} : TaskMove(j, from, to)
    \/ TaskMove(j, "ssm", "ready")
    \/ \E to \in {"complete", "fail"} : TaskMove(j, "execute", to)
    \/ \E from \in {"complete", "fail"} : TaskMove(j, from, "get")
    \/ \E from \in {"complete", "fail", "failJob", "get", "mark", "kill", "finish"} :
          TaskMove(j, from, "returned")
    \/ TaskMove(j, "returned", "done")

\* Every step of a task by what it does to the row and the instance of its job.
LEMMA TaskCases ==
  ASSUME NEW j \in Jobs, Task(j)
  PROVE  \/ TaskMove(j, "start", "launch") /\ CreateWorker(j) /\ UNCHANGED <<ec2, seen>>
         \/ /\ \E to \in {"record", "abort"} : TaskMove(j, "launch", to)
            /\ Launch(j)
            /\ UNCHANGED <<row, seen>>
         \/ /\ TaskMove(j, "record", "ssm")
            /\ SetStatus(j, "provisioning")
            /\ UNCHANGED <<ec2, seen>>
         \/ TaskMove(j, "ready", "execute") /\ SetStatus(j, "ready") /\ UNCHANGED <<ec2, seen>>
         \/ /\ TaskMove(j, "abort", "failJob") \/ TaskMove(j, "abortInstance", "undo")
            /\ SetStatus(j, "failed")
            /\ UNCHANGED <<ec2, seen>>
         \/ TaskMove(j, "undo", "failJob") /\ Terminate(j) /\ UNCHANGED <<row, seen>>
         \/ Teardown(j)
         \/ QuietMove(j) /\ UNCHANGED <<row, ec2, seen>>
  <1> USE DEF TaskMove, QuietMove, At, Goto
  <1>1. CASE TaskStart(j)
    BY <1>1 DEF TaskStart, ProvisionCreate
  <1>2. CASE TaskProvision(j)
    BY <1>2 DEF TaskProvision, ProvisionLaunch, ProvisionRecord, ProvisionWait, ProvisionReady,
                ProvisionMarkFailed, ProvisionUndo
  <1>3. CASE TaskExecute(j) \/ TaskFinish(j) \/ TaskFailJob(j) \/ TaskDone(j)
    BY <1>3 DEF TaskExecute, TaskFinish, TaskFailJob, TaskDone
  <1>4. CASE TaskRaises(j)
    BY <1>4 DEF TaskRaises, TeardownRaises
  <1> QED
    BY <1>1, <1>2, <1>3, <1>4 DEF Task, TaskStep

\* The targets of the requests never change.
LEMMA TargetFixed ==
  ASSUME [Next]_vars
  PROVE  target' = target
  BY JobsStep DEF FinishIfRunning, ClaimNextJob, CreateJob, OpenCancel, CommitCancel,
                  RollbackCancel

-----------------------------------------------------------------------------
(***************************************************************************)
(* What stays true of a job and of an actor that a step does not concern.  *)
(***************************************************************************)

\* What a request has read it does not forget, so a blind teardown stays one.
LEMMA BlindStable ==
  ASSUME NEW k \in Jobs, CancelledBlind(k), target' = target,
         \A r \in Requests : seen[r].status # "none" => seen'[r] = seen[r]
  PROVE  CancelledBlind(k)'
  BY DEF CancelledBlind

\* A job keeps its invariant in a step that does not concern it.
LEMMA JobUntouched ==
  ASSUME NEW k \in Jobs, JobOK(k), CancelledBlind(k) => CancelledBlind(k)',
         row'[k] = row[k], ec2'[k] = ec2[k], pc'[k] = pc[k], seen'[k] = seen[k],
         reap'[k] = reap[k], listed'[k] = listed[k]
  PROVE  JobOK(k)'
  BY DEF JobOK, TaskOK, ReaperOK, StaleOK, Abandoned, GoneOK, ReadyOK, Reapable, ReapedBlind

\* What an actor has read stays true when another actor steps.
LEMMA TeardownUntouched ==
  ASSUME NEW a \in Actors, TeardownOK(a), target' = target,
         pc'[a] = pc[a], seen'[a] = seen[a],
         row[JobOf(a)].instance => row'[JobOf(a)].instance,
         row[JobOf(a)].status # "none" => row'[JobOf(a)].status # "none",
         row[JobOf(a)].instance /\ ec2[JobOf(a)] # "running" => ec2'[JobOf(a)] # "running"
  PROVE  TeardownOK(a)'
  BY DEF TeardownOK, JobOf

-----------------------------------------------------------------------------
(***************************************************************************)
(* The steps of a task.                                                    *)
(***************************************************************************)

\* A task touches its own row, its own instance and its own control state.
LEMMA TaskLocal ==
  ASSUME TypeOK, NEW j \in Jobs, Task(j)
  PROVE  /\ \A k \in Jobs \ {j} : row'[k] = row[k] /\ ec2'[k] = ec2[k]
         /\ \A a \in Actors \ {j} : pc'[a] = pc[a] /\ seen'[a] = seen[a]
         /\ target' = target /\ reap' = reap /\ listed' = listed
  <1> USE DEF TypeOK, WorkerTableTypeOK, ManagerTypeOK
  <1>1. \A k \in Jobs \ {j} : row'[k] = row[k]
    BY TaskRow, SetStatusFields, CreateWorkerFields
  <1>2. \A k \in Jobs \ {j} : ec2'[k] = ec2[k]
    BY TaskEc2 DEF Launch, Terminate
  <1>3. \A a \in Actors \ {j} : pc'[a] = pc[a] /\ seen'[a] = seen[a]
    BY TaskGoto, TaskSeen DEF Goto
  <1>4. target' = target
    BY TaskJobs DEF FinishIfRunning, jobTableVars
  <1>5. reap' = reap /\ listed' = listed
    BY TaskFrame DEF reaperVars
  <1> QED
    BY <1>1, <1>2, <1>3, <1>4, <1>5

\* One step of a task, in each of its cases, for the job of the task.
LEMMA TaskJobOK ==
  ASSUME TypeOK, ControlInv, CleanupInv, NEW j \in Jobs, Task(j)
  PROVE  JobOK(j)'
  <1> USE DEF JobOK
  <1>0. /\ WorkerTableTypeOK
        /\ pc \in [Actors -> PC] /\ j \in Actors /\ j \notin Requests /\ JobOf(j) = j
        /\ ec2 \in [Jobs -> Ec2State] /\ seen \in [Actors -> Row]
        /\ JobOK(j) /\ TeardownOK(j)
        /\ pc[j] \in TaskPC
    BY JobsAssumption DEF TypeOK, ManagerTypeOK, Actors, CleanupInv, ControlInv, PcInv, JobOf
  <1>1. CancelledBlind(j) => CancelledBlind(j)'
    BY <1>0, TaskLocal, BlindStable DEF Actors
  <1>2. reap' = reap /\ listed' = listed
    BY TaskLocal
  <1> USE <1>0, <1>1, <1>2
          DEF TaskMove, BeforeLaunch, AfterRecord, AfterReady, TaskPC, ProvisionSteps,
              TeardownSteps, TaskSteps
  <1>3. CASE TaskMove(j, "start", "launch") /\ CreateWorker(j) /\ UNCHANGED <<ec2, seen>>
    BY <1>3, CreateWorkerFields
       DEF TaskOK, ReaperOK, StaleOK, GoneOK, ReadyOK, Abandoned
  <1>4. CASE /\ \E to \in {"record", "abort"} : TaskMove(j, "launch", to)
             /\ Launch(j)
             /\ UNCHANGED <<row, seen>>
    BY <1>4 DEF TaskOK, ReaperOK, StaleOK, GoneOK, ReadyOK, Abandoned, Launch
  <1>5. CASE TaskMove(j, "record", "ssm") /\ SetStatus(j, "provisioning") /\ UNCHANGED <<ec2, seen>>
    BY <1>5, SetStatusFields
       DEF TaskOK, ReaperOK, StaleOK, GoneOK, ReadyOK, Abandoned, WorkerStatus, NonTerminalWorker
  <1>6. CASE TaskMove(j, "ready", "execute") /\ SetStatus(j, "ready") /\ UNCHANGED <<ec2, seen>>
    BY <1>6, SetStatusFields
       DEF TaskOK, ReaperOK, StaleOK, GoneOK, ReadyOK, Abandoned, Reapable, WorkerStatus,
           NonTerminalWorker
  <1>7. CASE /\ TaskMove(j, "abort", "failJob") \/ TaskMove(j, "abortInstance", "undo")
             /\ SetStatus(j, "failed")
             /\ UNCHANGED <<ec2, seen>>
    <2>1. /\ row'[j].status = "failed" /\ ~row'[j].stale
          /\ row'[j].instance <=> row[j].instance
          /\ row'[j].ready <=> row[j].ready
      BY <1>7, SetStatusFields DEF WorkerStatus, FinishedWorker
    <2> QED
      BY <1>7, <2>1 DEF TaskOK, ReaperOK, StaleOK, GoneOK, ReadyOK, Abandoned
  <1>8. CASE TaskMove(j, "undo", "failJob") /\ Terminate(j) /\ UNCHANGED <<row, seen>>
    BY <1>8 DEF TaskOK, ReaperOK, StaleOK, GoneOK, ReadyOK, Abandoned, Terminate
  <1>9. CASE TeardownGet(j)
    BY <1>9 DEF TeardownGet, At, Goto, Returned, TaskOK, ReaperOK, StaleOK, GoneOK, ReadyOK,
                Abandoned, Reapable, ReapedBlind
  <1>10. CASE TeardownMark(j)
    <2>1. CASE UNCHANGED row
      BY <1>10, <2>1 DEF TeardownMark, At, Goto, TaskOK, ReaperOK, StaleOK, GoneOK, ReadyOK,
                         Abandoned, Reapable, ReapedBlind
    <2>2. CASE SetStatus(j, "terminating")
      <3>1. /\ row'[j].status = "terminating" /\ ~row'[j].stale
            /\ row'[j].instance <=> row[j].instance
            /\ row'[j].ready <=> row[j].ready
        BY <2>2, SetStatusFields DEF WorkerStatus, NonTerminalWorker
      <3> QED
        BY <1>10, <3>1 DEF TeardownMark, At, Goto, TaskOK, ReaperOK, StaleOK, GoneOK, ReadyOK,
                           Abandoned, Reapable, NonTerminalWorker
    <2> QED
      BY <1>10, <2>1, <2>2 DEF TeardownMark, MarkTerminating
  <1>11. CASE TeardownKill(j)
    BY <1>11 DEF TeardownKill, Terminate, At, Goto, TaskOK, ReaperOK, StaleOK, GoneOK,
                 ReadyOK, Abandoned, Reapable, ReapedBlind
  <1>12. CASE TeardownFinish(j)
    BY <1>12, SetStatusFields
       DEF TeardownFinish, At, Goto, Returned, TaskOK, ReaperOK, StaleOK, GoneOK, ReadyOK,
           Abandoned, TeardownOK, WorkerStatus, FinishedWorker
  <1>13. CASE QuietMove(j) /\ UNCHANGED <<row, ec2, seen>>
    BY <1>13 DEF QuietMove, TaskOK, ReaperOK, StaleOK, GoneOK, ReadyOK, Abandoned, Reapable,
                 ReapedBlind
  <1> QED
    BY <1>3, <1>4, <1>5, <1>6, <1>7, <1>8, <1>9, <1>10, <1>11, <1>12, <1>13, TaskCases
       DEF Teardown

\* What the task itself knows of its row.
LEMMA TaskTeardownOK ==
  ASSUME TypeOK, ControlInv, CleanupInv, NEW j \in Jobs, Task(j)
  PROVE  TeardownOK(j)'
  <1>0. /\ WorkerTableTypeOK
        /\ pc \in [Actors -> PC] /\ j \in Actors /\ j \notin Requests
        /\ JobOf(j) = j /\ JobOf(j)' = j
        /\ ec2 \in [Jobs -> Ec2State] /\ seen \in [Actors -> Row]
        /\ TaskOK(j) /\ TeardownOK(j)
        /\ pc[j] \in TaskPC
    BY JobsAssumption
       DEF TypeOK, ManagerTypeOK, Actors, CleanupInv, JobOK, ControlInv, PcInv, JobOf
  <1> USE <1>0
          DEF TaskMove, BeforeLaunch, AfterRecord, AfterReady, TaskPC, ProvisionSteps,
              TeardownSteps, TaskSteps, TeardownOK
  <1>3. CASE TaskMove(j, "start", "launch") /\ CreateWorker(j) /\ UNCHANGED <<ec2, seen>>
    BY <1>3, CreateWorkerFields DEF TaskOK
  <1>4. CASE /\ \E to \in {"record", "abort"} : TaskMove(j, "launch", to)
             /\ UNCHANGED <<row, seen>>
    BY <1>4
  <1>5. CASE /\ \/ TaskMove(j, "record", "ssm") /\ SetStatus(j, "provisioning")
                \/ TaskMove(j, "ready", "execute") /\ SetStatus(j, "ready")
                \/ TaskMove(j, "abort", "failJob") /\ SetStatus(j, "failed")
                \/ TaskMove(j, "abortInstance", "undo") /\ SetStatus(j, "failed")
             /\ UNCHANGED <<ec2, seen>>
    <2>1. row'[j].status # "none" /\ (row[j].instance => row'[j].instance)
      BY <1>5, SetStatusFields DEF WorkerStatus, NonTerminalWorker, FinishedWorker
    <2> QED
      BY <1>5, <2>1
  <1>6. CASE TaskMove(j, "undo", "failJob") /\ UNCHANGED <<row, seen>>
    BY <1>6
  <1>7. CASE TeardownGet(j)
    BY <1>7 DEF TeardownGet, At, Goto, Returned, NothingToTerminate
  <1>8. CASE TeardownMark(j)
    <2>1. row'[j].status # "none" /\ (row[j].instance => row'[j].instance)
      BY <1>8, SetStatusFields DEF TeardownMark, MarkTerminating, WorkerStatus, NonTerminalWorker, At
    <2> QED
      BY <1>8, <2>1 DEF TeardownMark, At, Goto
  <1>9. CASE TeardownKill(j)
    BY <1>9 DEF TeardownKill, Terminate, At, Goto
  <1>10. CASE TeardownFinish(j)
    <2>1. row'[j].status # "none" /\ (row[j].instance => row'[j].instance)
      BY <1>10, SetStatusFields DEF TeardownFinish, WorkerStatus, FinishedWorker
    <2> QED
      BY <1>10, <2>1 DEF TeardownFinish, At, Goto, Returned
  <1>11. CASE QuietMove(j) /\ UNCHANGED <<row, ec2, seen>>
    BY <1>11 DEF QuietMove
  <1> QED
    BY <1>3, <1>4, <1>5, <1>6, <1>7, <1>8, <1>9, <1>10, <1>11, TaskCases DEF Teardown

\* A task never clears the instance id, and launches only before it has one.
LEMMA TaskMonotone ==
  ASSUME TypeOK, ControlInv, CleanupInv, NEW j \in Jobs, Task(j)
  PROVE  /\ row[j].instance => row'[j].instance
         /\ row[j].status # "none" => row'[j].status # "none"
         /\ row[j].instance /\ ec2[j] # "running" => ec2'[j] # "running"
  <1>0. TaskOK(j) /\ WorkerTableTypeOK /\ ec2 \in [Jobs -> Ec2State]
    BY DEF CleanupInv, JobOK, TypeOK, ManagerTypeOK
  <1>1. UNCHANGED ec2 \/ Terminate(j) \/ pc[j] = "launch"
    BY TaskCases DEF TaskMove, Teardown, TeardownGet, TeardownMark, TeardownKill,
                     TeardownFinish, JobOf
  <1>2. \/ UNCHANGED row
        \/ pc[j] = "start" /\ CreateWorker(j)
        \/ \E status \in WorkerStatus : SetStatus(j, status)
    <2>1. CASE Teardown(j)
      BY <2>1 DEF Teardown, TeardownGet, TeardownMark, TeardownKill, TeardownFinish, JobOf,
                  MarkTerminating, WorkerStatus, NonTerminalWorker, FinishedWorker
    <2>2. CASE SetStatus(j, "provisioning") \/ SetStatus(j, "ready") \/ SetStatus(j, "failed")
      BY <2>2 DEF WorkerStatus, NonTerminalWorker, FinishedWorker
    <2> QED
      BY <2>1, <2>2, TaskCases DEF TaskMove
  <1>3. row[j].instance /\ ec2[j] # "running" => ec2'[j] # "running"
    BY <1>0, <1>1 DEF Terminate, TaskOK, AfterRecord, BeforeLaunch
  <1>4. CASE pc[j] = "start" /\ CreateWorker(j)
    BY <1>0, <1>3, <1>4, CreateWorkerFields DEF TaskOK, AfterRecord, BeforeLaunch
  <1>5. CASE \E status \in WorkerStatus : SetStatus(j, status)
    BY <1>0, <1>3, <1>5, SetStatusFields DEF WorkerStatus, NonTerminalWorker, FinishedWorker
  <1> QED
    BY <1>2, <1>3, <1>4, <1>5

\* A step of a task keeps CleanupInv.
LEMMA CleanupTask ==
  ASSUME TypeOK, ControlInv, CleanupInv, NEW j \in Jobs, Task(j)
  PROVE  CleanupInv'
  <1>0. /\ j \notin Requests
        /\ \A k \in Jobs \ {j} : row'[k] = row[k] /\ ec2'[k] = ec2[k]
        /\ \A a \in Actors \ {j} : pc'[a] = pc[a] /\ seen'[a] = seen[a]
        /\ target' = target /\ reap' = reap /\ listed' = listed
    BY TaskLocal, JobsAssumption
  <1>1. ASSUME NEW k \in Jobs
        PROVE  JobOK(k)'
    <2>1. CASE k = j
      BY <2>1, TaskJobOK
    <2>2. CASE k # j
      <3>1. CancelledBlind(k) => CancelledBlind(k)'
        BY <1>0, BlindStable DEF Actors
      <3> QED
        BY <1>0, <2>2, <3>1, JobUntouched DEF CleanupInv, Actors
    <2> QED
      BY <2>1, <2>2
  <1>2. /\ row[j].instance => row'[j].instance
        /\ row[j].status # "none" => row'[j].status # "none"
        /\ row[j].instance /\ ec2[j] # "running" => ec2'[j] # "running"
    BY TaskMonotone
  <1>3. ASSUME NEW a \in Actors
        PROVE  TeardownOK(a)'
    <2>1. CASE a = j
      BY <2>1, TaskTeardownOK
    <2>2. CASE a # j
      <3>1. JobOf(a) \in Jobs
        BY DEF JobOf, TypeOK, JobTableTypeOK, Actors
      <3>2. TeardownOK(a) /\ pc'[a] = pc[a] /\ seen'[a] = seen[a]
        BY <1>0, <2>2 DEF CleanupInv
      <3> QED
        BY <1>0, <1>2, <3>1, <3>2, TeardownUntouched
    <2> QED
      BY <2>1, <2>2
  <1>4. ASSUME NEW r \in Requests
        PROVE  RequestOK(r)'
    BY <1>0 DEF CleanupInv, RequestOK, Actors
  <1> QED
    BY <1>1, <1>3, <1>4 DEF CleanupInv

-----------------------------------------------------------------------------
(***************************************************************************)
(* The steps of a cancel request.                                          *)
(***************************************************************************)

\* Outside the teardown a request moves on and touches no worker.
LEMMA RequestCases ==
  ASSUME NEW r \in Requests, StartCancel(r) \/ Request(r)
  PROVE  \/ Teardown(r)
         \/ /\ UNCHANGED <<row, ec2, seen>>
            /\ \/ pc[r] = "idle" /\ Goto(r, "cancel")
               \/ pc[r] = "cancel" /\ Goto(r, "get")
               \/ \E to \in {"respond", "commit", "done"} : Goto(r, to)
  BY DEF StartCancel, CancelRead, Request, CancelStep, CancelUpdate, CancelConflict,
         CancelRespond, CancelCommit, CancelRaises, At

\* A request touches the row and the instance of its target, and its own control state.
LEMMA RequestLocal ==
  ASSUME TypeOK, CleanupInv, NEW r \in Requests, StartCancel(r) \/ Request(r)
  PROVE  /\ \A k \in Jobs \ {target[r]} : row'[k] = row[k] /\ ec2'[k] = ec2[k]
         /\ \A a \in Actors \ {r} : pc'[a] = pc[a] /\ seen'[a] = seen[a]
         /\ seen[r].status # "none" => seen'[r] = seen[r]
         /\ target' = target /\ reap' = reap /\ listed' = listed
  <1> USE DEF TypeOK, WorkerTableTypeOK, ManagerTypeOK
  <1>0. r \notin Jobs /\ JobOf(r) = target[r] /\ target[r] \in Jobs /\ RequestOK(r)
    BY JobsAssumption DEF JobOf, JobTableTypeOK, CleanupInv
  <1>1. \A k \in Jobs \ {target[r]} : row'[k] = row[k]
    BY <1>0, RequestRow, SetStatusFields
  <1>2. \A k \in Jobs \ {target[r]} : ec2'[k] = ec2[k]
    BY <1>0, RequestEc2 DEF Terminate
  <1>3. \A a \in Actors \ {r} : pc'[a] = pc[a] /\ seen'[a] = seen[a]
    BY RequestGoto, RequestSeen DEF Goto
  <1>4. seen[r].status # "none" => seen'[r] = seen[r]
    BY <1>0, RequestSeen DEF RequestOK, At
  <1>5. target' = target /\ reap' = reap /\ listed' = listed
    BY RequestJobs, RequestFrame
       DEF OpenCancel, CommitCancel, RollbackCancel, reaperVars, jobTableVars
  <1> QED
    BY <1>1, <1>2, <1>3, <1>4, <1>5

\* The row of the target keeps its fields but the status, and is written only when it exists.
LEMMA RequestTarget ==
  ASSUME TypeOK, CleanupInv, NEW r \in Requests, StartCancel(r) \/ Request(r),
         NEW j \in Jobs, j = target[r]
  PROVE  /\ ec2'[j] = ec2[j] \/ (ec2[j] = "running" /\ ec2'[j] = "terminated")
         /\ row'[j].instance <=> row[j].instance
         /\ row'[j].ready <=> row[j].ready
         /\ row'[j].stale => row[j].stale
         /\ \/ row'[j] = row[j]
            \/ row[j].status # "none" /\ row'[j].status = "terminating"
            \/ /\ row[j].status # "none" /\ row'[j].status = "terminated"
               /\ pc[r] = "finish" /\ ec2'[j] = ec2[j] /\ seen'[r] = seen[r]
  <1>0. r \notin Jobs /\ JobOf(r) = j /\ TeardownOK(r) /\ r \in Actors
    BY JobsAssumption DEF JobOf, CleanupInv, Actors
  <1>1. ec2'[j] = ec2[j] \/ (ec2[j] = "running" /\ ec2'[j] = "terminated")
    BY <1>0, RequestEc2 DEF Terminate, TypeOK, ManagerTypeOK
  <1>2. CASE UNCHANGED row
    BY <1>1, <1>2
  <1>3. CASE TeardownMark(r) /\ SetStatus(j, "terminating")
    <2>1. row[j].status # "none"
      BY <1>0, <1>3 DEF TeardownMark, At, TeardownOK
    <2> QED
      BY <1>1, <1>3, <2>1, SetStatusFields DEF TypeOK, WorkerStatus, NonTerminalWorker
  <1>4. CASE TeardownFinish(r)
    <2>1. row[j].status # "none" /\ pc[r] = "finish" /\ ec2'[j] = ec2[j] /\ seen'[r] = seen[r]
      BY <1>0, <1>4 DEF TeardownFinish, At, TeardownOK
    <2> QED
      BY <1>0, <1>4, <2>1, SetStatusFields DEF TeardownFinish, TypeOK, WorkerStatus, FinishedWorker
  <1> QED
    BY <1>0, <1>2, <1>3, <1>4, RequestCases
       DEF Teardown, TeardownGet, TeardownMark, TeardownKill, MarkTerminating

\* A step of a request keeps CleanupInv: a teardown it makes blind is CancelledBlind.
LEMMA CleanupRequest ==
  ASSUME TypeOK, ControlInv, CleanupInv, NEW r \in Requests, StartCancel(r) \/ Request(r)
  PROVE  CleanupInv'
  <1> PICK j \in Jobs : j = target[r]
    BY DEF TypeOK, JobTableTypeOK
  <1>0. /\ r \in Actors /\ r \notin Jobs /\ JobOf(r) = j /\ JobOf(r)' = j
        /\ pc[j] \in TaskPC /\ j \in Actors
        /\ JobOK(j) /\ TeardownOK(r) /\ RequestOK(r)
        /\ pc \in [Actors -> PC] /\ seen \in [Actors -> Row]
    BY JobsAssumption, RequestLocal
       DEF JobOf, TypeOK, JobTableTypeOK, Actors, CleanupInv, ControlInv, PcInv, ManagerTypeOK
  <1>1. /\ \A k \in Jobs \ {j} : row'[k] = row[k] /\ ec2'[k] = ec2[k]
        /\ \A a \in Actors \ {r} : pc'[a] = pc[a] /\ seen'[a] = seen[a]
        /\ seen[r].status # "none" => seen'[r] = seen[r]
        /\ target' = target /\ reap' = reap /\ listed' = listed
    BY RequestLocal
  <1>2. /\ ec2'[j] = ec2[j] \/ (ec2[j] = "running" /\ ec2'[j] = "terminated")
        /\ row'[j].instance <=> row[j].instance
        /\ row'[j].ready <=> row[j].ready
        /\ row'[j].stale => row[j].stale
        /\ \/ row'[j] = row[j]
           \/ row[j].status # "none" /\ row'[j].status = "terminating"
           \/ /\ row[j].status # "none" /\ row'[j].status = "terminated"
              /\ pc[r] = "finish" /\ ec2'[j] = ec2[j] /\ seen'[r] = seen[r]
    BY RequestTarget
  <1>3. ASSUME NEW k \in Jobs, CancelledBlind(k)
        PROVE  CancelledBlind(k)'
    BY <1>1, <1>3, BlindStable DEF Actors
  <1>4. JobOK(j)'
    <2>0. /\ pc'[j] = pc[j] /\ seen'[j] = seen[j]
          /\ TaskOK(j) /\ ReaperOK(j) /\ StaleOK(j) /\ GoneOK(j) /\ ReadyOK(j)
      BY <1>0, <1>1 DEF JobOK
    <2>1. TaskOK(j)'
      BY <1>2, <2>0 DEF TaskOK, BeforeLaunch
    <2>2. ReaperOK(j)' /\ StaleOK(j)'
      BY <1>1, <1>2, <2>0 DEF ReaperOK, StaleOK, Abandoned
    <2>3. row'[j].status = "terminated" =>
             \/ ec2'[j] # "running" /\ row'[j].instance
             \/ CancelledBlind(j)'
      <3>1. CASE row'[j] = row[j] \/ row'[j].status = "terminating"
        BY <1>0, <1>2, <1>3, <2>0, <3>1 DEF GoneOK
      <3>2. CASE pc[r] = "finish" /\ ec2'[j] = ec2[j] /\ seen'[r] = seen[r]
        <4>1. CASE seen[r].instance
          BY <1>0, <1>2, <3>2, <4>1 DEF TeardownOK
        <4>2. CASE ~seen[r].instance
          BY <1>0, <1>1, <3>2, <4>2 DEF TeardownOK, CancelledBlind
        <4> QED
          BY <4>1, <4>2
      <3> QED
        BY <1>2, <3>1, <3>2
    <2>4. GoneOK(j)'
      BY <2>3 DEF GoneOK
    <2>5. ReadyOK(j)'
      <3>1. CASE row'[j] = row[j]
        BY <1>0, <1>1, <1>2, <1>3, <2>0, <3>1 DEF ReadyOK, Reapable, ReapedBlind
      <3>2. CASE row'[j].status = "terminating"
        BY <1>2, <2>0, <3>2 DEF ReadyOK, TaskOK, Reapable, NonTerminalWorker
      <3>3. CASE row'[j].status = "terminated"
        BY <2>3, <3>3 DEF ReadyOK
      <3> QED
        BY <1>2, <3>1, <3>2, <3>3
    <2> QED
      BY <2>1, <2>2, <2>4, <2>5 DEF JobOK
  <1>5. ASSUME NEW k \in Jobs \ {j}
        PROVE  JobOK(k)'
    BY <1>0, <1>1, <1>3, JobUntouched DEF CleanupInv, Actors
  <1>6. ASSUME NEW a \in Actors \ {r}
        PROVE  TeardownOK(a)'
    <2>1. JobOf(a) \in Jobs /\ TeardownOK(a)
      BY DEF JobOf, TypeOK, JobTableTypeOK, Actors, CleanupInv
    <2>2. /\ row[JobOf(a)].instance => row'[JobOf(a)].instance
          /\ row[JobOf(a)].status # "none" => row'[JobOf(a)].status # "none"
          /\ row[JobOf(a)].instance /\ ec2[JobOf(a)] # "running" => ec2'[JobOf(a)] # "running"
      BY <1>1, <1>2, <2>1
    <2> QED
      BY <1>1, <2>1, <2>2, TeardownUntouched
  <1>7. TeardownOK(r)' /\ RequestOK(r)'
    <2>1. CASE TeardownGet(r)
      BY <1>0, <2>1
         DEF TeardownGet, TeardownOK, RequestOK, At, Goto, Returned, NothingToTerminate
    <2>2. CASE TeardownMark(r) \/ TeardownFinish(r)
      BY <1>0, <1>2, <2>2
         DEF TeardownMark, TeardownFinish, TeardownOK, RequestOK, At, Goto, Returned
    <2>3. CASE TeardownKill(r)
      <3>1. ec2'[j] # "running"
        BY <1>0, <2>3 DEF TeardownKill, Terminate, TypeOK, ManagerTypeOK
      <3> QED
        BY <1>0, <1>2, <2>3, <3>1 DEF TeardownKill, TeardownOK, RequestOK, At, Goto
    <2>4. CASE /\ UNCHANGED <<row, ec2, seen>>
               /\ \/ pc[r] = "idle" /\ Goto(r, "cancel")
                  \/ pc[r] = "cancel" /\ Goto(r, "get")
                  \/ \E to \in {"respond", "commit", "done"} : Goto(r, to)
      BY <1>0, <2>4 DEF TeardownOK, RequestOK, Goto
    <2> QED
      BY <2>1, <2>2, <2>3, <2>4, RequestCases DEF Teardown
  <1>8. ASSUME NEW q \in Requests \ {r}
        PROVE  RequestOK(q)'
    BY <1>1 DEF CleanupInv, RequestOK, Actors
  <1> QED
    BY <1>4, <1>5, <1>6, <1>7, <1>8 DEF CleanupInv

-----------------------------------------------------------------------------
(***************************************************************************)
(* The steps of the reaper.                                                *)
(***************************************************************************)

\* The reaper's terminate keeps CleanupInv.
LEMMA CleanupReapTerminate ==
  ASSUME TypeOK, CleanupInv, Reaper, NEW j \in Jobs, ReapTerminate(j)
  PROVE  CleanupInv'
  <1>1. /\ UNCHANGED <<row, pc, seen, listed, target>>
        /\ \A k \in Jobs : ec2'[k] = ec2[k] \/ (ec2[k] = "running" /\ ec2'[k] = "terminated")
        /\ \A k \in Jobs \ {j} : ec2'[k] = ec2[k] /\ reap'[k] = reap[k]
        /\ reap[j] = "listed" /\ reap'[j] = "markFailed"
        /\ listed[j] => ec2'[j] # "running"
    BY DEF TypeOK, ManagerTypeOK, ReaperTypeOK, ReapTerminate, NextReapStep, Terminate,
           jobTableVars
  <1>2. ASSUME NEW k \in Jobs
        PROVE  JobOK(k)'
    <2>1. /\ CancelledBlind(k) => CancelledBlind(k)'
          /\ TaskOK(k) /\ ReaperOK(k) /\ StaleOK(k) /\ GoneOK(k) /\ ReadyOK(k)
      BY <1>1 DEF CancelledBlind, CleanupInv, JobOK
    <2>2. TaskOK(k)'
      BY <1>1, <2>1 DEF TaskOK, BeforeLaunch
    <2>3. ReaperOK(k)' /\ StaleOK(k)'
      BY <1>1, <2>1 DEF ReaperOK, StaleOK, Abandoned
    <2>4. GoneOK(k)' /\ ReadyOK(k)'
      BY <1>1, <2>1 DEF GoneOK, ReadyOK, Reapable, ReapedBlind
    <2> QED
      BY <2>2, <2>3, <2>4 DEF JobOK
  <1>3. ASSUME NEW a \in Actors
        PROVE  TeardownOK(a)'
    <2>1. JobOf(a) \in Jobs /\ TeardownOK(a)
      BY DEF JobOf, TypeOK, JobTableTypeOK, Actors, CleanupInv
    <2> QED
      BY <1>1, <2>1, TeardownUntouched
  <1>4. \A r \in Requests : RequestOK(r)'
    BY <1>1 DEF CleanupInv, RequestOK
  <1> QED
    BY <1>2, <1>3, <1>4 DEF CleanupInv

\* The reaper's mark_failed keeps CleanupInv: the listed instance no longer runs.
LEMMA CleanupReapMarkFailed ==
  ASSUME TypeOK, CleanupInv, Reaper, NEW j \in Jobs, ReapMarkFailed(j)
  PROVE  CleanupInv'
  <1>1. /\ UNCHANGED <<ec2, pc, seen, listed, target>>
        /\ \A k \in Jobs \ {j} : row'[k] = row[k] /\ reap'[k] = reap[k]
        /\ reap[j] = "markFailed" /\ reap'[j] = "failJob"
        /\ row'[j].status = "failed" /\ ~row'[j].stale
        /\ row'[j].instance <=> row[j].instance
        /\ row'[j].ready <=> row[j].ready
    <2>1. SetStatus(j, "failed") /\ UNCHANGED <<ec2, pc, seen, listed, target>>
      BY DEF ReapMarkFailed, managerVars, jobTableVars
    <2>2. /\ \A k \in Jobs \ {j} : reap'[k] = reap[k]
          /\ reap[j] = "markFailed" /\ reap'[j] = "failJob"
      BY DEF TypeOK, ReaperTypeOK, ReapMarkFailed, NextReapStep
    <2> QED
      BY <2>1, <2>2, SetStatusFields DEF TypeOK, WorkerStatus, FinishedWorker
  <1>2. JobOK(j)'
    <2>1. TaskOK(j) /\ ReaperOK(j) /\ StaleOK(j) /\ ReadyOK(j)
      BY DEF CleanupInv, JobOK
    <2>2. TaskOK(j)'
      BY <1>1, <2>1 DEF TaskOK, ReaperOK
    <2>3. ReaperOK(j)' /\ StaleOK(j)'
      BY <1>1, <2>1 DEF ReaperOK, StaleOK, Abandoned
    <2>4. GoneOK(j)'
      BY <1>1 DEF GoneOK
    <2>5. ReadyOK(j)'
      BY <1>1, <2>1 DEF ReadyOK, ReapedBlind, TaskOK, ReaperOK, StaleOK
    <2> QED
      BY <2>2, <2>3, <2>4, <2>5 DEF JobOK
  <1>3. ASSUME NEW k \in Jobs \ {j}
        PROVE  JobOK(k)'
    <2>1. CancelledBlind(k) => CancelledBlind(k)'
      BY <1>1 DEF CancelledBlind
    <2> QED
      BY <1>1, <2>1, JobUntouched DEF CleanupInv
  <1>4. ASSUME NEW a \in Actors
        PROVE  TeardownOK(a)'
    <2>1. JobOf(a) \in Jobs /\ TeardownOK(a)
      BY DEF JobOf, TypeOK, JobTableTypeOK, Actors, CleanupInv
    <2>2. /\ row[JobOf(a)].instance => row'[JobOf(a)].instance
          /\ row[JobOf(a)].status # "none" => row'[JobOf(a)].status # "none"
      BY <1>1, <2>1
    <2> QED
      BY <1>1, <2>1, <2>2, TeardownUntouched
  <1>5. \A r \in Requests : RequestOK(r)'
    BY <1>1 DEF CleanupInv, RequestOK
  <1> QED
    BY <1>2, <1>3, <1>4, <1>5 DEF CleanupInv

\* The other steps of the reaper only list a batch, or leave it.
LEMMA CleanupReapBatch ==
  ASSUME TypeOK, CleanupInv, Reaper,
         ReapList \/ ReapRaises \/ \E j \in Jobs : ReapFailJob(j)
  PROVE  CleanupInv'
  <1>1. UNCHANGED <<row, ec2, pc, seen, target>>
    BY DEF ReapList, ReapRaises, ReapForgets, ReapFailJob, FailIfRunning, FinishIfRunning,
           managerVars, jobTableVars
  <1>2. ASSUME NEW k \in Jobs
        PROVE  \/ reap'[k] \in {reap[k], "idle"} /\ listed'[k] = listed[k]
               \/ k \in Stale /\ reap'[k] = "listed" /\ (listed'[k] <=> row[k].instance)
               \/ k \notin Stale /\ reap'[k] = "idle" /\ ~listed'[k]
    BY DEF ReapList, ReapRaises, ReapForgets, ReapFailJob, NextReapStep, TypeOK, ReaperTypeOK
  <1>3. ASSUME NEW k \in Jobs
        PROVE  JobOK(k)'
    <2>1. /\ CancelledBlind(k) => CancelledBlind(k)'
          /\ TaskOK(k) /\ ReaperOK(k) /\ StaleOK(k) /\ GoneOK(k) /\ ReadyOK(k)
      BY <1>1 DEF CancelledBlind, CleanupInv, JobOK
    <2>2. TaskOK(k)' /\ GoneOK(k)'
      BY <1>1, <2>1 DEF TaskOK, GoneOK
    <2>3. ReaperOK(k)' /\ StaleOK(k)'
      BY <1>1, <1>2, <2>1 DEF ReaperOK, StaleOK, Abandoned, Stale, NonTerminalWorker
    <2>4. ReadyOK(k)'
      BY <1>1, <1>2, <2>1
         DEF ReadyOK, Reapable, ReapedBlind, Stale, NonTerminalWorker
    <2> QED
      BY <2>2, <2>3, <2>4 DEF JobOK
  <1>4. ASSUME NEW a \in Actors
        PROVE  TeardownOK(a)'
    BY <1>1 DEF CleanupInv, TeardownOK, JobOf
  <1>5. \A r \in Requests : RequestOK(r)'
    BY <1>1 DEF CleanupInv, RequestOK
  <1> QED
    BY <1>3, <1>4, <1>5 DEF CleanupInv

-----------------------------------------------------------------------------
(***************************************************************************)
(* The steps of the poll loop, the process, clients and time.              *)
(***************************************************************************)

\* A claim keeps CleanupInv.
LEMMA CleanupClaim ==
  ASSUME TypeOK, ControlInv, CleanupInv, ClaimJob, UNCHANGED reaperVars
  PROVE  CleanupInv'
  <1> PICK j \in Jobs : ClaimNextJob(j) /\ Goto(j, "start")
    BY DEF ClaimJob
  <1>0. /\ pc[j] = "idle" /\ pc'[j] = "start" /\ j \notin Requests
        /\ \A a \in Actors \ {j} : pc'[a] = pc[a]
        /\ UNCHANGED <<row, ec2, seen, reap, listed, target>>
    BY JobsAssumption
       DEF ClaimJob, ClaimNextJob, Claimable, ControlInv, ClaimInv, Goto, TypeOK,
           ManagerTypeOK, Actors, reaperVars
  <1>1. ASSUME NEW k \in Jobs
        PROVE  JobOK(k)'
    <2>1. (CancelledBlind(k) => CancelledBlind(k)') /\ JobOK(k)
      BY <1>0 DEF CancelledBlind, CleanupInv
    <2>2. CASE k = j
      BY <1>0, <2>1, <2>2
         DEF JobOK, TaskOK, ReaperOK, StaleOK, GoneOK, ReadyOK, Abandoned, BeforeLaunch,
             AfterRecord
    <2>3. CASE k # j
      BY <1>0, <2>1, <2>3, JobUntouched DEF Actors
    <2> QED
      BY <2>2, <2>3
  <1>2. ASSUME NEW a \in Actors
        PROVE  TeardownOK(a)'
    BY <1>0 DEF CleanupInv, TeardownOK, JobOf
  <1>3. \A r \in Requests : RequestOK(r)'
    BY <1>0 DEF CleanupInv, RequestOK, Actors
  <1> QED
    BY <1>1, <1>2, <1>3 DEF CleanupInv

\* A crash keeps CleanupInv.
LEMMA CleanupCrash ==
  ASSUME TypeOK, ControlInv, CleanupInv, Crash
  PROVE  CleanupInv'
  <1>0. /\ UNCHANGED <<row, ec2, seen, listed, target>>
        /\ \A k \in Jobs : reap'[k] = "idle"
        /\ \A a \in Actors : pc'[a] = IF a \in Tasks THEN "lost" ELSE pc[a]
    BY DEF Crash, ProcessDies, ReapForgets, jobTableVars
  <1>1. ASSUME NEW k \in Jobs
        PROVE  JobOK(k)'
    <2>1. /\ CancelledBlind(k) => CancelledBlind(k)'
          /\ TaskOK(k) /\ ReaperOK(k) /\ StaleOK(k) /\ GoneOK(k) /\ ReadyOK(k)
      BY <1>0 DEF CancelledBlind, CleanupInv, JobOK
    <2>2. pc'[k] = pc[k] \/ pc'[k] = "lost"
      BY <1>0 DEF Actors
    <2>3. TaskOK(k)'
      BY <1>0, <2>1, <2>2 DEF TaskOK, BeforeLaunch, AfterRecord, AfterReady, TaskPC
    <2>4. ReaperOK(k)' /\ StaleOK(k)'
      BY <1>0, <2>1, <2>2 DEF ReaperOK, StaleOK, Abandoned
    <2>5. GoneOK(k)' /\ ReadyOK(k)'
      BY <1>0, <2>1 DEF GoneOK, ReadyOK, Reapable, ReapedBlind
    <2> QED
      BY <2>3, <2>4, <2>5 DEF JobOK
  <1>2. ASSUME NEW a \in Actors
        PROVE  TeardownOK(a)'
    BY <1>0 DEF CleanupInv, TeardownOK, JobOf
  <1>3. \A r \in Requests : RequestOK(r)'
    BY <1>0, JobsAssumption DEF CleanupInv, RequestOK, Actors, Tasks
  <1> QED
    BY <1>1, <1>2, <1>3 DEF CleanupInv

\* The passing of time keeps CleanupInv.
LEMMA CleanupAge ==
  ASSUME TypeOK, CleanupInv, NEW j \in Jobs, Age(j), pc[j] \in TaskPC
  PROVE  CleanupInv'
  <1>0. /\ UNCHANGED <<ec2, pc, seen, reap, listed, target>>
        /\ \A k \in Jobs \ {j} : row'[k] = row[k]
        /\ row'[j].status = row[j].status /\ row[j].status # "none"
        /\ row'[j].instance = row[j].instance /\ row'[j].ready = row[j].ready
    BY DEF Age, GrowStale, managerVars, reaperVars, jobTableVars, TypeOK, WorkerTableTypeOK,
           NonTerminalWorker, Row
  <1>1. ASSUME NEW k \in Jobs
        PROVE  JobOK(k)'
    <2>1. /\ CancelledBlind(k) => CancelledBlind(k)'
          /\ TaskOK(k) /\ ReaperOK(k) /\ StaleOK(k) /\ GoneOK(k) /\ ReadyOK(k)
      BY <1>0 DEF CancelledBlind, CleanupInv, JobOK
    <2>2. CASE k = j
      <3>1. StaleOK(j)'
        BY <1>0, <2>1, <2>2 DEF Age, Attended, TaskAttends, StaleOK, Abandoned, TaskOK
      <3> QED
        BY <1>0, <2>1, <2>2, <3>1
           DEF JobOK, TaskOK, ReaperOK, GoneOK, ReadyOK, Reapable, ReapedBlind
    <2>3. CASE k # j
      <3>1. JobOK(k)
        BY DEF CleanupInv
      <3> QED
        BY <1>0, <2>1, <2>3, <3>1, JobUntouched
    <2> QED
      BY <2>2, <2>3
  <1>2. ASSUME NEW a \in Actors
        PROVE  TeardownOK(a)'
    <2>1. JobOf(a) \in Jobs /\ TeardownOK(a)
      BY DEF JobOf, TypeOK, JobTableTypeOK, Actors, CleanupInv
    <2> QED
      BY <1>0, <2>1, TeardownUntouched
  <1>3. \A r \in Requests : RequestOK(r)'
    BY <1>0 DEF CleanupInv, RequestOK
  <1> QED
    BY <1>1, <1>2, <1>3 DEF CleanupInv

\* The steps that touch neither a worker nor an actor.
LEMMA CleanupOther ==
  ASSUME CleanupInv, UNCHANGED <<row, ec2, pc, seen, reap, listed, target>>
  PROVE  CleanupInv'
  BY DEF CleanupInv, JobOK, TaskOK, TeardownOK, RequestOK, ReaperOK, StaleOK, Abandoned,
         GoneOK, ReadyOK, Reapable, CancelledBlind, ReapedBlind, JobOf

-----------------------------------------------------------------------------
\* CleanupInv holds at the start.
LEMMA CleanupInit == Init => CleanupInv
  <1> SUFFICES ASSUME Init PROVE CleanupInv
    OBVIOUS
  <1>1. /\ \A j \in Jobs : row[j] = NoRow /\ ec2[j] = "none" /\ reap[j] = "idle" /\ ~listed[j]
        /\ \A a \in Actors : pc[a] = "idle" /\ seen[a] = NoRow
    BY DEF Init, WorkerTableInit, ManagerInit, ReaperInit
  <1>2. NoRow.status = "none" /\ ~NoRow.instance /\ ~NoRow.ready /\ ~NoRow.stale
    BY DEF NoRow
  <1> QED
    BY <1>1, <1>2
       DEF CleanupInv, JobOK, TaskOK, TeardownOK, RequestOK, ReaperOK, StaleOK, GoneOK,
           ReadyOK, Actors

\* Every step keeps CleanupInv.
LEMMA CleanupStep ==
  ASSUME TypeOK, ControlInv, CleanupInv, [Next]_vars
  PROVE  CleanupInv'
  <1>1. CASE UNCHANGED vars
    BY <1>1, CleanupOther DEF vars, managerVars, reaperVars, jobTableVars
  <1>2. CASE \E j \in Jobs : Submit(j)
    BY <1>2, CleanupOther DEF Submit, SubmitJob, CreateJob, managerVars, reaperVars
  <1>3. CASE \E j \in Jobs : Age(j)
    BY <1>3, CleanupAge DEF ControlInv, PcInv
  <1>4. CASE Poll
    <2>1. CASE ClaimJob
      BY <1>4, <2>1, CleanupClaim DEF Poll
    <2>2. CASE Acquire \/ ClaimNothing
      BY <1>4, <2>2, CleanupOther
         DEF Poll, Acquire, ClaimNothing, managerVars, reaperVars, jobTableVars
    <2> QED
      BY <1>4, <2>1, <2>2 DEF Poll, PollLoop
  <1>5. CASE Reaper
    BY <1>5, CleanupReapTerminate, CleanupReapMarkFailed, CleanupReapBatch
       DEF Reaper, ReapWorker
  <1>6. CASE StartProcess
    BY <1>6, CleanupOther DEF StartProcess, Restart, managerVars, reaperVars, jobTableVars
  <1> QED
    BY <1>1, <1>2, <1>3, <1>4, <1>5, <1>6, CleanupTask, CleanupRequest, CleanupCrash DEF Next

\* What rows, actors and the reaper know of the instances stays true.
THEOREM Cleanup == Spec => []CleanupInv
  BY TypeCorrect, Control, CleanupInit, CleanupStep, PTL DEF Spec

\* Once its worker is READY an instance is never lost: whatever crashes, raises or
\* interleaves, the reaper can still find it, but for the two blind teardowns named.
THEOREM ReadyIsReapable == Spec => []ReadyReapable
  <1>1. CleanupInv => ReadyReapable
    BY DEF CleanupInv, JobOK, ReadyOK, ReadyReapable
  <1> QED
    BY <1>1, Cleanup, PTL

\* A worker marked TERMINATED has no running instance, whoever tore it down, unless a
\* cancel request did so before the instance id was stored.
THEOREM TerminatedIsGone == Spec => []TerminatedMeansGone
  <1>1. CleanupInv => TerminatedMeansGone
    BY DEF CleanupInv, JobOK, GoneOK, TerminatedMeansGone
  <1> QED
    BY <1>1, Cleanup, PTL
=============================================================================
