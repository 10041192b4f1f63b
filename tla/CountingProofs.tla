---------------------------- MODULE CountingProofs ----------------------------
(***************************************************************************)
(* cloudworker_jobs_total counts every job once, for every set of jobs and *)
(* requests and every setting, as long as no cancel ends in an exception.  *)
(***************************************************************************)
EXTENDS CloudWorkerProofs

\* No statement of a request raises, no terminate_instances, and the API process stays up;
\* the worker process may crash.
CancelsDoNotRaise == Faulty \cap {"api", "db", "terminate"} = {}

\* A cancel has run its UPDATE and has yet to count the job, or to commit.
Owing(r) == pc[r] \in {"get", "mark", "kill", "finish", "respond", "commit"}

\* One cancel at most owes the count of a job, and as long as one does nobody else counts
\* the job: its row is locked or cancelled.
OwingInv ==
    \A r \in Requests :
        /\ cancelTxn[r] => pc[r] \in {"get", "mark", "respond", "commit"}
        /\ pc[r] \in {"get", "mark"} => cancelTxn[r]
        /\ Owing(r) =>
             /\ cancelTxn[r] \/ job[target[r]] = "cancelled"
             /\ jobsTotal[target[r]] = IF pc[r] = "commit" THEN 1 ELSE 0
             /\ \A q \in Requests : Owing(q) /\ target[q] = target[r] => q = r

\* Otherwise the job has been counted if it has ended.
SettledInv ==
    \A j \in Jobs :
        (\A r \in Requests : target[r] = j => ~Owing(r))
            => jobsTotal[j] = IF job[j] \in Terminal THEN 1 ELSE 0

CountInv == OwingInv /\ SettledInv

-----------------------------------------------------------------------------
\* A step of a request, as far as counting goes.
RequestMoves(r) ==
    \/ /\ pc[r] \notin {"get", "mark", "kill", "finish", "respond", "commit"}
       /\ pc'[r] \in {"cancel", "done"}
       /\ UNCHANGED jobTableVars
    \/ pc[r] = "cancel" /\ pc'[r] \in {"get", "respond"} /\ OpenCancel(r)
    \/ pc[r] = "get" /\ pc'[r] \in {"mark", "respond"} /\ UNCHANGED jobTableVars
    \/ pc[r] = "mark" /\ pc'[r] \in {"kill", "finish"} /\ CommitCancel(r)
    \/ pc[r] = "kill" /\ pc'[r] = "finish" /\ UNCHANGED jobTableVars
    \/ pc[r] = "finish" /\ pc'[r] = "respond" /\ UNCHANGED jobTableVars
    \/ /\ pc[r] = "respond" /\ pc'[r] = "commit"
       /\ jobsTotal' = [jobsTotal EXCEPT ![target[r]] = @ + 1]
       /\ UNCHANGED <<job, createdAt, claims, target, cancelTxn>>
    \/ pc[r] = "commit" /\ pc'[r] = "done" /\ CommitCancel(r)

LEMMA RequestMoving ==
  ASSUME TypeOK, CancelsDoNotRaise, NEW r \in Requests, StartCancel(r) \/ Request(r)
  PROVE  RequestMoves(r) /\ \A q \in Requests \ {r} : pc'[q] = pc[q]
  <1>1. pc \in [Actors -> PC] /\ r \in Actors /\ r \notin Jobs /\ Requests \subseteq Actors
    BY JobsAssumption DEF TypeOK, ManagerTypeOK, Actors
  <1>2. PICK step \in RequestPC : Goto(r, step)
    BY RequestGoto
  <1>3. \A q \in Requests \ {r} : pc'[q] = pc[q]
    BY <1>1, <1>2 DEF Goto
  <1>4. CASE StartCancel(r)
    BY <1>1, <1>4 DEF StartCancel, CancelRead, At, Goto, RequestMoves
  <1>5. CASE CancelUpdate(r) \/ CancelConflict(r)
    BY <1>1, <1>5 DEF CancelUpdate, CancelConflict, At, Goto, RequestMoves
  <1>6. CASE CancelRespond(r) \/ CancelCommit(r)
    BY <1>1, <1>6 DEF CancelRespond, CancelCommit, At, Goto, RequestMoves
  <1>7. CASE Teardown(r)
    BY <1>1, <1>7 DEF Teardown, TeardownGet, TeardownMark, TeardownKill, TeardownFinish,
       Returned, At, Goto, RequestMoves
  <1>8. ~CancelRaises(r)
    BY DEF CancelsDoNotRaise, CancelRaises, TeardownRaises, MayFail
  <1> QED
    BY <1>3, <1>4, <1>5, <1>6, <1>7, <1>8 DEF Request, CancelStep

\* Every other step leaves the requests alone and makes one statement on the jobs.
LEMMA OtherMoving ==
  ASSUME TypeOK, [Next]_vars, ~(\E r \in Requests : StartCancel(r) \/ Request(r))
  PROVE  /\ \A r \in Requests : pc'[r] = pc[r]
         /\ \/ UNCHANGED jobTableVars
            \/ \E j \in Jobs : \/ CreateJob(j) \/ ClaimNextJob(j)
                               \/ \E s \in {"failed", "succeeded"} : FinishIfRunning(j, s)
  <1>0. pc \in [Actors -> PC] /\ Jobs \cap Requests = {} /\ Actors = Jobs \cup Requests
    BY JobsAssumption DEF TypeOK, ManagerTypeOK, Actors
  <1>1. CASE \E j \in Jobs : Submit(j) \/ Age(j)
    BY <1>1 DEF Submit, SubmitJob, Age, managerVars
  <1>2. CASE \E j \in Jobs : Task(j)
    BY <1>0, <1>2, TaskJobs, TaskGoto DEF Goto
  <1>3. CASE Poll
    BY <1>0, <1>3 DEF Poll, PollLoop, Acquire, ClaimJob, ClaimNothing, managerVars, Goto
  <1>4. CASE Reaper
    BY <1>4 DEF Reaper, ReapList, ReapRaises, ReapWorker, ReapTerminate, ReapMarkFailed,
                ReapFailJob, FailIfRunning, managerVars
  <1>5. CASE Crash
    BY <1>0, <1>5 DEF Crash, ProcessDies, Tasks
  <1>6. CASE StartProcess \/ UNCHANGED vars
    BY <1>6 DEF StartProcess, Restart, vars, managerVars
  <1> QED
    BY <1>1, <1>2, <1>3, <1>4, <1>5, <1>6 DEF Next

-----------------------------------------------------------------------------
LEMMA CountInit == Init => CountInv
  BY JobsAssumption
     DEF Init, JobTableInit, ManagerInit, CountInv, OwingInv, SettledInv, Owing, Actors,
         Terminal

\* A job that a cancel owes a count is locked or cancelled, so the others' statements pass.
LEMMA OtherCounts ==
  ASSUME TypeOK, CancelInv, CountInv, \A r \in Requests : pc'[r] = pc[r],
         \/ UNCHANGED jobTableVars
         \/ \E j \in Jobs : \/ CreateJob(j) \/ ClaimNextJob(j)
                            \/ \E s \in {"failed", "succeeded"} : FinishIfRunning(j, s)
  PROVE  CountInv'
  <1> USE DEF TypeOK, JobTableTypeOK, Owing
  <1>1. CASE UNCHANGED jobTableVars
    BY <1>1 DEF jobTableVars, CountInv, OwingInv, SettledInv
  <1>2. ASSUME NEW j \in Jobs, CreateJob(j) PROVE CountInv'
    <2>1. OwingInv'
      BY <1>2 DEF CreateJob, Exists, CountInv, OwingInv
    <2>2. SettledInv'
      BY <1>2 DEF CreateJob, Exists, CountInv, SettledInv, Terminal
    <2> QED
      BY <2>1, <2>2 DEF CountInv
  <1>3. ASSUME NEW j \in Jobs, ClaimNextJob(j) PROVE CountInv'
    <2>1. OwingInv'
      BY <1>3 DEF ClaimNextJob, Claimable, CountInv, OwingInv
    <2>2. SettledInv'
      BY <1>3 DEF ClaimNextJob, Claimable, CountInv, SettledInv, Terminal
    <2> QED
      BY <2>1, <2>2 DEF CountInv
  <1>4. ASSUME NEW j \in Jobs, NEW s \in {"failed", "succeeded"}, FinishIfRunning(j, s)
        PROVE  CountInv'
    <2>1. CASE UNCHANGED <<job, jobsTotal>>
      BY <1>4, <2>1 DEF FinishIfRunning, CountInv, OwingInv, SettledInv
    <2>2. CASE /\ job[j] = "running" /\ job' = [job EXCEPT ![j] = s]
               /\ jobsTotal' = [jobsTotal EXCEPT ![j] = @ + 1]
      <3>1. \A r \in Requests : target[r] = j => ~Owing(r)
        BY <1>4, <2>2 DEF FinishIfRunning, Locked, CountInv, OwingInv
      <3>2. jobsTotal[j] = 0
        BY <2>2, <3>1 DEF CountInv, SettledInv, Terminal
      <3>3. OwingInv'
        BY <1>4, <2>2, <3>1 DEF FinishIfRunning, CountInv, OwingInv
      <3>4. SettledInv'
        BY <1>4, <2>2, <3>2 DEF FinishIfRunning, CountInv, SettledInv, Terminal
      <3> QED
        BY <3>3, <3>4 DEF CountInv
    <2> QED
      BY <1>4, <2>1, <2>2 DEF FinishIfRunning
  <1> QED
    BY <1>1, <1>2, <1>3, <1>4

-----------------------------------------------------------------------------
\* A cancel finds its job uncounted, counts it once, and leaves it counted.
LEMMA RequestCounts ==
  ASSUME TypeOK, CancelInv, CountInv, NEW r \in Requests, RequestMoves(r),
         \A q \in Requests \ {r} : pc'[q] = pc[q]
  PROVE  CountInv'
  <1> USE DEF TypeOK, JobTableTypeOK, Owing
  <1>1. CASE /\ pc[r] \notin {"get", "mark", "kill", "finish", "respond", "commit"}
             /\ pc'[r] \in {"cancel", "done"} /\ UNCHANGED jobTableVars
    BY <1>1 DEF jobTableVars, CountInv, OwingInv, SettledInv
  <1>2. CASE pc[r] = "cancel" /\ pc'[r] \in {"get", "respond"} /\ OpenCancel(r)
    <2>1. \A q \in Requests : target[q] = target[r] => ~Owing(q)
      BY <1>2 DEF OpenCancel, CancelMatches, Locked, Cancellable, CountInv, OwingInv
    <2>2. jobsTotal[target[r]] = 0
      BY <1>2, <2>1 DEF OpenCancel, CancelMatches, Cancellable, Terminal, CountInv, SettledInv
    <2>3. OwingInv'
      BY <1>2, <2>1, <2>2 DEF OpenCancel, CountInv, OwingInv
    <2>4. SettledInv'
      BY <1>2 DEF OpenCancel, CountInv, SettledInv
    <2> QED
      BY <2>3, <2>4 DEF CountInv
  <1>3. CASE pc[r] = "get" /\ pc'[r] \in {"mark", "respond"} /\ UNCHANGED jobTableVars
    BY <1>3 DEF jobTableVars, CountInv, OwingInv, SettledInv
  <1>4. CASE pc[r] = "mark" /\ pc'[r] \in {"kill", "finish"} /\ CommitCancel(r)
    <2>1. OwingInv'
      BY <1>4 DEF CommitCancel, CountInv, OwingInv
    <2>2. SettledInv'
      BY <1>4 DEF CommitCancel, CountInv, SettledInv
    <2> QED
      BY <2>1, <2>2 DEF CountInv
  <1>5. CASE \/ pc[r] = "kill" /\ pc'[r] = "finish" /\ UNCHANGED jobTableVars
             \/ pc[r] = "finish" /\ pc'[r] = "respond" /\ UNCHANGED jobTableVars
    BY <1>5 DEF jobTableVars, CountInv, OwingInv, SettledInv
  <1>6. CASE /\ pc[r] = "respond" /\ pc'[r] = "commit"
             /\ jobsTotal' = [jobsTotal EXCEPT ![target[r]] = @ + 1]
             /\ UNCHANGED <<job, createdAt, claims, target, cancelTxn>>
    <2>1. OwingInv'
      BY <1>6 DEF CountInv, OwingInv
    <2>2. SettledInv'
      BY <1>6 DEF CountInv, SettledInv
    <2> QED
      BY <2>1, <2>2 DEF CountInv
  <1>7. CASE pc[r] = "commit" /\ pc'[r] = "done" /\ CommitCancel(r)
    <2>1. OwingInv'
      BY <1>7 DEF CommitCancel, CountInv, OwingInv
    <2>2. ~cancelTxn[r] \/ job[target[r]] \in Cancellable
      BY DEF CancelInv
    <2>3. ASSUME NEW j \in Jobs, \A q \in Requests : target'[q] = j => ~Owing(q)'
          PROVE  jobsTotal'[j] = IF job'[j] \in Terminal THEN 1 ELSE 0
      <3>1. CASE j = target[r]
        BY <1>7, <2>2, <3>1 DEF CommitCancel, CountInv, OwingInv, Terminal
      <3>2. CASE j # target[r]
        BY <1>7, <2>3, <3>2 DEF CommitCancel, CountInv, SettledInv
      <3> QED
        BY <3>1, <3>2
    <2>4. SettledInv'
      BY <2>3 DEF SettledInv
    <2> QED
      BY <2>1, <2>4 DEF CountInv
  <1> QED
    BY <1>1, <1>2, <1>3, <1>4, <1>5, <1>6, <1>7 DEF RequestMoves

LEMMA CountStep ==
  ASSUME TypeOK, CancelsDoNotRaise, CancelInv, CountInv, [Next]_vars
  PROVE  CountInv'
  <1>1. CASE \E r \in Requests : StartCancel(r) \/ Request(r)
    BY <1>1, RequestMoving, RequestCounts
  <1>2. CASE ~(\E r \in Requests : StartCancel(r) \/ Request(r))
    BY <1>2, OtherMoving, OtherCounts
  <1> QED
    BY <1>1, <1>2

LEMMA CountIsOnce ==
  ASSUME TypeOK, CancelInv, CountInv
  PROVE  CountedOnce
  <1> SUFFICES ASSUME NEW j \in Jobs
               PROVE  \/ jobsTotal[j] = (IF job[j] \in Terminal THEN 1 ELSE 0)
                      \/ BetweenCommitAndCount(j) /\ jobsTotal[j] <= 1
    BY DEF CountedOnce
  <1>1. CASE \A r \in Requests : target[r] = j => ~Owing(r)
    BY <1>1 DEF CountInv, SettledInv
  <1>2. ASSUME NEW r \in Requests, target[r] = j, pc[r] \in {"get", "mark"}
        PROVE  jobsTotal[j] = (IF job[j] \in Terminal THEN 1 ELSE 0)
    BY <1>2 DEF CountInv, OwingInv, Owing, CancelInv, Cancellable, Terminal
  <1>3. ASSUME NEW r \in Requests, target[r] = j,
               pc[r] \in {"kill", "finish", "respond", "commit"}
        PROVE  BetweenCommitAndCount(j) /\ jobsTotal[j] <= 1
    BY <1>3 DEF CountInv, OwingInv, Owing, BetweenCommitAndCount
  <1> QED
    BY <1>1, <1>2, <1>3 DEF Owing

\* cloudworker_jobs_total is raised once for each job that ends, by whoever ends it, as
\* long as no cancel ends in an exception: a death of the worker process and a failing
\* launch do not disturb it.
THEOREM JobsAreCountedOnce ==
  ASSUME CancelsDoNotRaise
  PROVE  Spec => []CountedOnce
  <1>1. Init => CancelInv
    BY DEF Init, JobTableInit, CancelInv
  <1> QED
    BY <1>1, CountInit, TypeCorrect, CancelStepInv, CountStep, CountIsOnce, PTL DEF Spec

=============================================================================
