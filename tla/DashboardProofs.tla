--------------------------- MODULE DashboardProofs ---------------------------
(***************************************************************************)
(* Theorems about Dashboard for every number of requests in flight, every  *)
(* set of files and every number of failures.                              *)
(***************************************************************************)
EXTENDS Dashboard, FiniteSetTheorems, TLAPS

\* A cancel was answered for, and its session has yet to commit.
Pending == \E r \in Requests : cancelTxn[r] /\ cancel[r] = "commit"

\* The sessions of the cancels: one at most holds the row, and it leaves the row cancelled.
TxnInv ==
    /\ \A r \in Requests :
         /\ target[r] = jobId
         /\ cancelTxn[r] => cancel[r] \in {"open", "commit"} /\ job[jobId] \in Cancellable
         /\ cancel[r] \in {"open", "commit"} => cancelTxn[r] \/ job[jobId] = "cancelled"
    /\ \A r, s \in Requests : cancelTxn[r] /\ cancelTxn[s] => r = s

\* What the runner and the executor have done by the end of a job.
RunnerInv ==
    /\ runner \in {"none", "script"} => store = {}
    /\ runner = "exited" => left = {}
    /\ left \subseteq made
    /\ runner \in {"upload", "exited"} /\ faults = 0 => Names(store) = Names(made \ left)
    /\ executor = "none" => runner = "none"
    /\ executor = "listed" => runner \in {"exited", "quit"} /\ reported = store
    /\ job[jobId] = "succeeded"
         => executor = "done" /\ runner \in {"exited", "quit"} /\ reported = store

\* A final status, read or shown, is the job's, but for a cancel that was answered for.
Final(status) ==
    \/ job[jobId] = status
    \/ status = "cancelled" /\ (Pending \/ undone)

ShownInv ==
    /\ \A p \in Polls : poll[p] \in Terminal => job[jobId] = poll[p]
    /\ \A r \in Requests : reply[r] = "cancelled" => Final("cancelled")
    /\ shown \in Terminal => Final(shown)

\* The artifacts are asked for when the job has ended, or will have when the commit succeeds.
Settled == job[jobId] \in Terminal \/ Pending \/ undone

ListInv ==
    /\ \A l \in Loads :
         /\ load[l] # "free" => Settled
         /\ load[l] = "answered" /\ job[jobId] = "succeeded" /\ ~undone => content[l] = store
    /\ listed => Settled
    /\ listed /\ job[jobId] = "succeeded" /\ ~undone => list = store

\* What the page knows of the job, it knows from a row that is there.
KnownInv ==
    /\ \A p \in Polls : poll[p] \in JobStatus => Exists(jobId)
    /\ shown # "none" => Exists(jobId)
    /\ \A r \in Requests : cancel[r] # "idle" \/ reply[r] # "none" => shown # "none"
    /\ ~page => shown = "none" /\ ~error /\ \A p \in Polls : poll[p] = "free"

\* Until the job is shown the first read is alone, and it is the only one that can be refused
\* without a failure.
FirstReadInv ==
    /\ shown = "none" => \A p, q \in Polls : poll[p] # "free" /\ poll[q] # "free" => p = q
    /\ shown = "none" /\ error => \A p \in Polls : poll[p] = "free"
    /\ shown # "none" /\ faults = 0 => ~error /\ \A p \in Polls : poll[p] # "refused"

Inv ==
    /\ TypeOK /\ TxnInv /\ RunnerInv /\ ShownInv /\ ListInv
    /\ KnownInv /\ FirstReadInv /\ NoStandstill

-----------------------------------------------------------------------------
LEMMA TheJob == jobId \in Jobs /\ MaxFaults \in Nat /\ IsFiniteSet(Jobs)
  BY BrowserJobAssumption, JobsAssumption

LEMMA InvInit == Init => Inv
  <1> SUFFICES ASSUME Init PROVE Inv
    OBVIOUS
  <1> USE TheJob DEF Init, BrowserJobInit, JobTableInit
  <1>1. TypeOK
    <2>1. JobTableTypeOK
      BY DEF JobTableTypeOK, JobStatus, Terminal
    <2>2. BrowserJobTypeOK
      BY <2>1 DEF BrowserJobTypeOK
    <2> QED
      BY <2>2 DEF TypeOK, JobStatus, Terminal
  <1>2. TxnInv /\ RunnerInv
    BY DEF TxnInv, RunnerInv
  <1>3. ShownInv /\ ListInv
    BY DEF ShownInv, ListInv, Terminal
  <1>4. KnownInv /\ FirstReadInv /\ NoStandstill
    BY DEF KnownInv, FirstReadInv, NoStandstill, JobStatus, Terminal
  <1> QED
    BY <1>1, <1>2, <1>3, <1>4 DEF Inv

-----------------------------------------------------------------------------
(***************************************************************************)
(* Types.                                                                  *)
(***************************************************************************)

\* The statements of the jobs table keep its types.
LEMMA CreateJobTyped ==
  ASSUME JobTableTypeOK, NEW j \in Jobs, CreateJob(j)
  PROVE  JobTableTypeOK'
  <1>1. IsFiniteSet({k \in Jobs : Exists(k)})
    BY TheJob, FS_Subset
  <1>2. Cardinality({k \in Jobs : Exists(k)}) \in Nat
    BY <1>1, FS_CardinalityType
  <1> QED
    BY <1>2 DEF CreateJob, JobTableTypeOK, JobStatus

LEMMA StatementTyped ==
  ASSUME JobTableTypeOK,
         \/ \E j \in Jobs : ClaimNextJob(j) \/ FailIfRunning(j) \/ CompleteIfRunning(j)
         \/ \E r \in Requests : OpenCancel(r) \/ CommitCancel(r) \/ RollbackCancel(r)
         \/ UNCHANGED jobTableVars
  PROVE  JobTableTypeOK'
  <1> USE DEF JobTableTypeOK, JobStatus, Terminal
  <1>1. ASSUME NEW j \in Jobs, ClaimNextJob(j) PROVE JobTableTypeOK'
    BY <1>1 DEF ClaimNextJob
  <1>2. ASSUME NEW j \in Jobs, FailIfRunning(j) \/ CompleteIfRunning(j)
        PROVE  JobTableTypeOK'
    BY <1>2 DEF FailIfRunning, CompleteIfRunning, FinishIfRunning
  <1>3. ASSUME NEW r \in Requests, OpenCancel(r) PROVE JobTableTypeOK'
    BY <1>3 DEF OpenCancel
  <1>4. ASSUME NEW r \in Requests, CommitCancel(r) PROVE JobTableTypeOK'
    BY <1>4 DEF CommitCancel
  <1>5. ASSUME NEW r \in Requests, RollbackCancel(r) PROVE JobTableTypeOK'
    BY <1>5 DEF RollbackCancel
  <1>6. CASE UNCHANGED jobTableVars
    BY <1>6 DEF jobTableVars
  <1> QED
    BY <1>1, <1>2, <1>3, <1>4, <1>5, <1>6

LEMMA FaultTyped ==
  ASSUME faults \in 0..MaxFaults, Fault \/ UNCHANGED faults
  PROVE  faults' \in 0..MaxFaults
  BY TheJob DEF Fault

LEMMA BackendTyped ==
  ASSUME BrowserJobTypeOK, BrowserJobNext
  PROVE  BrowserJobTypeOK'
  <1> USE TheJob DEF BrowserJobTypeOK, runnerVars, executorVars
  <1>1. CASE Create
    BY <1>1, CreateJobTyped, StatementTyped
       DEF Create, CreateAnswered, CreateCommits
  <1>2. CASE CreateFails
    BY <1>2, StatementTyped, FaultTyped DEF CreateFails
  <1>3. CASE Claim
    BY <1>3, StatementTyped DEF Claim
  <1>4. CASE Runner
    <2>1. CASE ScriptEnds
      BY <2>1, StatementTyped DEF ScriptEnds
    <2>2. ASSUME NEW f \in Files, Upload(f) PROVE BrowserJobTypeOK'
      BY <2>2, StatementTyped, FaultTyped DEF Upload, Stored
    <2>3. CASE RunnerExits \/ RunnerKilled
      BY <2>3, StatementTyped DEF RunnerExits, RunnerKilled
    <2> QED
      BY <1>4, <2>1, <2>2, <2>3 DEF Runner
  <1>5. CASE Executor
    <2>1. CASE Dispatch \/ ExecutorLists
      BY <2>1, StatementTyped DEF Dispatch, ExecutorLists
    <2>2. CASE ExecutorReturns
      BY <2>2, StatementTyped DEF ExecutorReturns
    <2>3. CASE ExecutorGivesUp
      BY <2>3, StatementTyped DEF ExecutorGivesUp
    <2> QED
      BY <1>5, <2>1, <2>2, <2>3 DEF Executor
  <1>6. CASE TaskDies
    BY <1>6, StatementTyped, FaultTyped DEF TaskDies
  <1>7. CASE ReaperFails
    BY <1>7, StatementTyped DEF ReaperFails
  <1> QED
    BY <1>1, <1>2, <1>3, <1>4, <1>5, <1>6, <1>7 DEF BrowserJobNext, Backend

\* The page's steps leave the rest alone, but for the count of failures.
LEMMA BrowserTyped ==
  ASSUME BrowserJobTypeOK, JobTableTypeOK', faults' \in 0..MaxFaults, UNCHANGED serverVars
  PROVE  BrowserJobTypeOK'
  BY DEF BrowserJobTypeOK, serverVars, runnerVars, executorVars

LEMMA PollTyped ==
  ASSUME TypeOK, NEW p \in Polls, PollTick(p) \/ PollStep(p) \/ PollBreaks(p)
  PROVE  TypeOK'
  <1> USE DEF pageVars, pollVars, loadVars, cancelVars, processVars, browserJobVars, SendPoll
  <1>0. UNCHANGED serverVars /\ UNCHANGED jobTableVars /\ (Fault \/ UNCHANGED faults)
    BY DEF PollTick, PollStep, ServePoll, PollAnswered, PollRefused, PollBreaks, serverVars
  <1>1. BrowserJobTypeOK'
    BY <1>0, StatementTyped, FaultTyped, BrowserTyped DEF TypeOK, BrowserJobTypeOK
  <1>2. CASE PollTick(p) \/ PollRefused(p) \/ PollBreaks(p)
    BY <1>1, <1>2 DEF TypeOK, PollTick, PollRefused, PollBreaks
  <1>3. CASE ServePoll(p)
    <2>1. Exists(jobId) => job[jobId] \in JobStatus
      BY TheJob DEF Exists, TypeOK, BrowserJobTypeOK, JobTableTypeOK
    <2> QED
      BY <1>1, <1>3, <2>1 DEF TypeOK, ServePoll
  <1>4. CASE PollAnswered(p)
    BY <1>1, <1>4 DEF TypeOK, PollAnswered, SetJob, SendLoad
  <1> QED
    BY <1>2, <1>3, <1>4 DEF PollStep

LEMMA LoadTyped ==
  ASSUME TypeOK, NEW l \in Loads, LoadStep(l) \/ LoadBreaks(l)
  PROVE  TypeOK'
  <1> USE DEF pageVars, pollVars, loadVars, cancelVars, processVars, browserJobVars
  <1>0. UNCHANGED serverVars /\ UNCHANGED jobTableVars /\ (Fault \/ UNCHANGED faults)
    BY DEF LoadStep, ServeLoad, LoadAnswered, LoadRefused, LoadBreaks, serverVars
  <1>1. BrowserJobTypeOK'
    BY <1>0, StatementTyped, FaultTyped, BrowserTyped DEF TypeOK, BrowserJobTypeOK
  <1>2. CASE ServeLoad(l)
    BY <1>1, <1>2 DEF TypeOK, ServeLoad, BrowserJobTypeOK
  <1>3. CASE LoadAnswered(l) \/ LoadRefused(l) \/ LoadBreaks(l)
    BY <1>1, <1>3 DEF TypeOK, LoadAnswered, LoadRefused, LoadBreaks
  <1> QED
    BY <1>2, <1>3 DEF LoadStep

LEMMA CancelTyped ==
  ASSUME TypeOK, NEW r \in Requests,
         \/ ClickCancel(r) \/ CancelTearsDown(r) \/ CancelStep(r)
         \/ CancelRaises(r) \/ CancelCommitFails(r) \/ CancelBreaks(r)
  PROVE  TypeOK'
  <1> USE DEF pageVars, pollVars, loadVars, cancelVars, processVars, browserJobVars, serverVars
  <1>1. BrowserJobTypeOK'
    <2>1. UNCHANGED serverVars /\ (Fault \/ UNCHANGED faults)
      BY DEF ClickCancel, CancelTearsDown, CancelStep, CancelUpdate, CancelResponds,
             CancelCommits, CancelAnswered, CancelRaises, CancelCommitFails, CancelBreaks
    <2>2. \/ OpenCancel(r) \/ CommitCancel(r) \/ RollbackCancel(r)
          \/ UNCHANGED jobTableVars
      BY DEF ClickCancel, CancelTearsDown, CancelStep, CancelUpdate, CancelResponds,
             CancelCommits, CancelAnswered, CancelRaises, CancelCommitFails, CancelBreaks
    <2> QED
      BY <2>1, <2>2, StatementTyped, FaultTyped, BrowserTyped DEF TypeOK, BrowserJobTypeOK
  <1>2. CASE ClickCancel(r) \/ CancelUpdate(r) \/ CancelResponds(r) \/ CancelCommits(r)
    BY <1>1, <1>2 DEF TypeOK, ClickCancel, CancelUpdate, CancelResponds, CancelCommits
  <1>3. CASE CancelTearsDown(r)
    BY <1>1, <1>3 DEF TypeOK, CancelTearsDown, dashboardVars
  <1>4. CASE CancelRaises(r) \/ CancelBreaks(r)
    BY <1>1, <1>4 DEF TypeOK, CancelRaises, CancelBreaks
  <1>5. CASE CancelCommitFails(r)
    BY <1>1, <1>5 DEF TypeOK, CancelCommitFails, BrowserJobTypeOK, JobTableTypeOK
  <1>6. CASE CancelAnswered(r)
    BY <1>1, <1>6 DEF TypeOK, CancelAnswered, SetJob, SendLoad, JobStatus, Terminal
  <1> QED
    BY <1>2, <1>3, <1>4, <1>5, <1>6 DEF CancelStep

LEMMA TypeStep ==
  ASSUME TypeOK, [Next]_vars
  PROVE  TypeOK'
  <1> USE DEF dashboardVars, pageVars, pollVars, loadVars, cancelVars
  <1>1. CASE Open
    BY <1>1, BrowserTyped DEF Open, SendPoll, TypeOK, browserJobVars, processVars, serverVars,
       BrowserJobTypeOK, JobTableTypeOK, jobTableVars
  <1>2. CASE BrowserJobNext /\ UNCHANGED dashboardVars
    BY <1>2, BackendTyped DEF TypeOK
  <1>3. CASE \E p \in Polls : PollTick(p) \/ PollStep(p) \/ PollBreaks(p)
    BY <1>3, PollTyped
  <1>4. CASE \E l \in Loads : LoadStep(l) \/ LoadBreaks(l)
    BY <1>4, LoadTyped
  <1>5. CASE \E r \in Requests :
               \/ ClickCancel(r) \/ CancelTearsDown(r) \/ CancelStep(r)
               \/ CancelRaises(r) \/ CancelCommitFails(r) \/ CancelBreaks(r)
    BY <1>5, CancelTyped
  <1>6. CASE UNCHANGED vars
    BY <1>6 DEF vars, TypeOK, browserJobVars, processVars, runnerVars, executorVars,
       BrowserJobTypeOK, JobTableTypeOK, jobTableVars
  <1> QED
    BY <1>1, <1>2, <1>3, <1>4, <1>5, <1>6 DEF Next, Works, Faults

-----------------------------------------------------------------------------
(***************************************************************************)
(* What each kind of step does to the job and to the cancels' sessions.    *)
(***************************************************************************)

\* Steps of the page, of a read or of a listing: neither changes.
LEMMA PageSteps ==
  ASSUME \/ Open
         \/ \E p \in Polls : PollTick(p) \/ PollStep(p) \/ PollBreaks(p)
         \/ \E l \in Loads : LoadStep(l) \/ LoadBreaks(l)
  PROVE  /\ UNCHANGED jobTableVars /\ UNCHANGED serverVars
         /\ UNCHANGED <<cancel, reply, undone>>
  <1> USE DEF pageVars, pollVars, loadVars, cancelVars, processVars, browserJobVars, serverVars
  <1>1. CASE Open
    BY <1>1 DEF Open
  <1>2. CASE \E p \in Polls : PollTick(p) \/ PollStep(p) \/ PollBreaks(p)
    BY <1>2 DEF PollTick, PollStep, ServePoll, PollAnswered, PollRefused, PollBreaks
  <1>3. CASE \E l \in Loads : LoadStep(l) \/ LoadBreaks(l)
    BY <1>3 DEF LoadStep, ServeLoad, LoadAnswered, LoadRefused, LoadBreaks
  <1> QED
    BY <1>1, <1>2, <1>3

\* Steps of the job's own processes: none of them touches a final status or a row that a
\* cancel has locked, or any session.
LEMMA BackendSteps ==
  ASSUME TypeOK, BrowserJobNext
  PROVE  /\ target' = target /\ cancelTxn' = cancelTxn
         /\ \/ job'[jobId] = job[jobId]
            \/ job[jobId] = "none" /\ job'[jobId] = "queued"
            \/ job[jobId] = "queued" /\ ~Locked(jobId) /\ job'[jobId] = "running"
            \/ /\ job[jobId] = "running" /\ ~Locked(jobId)
               /\ job'[jobId] \in {"succeeded", "failed"}
  <1> USE TheJob DEF TypeOK, BrowserJobTypeOK, JobTableTypeOK, jobTableVars
  <1>1. CASE Create \/ CreateFails
    BY <1>1 DEF Create, CreateAnswered, CreateCommits, CreateFails, CreateJob, Exists
  <1>2. CASE Claim
    BY <1>2 DEF Claim, ClaimNextJob, Claimable
  <1>3. CASE Runner
    BY <1>3 DEF Runner, ScriptEnds, Upload, RunnerExits, RunnerKilled
  <1>4. CASE Dispatch \/ ExecutorLists \/ TaskDies
    BY <1>4 DEF Dispatch, ExecutorLists, TaskDies
  <1>5. CASE ExecutorReturns \/ ExecutorGivesUp \/ ReaperFails
    BY <1>5 DEF ExecutorReturns, ExecutorGivesUp, ReaperFails, FailIfRunning,
       CompleteIfRunning, FinishIfRunning
  <1> QED
    BY <1>1, <1>2, <1>3, <1>4, <1>5 DEF BrowserJobNext, Backend, Executor

\* The steps of a cancel.
CancelSteps(r) ==
    \/ ClickCancel(r) \/ CancelTearsDown(r) \/ CancelStep(r)
    \/ CancelRaises(r) \/ CancelCommitFails(r) \/ CancelBreaks(r)

\* Every step is one of these.
LEMMA Steps ==
  ASSUME [Next]_vars
  PROVE  \/ BrowserJobNext /\ UNCHANGED dashboardVars
         \/ \/ Open
            \/ \E p \in Polls : PollTick(p) \/ PollStep(p) \/ PollBreaks(p)
            \/ \E l \in Loads : LoadStep(l) \/ LoadBreaks(l)
         \/ \E r \in Requests : CancelSteps(r)
         \/ UNCHANGED vars
  BY DEF Next, Works, Faults, CancelSteps

-----------------------------------------------------------------------------
(***************************************************************************)
(* The sessions of the cancels.                                            *)
(***************************************************************************)

\* What a cancel's step does to its own session, and to no other.
LEMMA CancelSession ==
  ASSUME TypeOK, TxnInv, NEW r \in Requests, CancelSteps(r)
  PROVE  /\ target' = target
         /\ \A s \in Requests \ {r} : cancelTxn'[s] = cancelTxn[s] /\ cancel'[s] = cancel[s]
         /\ undone => undone'
         /\ \/ /\ job'[jobId] = job[jobId] /\ cancelTxn'[r] = cancelTxn[r]
               /\ cancel'[r] = cancel[r]
            \/ /\ job'[jobId] = job[jobId] /\ cancelTxn'[r] = cancelTxn[r]
               /\ cancel[r] \notin {"open", "commit"} /\ cancel'[r] \in {"sent", "ended"}
            \/ /\ job'[jobId] = job[jobId] /\ job[jobId] \in Cancellable /\ ~Locked(jobId)
               /\ cancelTxn'[r] /\ cancel'[r] = "open"
            \/ /\ cancelTxn[r] /\ job'[jobId] = "cancelled" /\ ~cancelTxn'[r]
               /\ cancel[r] = "open" /\ cancel'[r] = "open"
            \/ /\ job'[jobId] = job[jobId] /\ ~cancelTxn'[r]
               /\ cancel[r] = "open" /\ cancel'[r] = "ended"
            \/ /\ job'[jobId] = job[jobId] /\ cancelTxn'[r] = cancelTxn[r]
               /\ cancel[r] = "open" /\ cancel'[r] = "commit"
            \/ /\ job'[jobId] = IF cancelTxn[r] THEN "cancelled" ELSE job[jobId]
               /\ ~cancelTxn'[r]
               /\ cancel[r] = "commit" /\ cancel'[r] = "ended"
            \/ /\ job'[jobId] = job[jobId] /\ ~cancelTxn'[r] /\ (cancelTxn[r] => undone')
               /\ cancel[r] = "commit" /\ cancel'[r] = "ended"
  <1> USE TheJob DEF TypeOK, BrowserJobTypeOK, JobTableTypeOK, jobTableVars, dashboardVars,
        processVars, browserJobVars, cancelVars
  <1>0. target[r] = jobId
    BY DEF TxnInv
  <1>1. CASE ClickCancel(r)
    BY <1>1 DEF ClickCancel
  <1>2. CASE CancelUpdate(r)
    <2>1. CASE OpenCancel(r) /\ cancel' = [cancel EXCEPT ![r] = "open"]
      BY <1>0, <1>2, <2>1 DEF CancelUpdate, OpenCancel, CancelMatches
    <2>2. CASE UNCHANGED jobTableVars /\ cancel' = [cancel EXCEPT ![r] = "ended"]
      BY <1>0, <1>2, <2>2 DEF CancelUpdate
    <2> QED
      BY <1>2, <2>1, <2>2 DEF CancelUpdate
  <1>3. CASE CancelTearsDown(r)
    BY <1>0, <1>3 DEF CancelTearsDown, CommitCancel
  <1>4. CASE CancelRaises(r)
    BY <1>0, <1>4 DEF CancelRaises, RollbackCancel
  <1>5. CASE CancelResponds(r)
    BY <1>5 DEF CancelResponds
  <1>6. CASE CancelCommits(r)
    BY <1>0, <1>6 DEF CancelCommits, CommitCancel
  <1>7. CASE CancelCommitFails(r)
    BY <1>0, <1>7 DEF CancelCommitFails, RollbackCancel
  <1>8. CASE CancelAnswered(r) \/ CancelBreaks(r)
    BY <1>8 DEF CancelAnswered, CancelBreaks
  <1> QED
    BY <1>1, <1>2, <1>3, <1>4, <1>5, <1>6, <1>7, <1>8 DEF CancelSteps, CancelStep

LEMMA TxnStep ==
  ASSUME TypeOK, TypeOK', TxnInv, [Next]_vars
  PROVE  TxnInv'
  <1>1. ASSUME cancel' = cancel, target' = target, cancelTxn' = cancelTxn,
               \/ job'[jobId] = job[jobId]
               \/ job[jobId] \notin {"queued", "running", "cancelled"}
               \/ job[jobId] # "cancelled" /\ ~Locked(jobId)
        PROVE  TxnInv'
    BY <1>1 DEF TxnInv, Locked, Cancellable
  <1>2. CASE BrowserJobNext /\ UNCHANGED dashboardVars
    BY <1>1, <1>2, BackendSteps DEF dashboardVars, cancelVars
  <1>3. CASE \/ Open
             \/ \E p \in Polls : PollTick(p) \/ PollStep(p) \/ PollBreaks(p)
             \/ \E l \in Loads : LoadStep(l) \/ LoadBreaks(l)
    BY <1>1, <1>3, PageSteps DEF jobTableVars
  <1>4. ASSUME NEW r \in Requests, CancelSteps(r) PROVE TxnInv'
    <2> USE CancelSession, <1>4
    <2>1. \A s \in Requests : cancelTxn[s] => cancel[s] \in {"open", "commit"}
      BY DEF TxnInv
    <2>2. Locked(jobId) <=> \E s \in Requests : cancelTxn[s]
      BY DEF TxnInv, Locked
    <2> QED
      BY <2>1, <2>2 DEF TxnInv, TypeOK, BrowserJobTypeOK, JobTableTypeOK, Cancellable
  <1>5. CASE UNCHANGED vars
    BY <1>1, <1>5 DEF vars, browserJobVars, processVars, jobTableVars, dashboardVars, cancelVars
  <1> QED
    BY <1>2, <1>3, <1>4, <1>5, Steps

-----------------------------------------------------------------------------
(***************************************************************************)
(* The runner and the executor.                                            *)
(***************************************************************************)

\* Failures are only ever counted up.
LEMMA FaultsGrow ==
  ASSUME TypeOK, [Next]_vars, faults' = 0
  PROVE  faults = 0
  <1> USE TheJob DEF TypeOK, BrowserJobTypeOK, Fault, browserJobVars, processVars
  <1>1. CASE BrowserJobNext
    BY <1>1 DEF BrowserJobNext, Backend, Create, CreateAnswered, CreateCommits, CreateFails, Claim, Runner,
       ScriptEnds, Upload, RunnerExits, RunnerKilled, Executor, Dispatch, ExecutorLists,
       ExecutorReturns, ExecutorGivesUp, TaskDies, ReaperFails
  <1>2. CASE Open
    BY <1>2 DEF Open
  <1>3. CASE \E p \in Polls : PollTick(p) \/ PollStep(p) \/ PollBreaks(p)
    BY <1>3 DEF PollTick, PollStep, ServePoll, PollAnswered, PollRefused, PollBreaks
  <1>4. CASE \E l \in Loads : LoadStep(l) \/ LoadBreaks(l)
    BY <1>4 DEF LoadStep, ServeLoad, LoadAnswered, LoadRefused, LoadBreaks
  <1>5. CASE \E r \in Requests : CancelSteps(r)
    BY <1>5 DEF CancelSteps, ClickCancel, CancelTearsDown, CancelStep, CancelUpdate,
       CancelResponds, CancelCommits, CancelAnswered, CancelRaises, CancelCommitFails,
       CancelBreaks
  <1>6. CASE UNCHANGED vars
    BY <1>6 DEF vars
  <1> QED
    BY <1>1, <1>2, <1>3, <1>4, <1>5, <1>6, Steps

\* An upload gives its name an object, and the other names keep theirs.
LEMMA NameStored ==
  ASSUME NEW f \in left, left \subseteq made, Names(store) = Names(made \ left)
  PROVE  Names(Stored(f)) = Names(made \ (left \ {f}))
  <1>1. Names(Stored(f)) = Names(store) \cup {Name[f]}
    BY DEF Names, Stored
  <1>2. Names(made \ (left \ {f})) = Names(made \ left) \cup {Name[f]}
    BY DEF Names
  <1> QED
    BY <1>1, <1>2

\* The steps of run_playwright.py, and its end.
LEMMA RunnerSteps ==
  ASSUME TypeOK, RunnerInv, Runner
  PROVE  RunnerInv'
  <1> USE TheJob DEF RunnerInv, jobTableVars, executorVars
  <1>1. CASE ScriptEnds
    <2>1. Names({}) = {}
      BY DEF Names
    <2>2. CASE runner' = "upload" /\ made' \in SUBSET Files /\ left' = made'
      <3>1. Names(store') = Names(made' \ left')
        BY <1>1, <2>1, <2>2 DEF ScriptEnds
      <3> QED
        BY <1>1, <2>2, <3>1 DEF ScriptEnds, Names
    <2>3. CASE runner' = "quit" /\ UNCHANGED <<made, left>>
      BY <1>1, <2>3 DEF ScriptEnds
    <2> QED
      BY <1>1, <2>2, <2>3 DEF ScriptEnds
  <1>2. ASSUME NEW f \in Files, Upload(f) PROVE RunnerInv'
    <2>1. f \in left /\ left' = left \ {f} /\ made' = made /\ runner' = runner
      BY <1>2 DEF Upload
    <2>2. faults' = 0 => faults = 0 /\ store' = Stored(f)
      BY <1>2 DEF Upload, Fault, TypeOK, BrowserJobTypeOK
    <2>3. faults' = 0 => Names(store)' = Names(made \ left)'
      <3>1. faults = 0 => Names(Stored(f)) = Names(made \ (left \ {f}))
        BY <1>2, <2>1, NameStored DEF Upload
      <3> QED
        BY <2>1, <2>2, <3>1 DEF Names
    <2> QED
      BY <1>2, <2>1, <2>3 DEF Upload
  <1>3. CASE RunnerExits
    BY <1>3 DEF RunnerExits, Names
  <1>4. CASE RunnerKilled
    BY <1>4 DEF RunnerKilled
  <1> QED
    BY <1>1, <1>2, <1>3, <1>4 DEF Runner

LEMMA RunnerStep ==
  ASSUME TypeOK, TxnInv, RunnerInv, [Next]_vars
  PROVE  RunnerInv'
  <1> USE TheJob DEF RunnerInv, runnerVars, executorVars
  <1>0. (faults' = 0 => faults = 0) /\ (made' = made /\ left' = left /\ store' = store
           => Names(store)' = Names(store) /\ Names(made \ left)' = Names(made \ left))
    BY FaultsGrow DEF Names
  <1>1. CASE BrowserJobNext
    <2>1. CASE Create \/ CreateFails \/ Claim
      <3>1. UNCHANGED <<runnerVars, executorVars>>
        BY <2>1 DEF Create, CreateAnswered, CreateCommits, CreateFails, Claim
      <3>2. job'[jobId] = "succeeded" => job[jobId] = "succeeded"
        BY <2>1 DEF Create, CreateAnswered, CreateCommits, CreateFails, CreateJob, Claim,
           ClaimNextJob, TypeOK, BrowserJobTypeOK, JobTableTypeOK, jobTableVars
      <3> QED
        BY <1>0, <3>1, <3>2
    <2>2. CASE Runner
      BY <2>2, RunnerSteps
    <2>3. CASE Dispatch \/ ExecutorLists \/ TaskDies
      BY <1>0, <2>3 DEF Dispatch, ExecutorLists, TaskDies, Working, jobTableVars
    <2>4. CASE ExecutorReturns
      BY <1>0, <2>4 DEF ExecutorReturns
    <2>5. CASE ExecutorGivesUp \/ ReaperFails
      <3>1. job'[jobId] = "succeeded" => job[jobId] = "succeeded"
        BY <2>5 DEF ExecutorGivesUp, ReaperFails, FailIfRunning, FinishIfRunning, TypeOK,
           BrowserJobTypeOK, JobTableTypeOK
      <3> QED
        BY <1>0, <2>5, <3>1 DEF ExecutorGivesUp, ReaperFails
    <2> QED
      BY <1>1, <2>1, <2>2, <2>3, <2>4, <2>5 DEF BrowserJobNext, Backend, Executor
  <1>2. ASSUME UNCHANGED serverVars, job'[jobId] = job[jobId] \/ job'[jobId] = "cancelled"
        PROVE  RunnerInv'
    BY <1>0, <1>2 DEF serverVars
  <1>3. CASE \/ Open
             \/ \E p \in Polls : PollTick(p) \/ PollStep(p) \/ PollBreaks(p)
             \/ \E l \in Loads : LoadStep(l) \/ LoadBreaks(l)
    BY <1>2, <1>3, PageSteps DEF jobTableVars
  <1>4. ASSUME NEW r \in Requests, CancelSteps(r) PROVE RunnerInv'
    <2>1. UNCHANGED serverVars
      BY <1>4 DEF CancelSteps, ClickCancel, CancelTearsDown, CancelStep, CancelUpdate,
         CancelResponds, CancelCommits, CancelAnswered, CancelRaises, CancelCommitFails,
         CancelBreaks, browserJobVars, processVars, serverVars
    <2>2. job'[jobId] = job[jobId] \/ job'[jobId] = "cancelled"
      BY <1>4, CancelSession
    <2> QED
      BY <1>2, <2>1, <2>2
  <1>5. CASE UNCHANGED vars
    BY <1>2, <1>5 DEF vars, browserJobVars, processVars, jobTableVars, serverVars
  <1> QED
    BY <1>1, <1>3, <1>4, <1>5, Steps

-----------------------------------------------------------------------------
(***************************************************************************)
(* What the page shows.                                                    *)
(***************************************************************************)

\* A final status stays, and so does the reason to show one.
Onward ==
    /\ job[jobId] \in Terminal => job'[jobId] = job[jobId]
    /\ Pending => Pending' \/ job'[jobId] = "cancelled" \/ undone'
    /\ undone => undone'
    /\ job'[jobId] = "succeeded" /\ job[jobId] # "succeeded"
         => job[jobId] = "running" /\ ~Pending /\ UNCHANGED dashboardVars

LEMMA Forward ==
  ASSUME TypeOK, TxnInv, [Next]_vars
  PROVE  Onward
  <1> USE DEF Onward, Pending, Terminal
  <1>1. CASE BrowserJobNext /\ UNCHANGED dashboardVars
    <2>1. cancel' = cancel /\ undone' = undone
      BY <1>1 DEF dashboardVars, cancelVars
    <2>2. ~Locked(jobId) => ~Pending
      BY DEF Locked, TxnInv
    <2> QED
      BY <1>1, <2>1, <2>2, BackendSteps
  <1>2. CASE \/ Open
             \/ \E p \in Polls : PollTick(p) \/ PollStep(p) \/ PollBreaks(p)
             \/ \E l \in Loads : LoadStep(l) \/ LoadBreaks(l)
    BY <1>2, PageSteps DEF jobTableVars
  <1>3. ASSUME NEW r \in Requests, CancelSteps(r) PROVE Onward
    <2>1. cancelTxn[r] => job[jobId] \in Cancellable
      BY DEF TxnInv
    <2>2. undone => undone'
      BY <1>3, CancelSession
    <2>3. \/ job'[jobId] = job[jobId]
          \/ job'[jobId] = "cancelled" /\ job[jobId] \in Cancellable
      BY <1>3, <2>1, CancelSession
    <2>4. ASSUME NEW s \in Requests, cancelTxn[s], cancel[s] = "commit"
          PROVE  \/ cancelTxn'[s] /\ cancel'[s] = "commit"
                 \/ job'[jobId] = "cancelled" \/ undone'
      <3>0. Locked(jobId)
        BY <2>4 DEF Locked, TxnInv
      <3>1. CASE s = r
        BY <1>3, <2>4, <3>0, <3>1, CancelSession
      <3>2. CASE s # r
        BY <1>3, <2>4, <3>2, CancelSession
      <3> QED
        BY <3>1, <3>2
    <2> QED
      BY <2>2, <2>3, <2>4 DEF Cancellable
  <1>4. CASE UNCHANGED vars
    BY <1>4 DEF vars, browserJobVars, processVars, jobTableVars, dashboardVars, cancelVars
  <1> QED
    BY <1>1, <1>2, <1>3, <1>4, Steps

\* Whatever may be shown may be shown for good.
LEMMA FinalStays ==
  ASSUME Onward, NEW status \in Terminal, Final(status)
  PROVE  Final(status)'
  BY DEF Onward, Final, Terminal

LEMMA SettledStays ==
  ASSUME Onward, Settled
  PROVE  Settled'
  BY DEF Onward, Settled, Terminal

LEMMA ShownStep ==
  ASSUME TypeOK, TxnInv, ShownInv, [Next]_vars
  PROVE  ShownInv'
  <1>0. Onward
    BY Forward
  <1>1. ASSUME \A p \in Polls : poll'[p] \in Terminal => poll'[p] \in {poll[p], job[jobId]},
               \A r \in Requests : reply'[r] = "cancelled"
                                     => reply[r] = "cancelled" \/ Final("cancelled")',
               shown' \in Terminal => Final(shown')
        PROVE  ShownInv'
    <2>1. \A p \in Polls : poll'[p] \in Terminal => job'[jobId] = poll'[p]
      BY <1>0, <1>1 DEF ShownInv, Onward
    <2>2. \A r \in Requests : reply'[r] = "cancelled" => Final("cancelled")'
      BY <1>0, <1>1, FinalStays DEF ShownInv, Terminal
    <2>3. shown' \in Terminal => Final(shown)'
      BY <1>0, <1>1 DEF Final, Onward, Terminal
    <2> QED
      BY <2>1, <2>2, <2>3 DEF ShownInv
  <1> USE DEF pageVars, pollVars, loadVars, cancelVars, dashboardVars, SendPoll
  <1>2. CASE UNCHANGED <<poll, reply, shown>>
    BY <1>1, <1>2 DEF ShownInv
  <1>3. CASE Open
    BY <1>1, <1>3 DEF Open, ShownInv, TypeOK, Terminal
  <1>4. ASSUME NEW p \in Polls, PollTick(p) \/ PollStep(p) \/ PollBreaks(p) PROVE ShownInv'
    <2>1. CASE PollTick(p) \/ PollRefused(p) \/ PollBreaks(p)
      BY <1>1, <2>1 DEF PollTick, PollRefused, PollBreaks, ShownInv, TypeOK, Terminal
    <2>2. CASE ServePoll(p)
      BY <1>1, <2>2 DEF ServePoll, ShownInv, TypeOK, Terminal
    <2>3. CASE PollAnswered(p)
      <3>1. reply' = reply /\ shown' = poll[p]
        BY <2>3 DEF PollAnswered, SetJob
      <3>2. \A s \in Polls : poll'[s] \in Terminal => poll'[s] = poll[s]
        BY <2>3 DEF PollAnswered, TypeOK, Terminal
      <3>3. shown' \in Terminal => Final(shown')
        BY <3>1 DEF ShownInv, Final
      <3> QED
        BY <1>1, <3>1, <3>2, <3>3
    <2> QED
      BY <1>4, <2>1, <2>2, <2>3 DEF PollStep
  <1>5. ASSUME NEW l \in Loads, LoadStep(l) \/ LoadBreaks(l) PROVE ShownInv'
    BY <1>2, <1>5 DEF LoadStep, ServeLoad, LoadAnswered, LoadRefused, LoadBreaks
  <1>6. ASSUME NEW r \in Requests, CancelSteps(r) PROVE ShownInv'
    <2>1. CASE \/ ClickCancel(r) \/ CancelTearsDown(r) \/ CancelCommits(r)
               \/ CancelCommitFails(r)
      BY <1>2, <2>1 DEF ClickCancel, CancelTearsDown, CancelCommits, CancelCommitFails
    <2>2. CASE CancelUpdate(r) \/ CancelRaises(r) \/ CancelBreaks(r)
      BY <1>1, <2>2 DEF CancelUpdate, CancelRaises, CancelBreaks, ShownInv, TypeOK
    <2>3. CASE CancelResponds(r)
      <3>1. cancelTxn[r] \/ job[jobId] = "cancelled"
        BY <2>3 DEF CancelResponds, TxnInv
      <3>2. Final("cancelled")'
        BY <2>3, <3>1 DEF CancelResponds, Final, Pending, TypeOK, browserJobVars, processVars,
           jobTableVars
      <3> QED
        BY <1>1, <2>3, <3>2 DEF CancelResponds, ShownInv
    <2>4. CASE CancelAnswered(r)
      BY <1>1, <2>4 DEF CancelAnswered, SetJob, ShownInv, TypeOK
    <2> QED
      BY <1>6, <2>1, <2>2, <2>3, <2>4 DEF CancelSteps, CancelStep
  <1>7. CASE UNCHANGED dashboardVars
    BY <1>2, <1>7
  <1> QED
    BY <1>3, <1>4, <1>5, <1>6, <1>7, Steps DEF vars

-----------------------------------------------------------------------------
(***************************************************************************)
(* The list of artifacts.                                                  *)
(***************************************************************************)

\* What is listed, or answered, once the job has succeeded is all there is.
Complete(files) == job[jobId] = "succeeded" /\ ~undone => files = store

\* A list that was complete stays so: nothing is uploaded any more.
LEMMA CompleteStays ==
  ASSUME TypeOK, TxnInv, RunnerInv, ListInv, [Next]_vars, Settled
  PROVE  /\ job'[jobId] = "succeeded" /\ ~undone'
              => job[jobId] = "succeeded" /\ ~undone /\ store' = store
  <1>1. Onward
    BY Forward
  <1>2. job'[jobId] = "succeeded" /\ ~undone' => job[jobId] = "succeeded" /\ ~undone
    BY <1>1 DEF Onward, Settled, Terminal, dashboardVars, cancelVars
  <1>3. runner \in {"exited", "quit"} => store' = store
    <2>1. CASE BrowserJobNext
      BY <2>1 DEF BrowserJobNext, Backend, Create, CreateAnswered, CreateCommits, CreateFails,
         Claim, Runner, ScriptEnds, Upload, RunnerExits, RunnerKilled, Executor, Dispatch,
         ExecutorLists, ExecutorReturns, ExecutorGivesUp, TaskDies, ReaperFails, runnerVars
    <2>2. CASE \/ Open
               \/ \E p \in Polls : PollTick(p) \/ PollStep(p) \/ PollBreaks(p)
               \/ \E l \in Loads : LoadStep(l) \/ LoadBreaks(l)
      BY <2>2, PageSteps DEF serverVars, runnerVars
    <2>3. ASSUME NEW r \in Requests, CancelSteps(r) PROVE store' = store
      BY <2>3 DEF CancelSteps, ClickCancel, CancelTearsDown, CancelStep, CancelUpdate,
         CancelResponds, CancelCommits, CancelAnswered, CancelRaises, CancelCommitFails,
         CancelBreaks, browserJobVars, processVars, serverVars, runnerVars
    <2>4. CASE UNCHANGED vars
      BY <2>4 DEF vars, browserJobVars, processVars, runnerVars
    <2> QED
      BY <2>1, <2>2, <2>3, <2>4, Steps
  <1> QED
    BY <1>2, <1>3 DEF RunnerInv

\* The page asks for the artifacts when it is shown a final status.
LEMMA SetJobSettled ==
  ASSUME TypeOK, Onward, NEW status, SetJob(status), status \in Terminal => Settled
  PROVE  \A l \in Loads : \/ load'[l] = load[l]
                          \/ load[l] = "free" /\ load'[l] = "sent" /\ Settled
  BY DEF SetJob, SendLoad, TypeOK

LEMMA ListStep ==
  ASSUME TypeOK, TxnInv, RunnerInv, ShownInv, ListInv, [Next]_vars
  PROVE  ListInv'
  <1>0. Onward /\ (Settled => Settled')
    BY Forward, SettledStays
  <1>1. ASSUME \A l \in Loads :
                 /\ load'[l] # "free" => Settled
                 /\ load'[l] = "answered" => Complete(content'[l]),
               listed' => Settled /\ Complete(list')
        PROVE  ListInv'
    BY <1>0, <1>1, CompleteStays DEF ListInv, Complete
  <1> USE DEF pageVars, pollVars, loadVars, cancelVars, dashboardVars, SendPoll
  <1>2. CASE UNCHANGED <<load, content, list, listed>>
    BY <1>1, <1>2 DEF ListInv, Complete
  <1>3. ASSUME NEW status, SetJob(status), status \in Terminal => Settled,
               UNCHANGED <<content, list, listed>>
        PROVE  ListInv'
    <2>1. \A l \in Loads : \/ load'[l] = load[l]
                           \/ load[l] = "free" /\ load'[l] = "sent" /\ Settled
      BY <1>0, <1>3, SetJobSettled
    <2> QED
      BY <1>1, <1>3, <2>1 DEF ListInv, Complete
  <1>4. CASE Open
    BY <1>2, <1>4 DEF Open
  <1>5. ASSUME NEW p \in Polls, PollTick(p) \/ PollStep(p) \/ PollBreaks(p) PROVE ListInv'
    <2>1. CASE PollTick(p) \/ ServePoll(p) \/ PollRefused(p) \/ PollBreaks(p)
      BY <1>2, <2>1 DEF PollTick, ServePoll, PollRefused, PollBreaks
    <2>2. CASE PollAnswered(p)
      BY <1>3, <2>2 DEF PollAnswered, ShownInv, Settled
    <2> QED
      BY <1>5, <2>1, <2>2 DEF PollStep
  <1>6. ASSUME NEW l \in Loads, LoadStep(l) \/ LoadBreaks(l) PROVE ListInv'
    <2>1. CASE ServeLoad(l)
      BY <1>1, <2>1 DEF ServeLoad, ListInv, Complete, TypeOK
    <2>2. CASE LoadAnswered(l)
      BY <1>1, <2>2 DEF LoadAnswered, ListInv, Complete, TypeOK
    <2>3. CASE LoadRefused(l) \/ LoadBreaks(l)
      BY <1>1, <2>3 DEF LoadRefused, LoadBreaks, ListInv, Complete, TypeOK
    <2> QED
      BY <1>6, <2>1, <2>2, <2>3 DEF LoadStep
  <1>7. ASSUME NEW r \in Requests, CancelSteps(r) PROVE ListInv'
    <2>1. CASE \/ ClickCancel(r) \/ CancelTearsDown(r) \/ CancelUpdate(r) \/ CancelRaises(r)
               \/ CancelResponds(r) \/ CancelCommits(r) \/ CancelCommitFails(r)
               \/ CancelBreaks(r)
      BY <1>2, <2>1 DEF ClickCancel, CancelTearsDown, CancelUpdate, CancelRaises,
         CancelResponds, CancelCommits, CancelCommitFails, CancelBreaks
    <2>2. CASE CancelAnswered(r)
      <3>1. CASE reply[r] = "cancelled" /\ SetJob("cancelled")
        <4>1. Settled
          BY <3>1 DEF ShownInv, Final, Settled, Terminal
        <4> QED
          BY <1>3, <2>2, <3>1, <4>1 DEF CancelAnswered
      <3>2. CASE UNCHANGED <<shown, load>>
        BY <1>2, <2>2, <3>2 DEF CancelAnswered
      <3> QED
        BY <2>2, <3>1, <3>2 DEF CancelAnswered
    <2> QED
      BY <1>7, <2>1, <2>2 DEF CancelSteps, CancelStep
  <1>8. CASE UNCHANGED dashboardVars
    BY <1>2, <1>8
  <1> QED
    BY <1>4, <1>5, <1>6, <1>7, <1>8, Steps DEF vars

-----------------------------------------------------------------------------
(***************************************************************************)
(* The first read of a job whose creation has yet to commit.               *)
(***************************************************************************)

\* A row that is there stays: no statement deletes a job.
LEMMA RowStays ==
  ASSUME TypeOK, TxnInv, [Next]_vars, Exists(jobId)
  PROVE  Exists(jobId)'
  <1> USE DEF Exists
  <1>1. CASE BrowserJobNext /\ UNCHANGED dashboardVars
    BY <1>1, BackendSteps
  <1>2. CASE \/ Open
             \/ \E p \in Polls : PollTick(p) \/ PollStep(p) \/ PollBreaks(p)
             \/ \E l \in Loads : LoadStep(l) \/ LoadBreaks(l)
    BY <1>2, PageSteps DEF jobTableVars
  <1>3. ASSUME NEW r \in Requests, CancelSteps(r) PROVE Exists(jobId)'
    BY <1>3, CancelSession
  <1>4. CASE UNCHANGED vars
    BY <1>4 DEF vars, browserJobVars, processVars, jobTableVars
  <1> QED
    BY <1>1, <1>2, <1>3, <1>4, Steps

\* The part of the state that the first read is about, when a step leaves it alone.
readVars == <<page, shown, error, poll>>

\* A cancel is asked for on a page that shows its job, and no other step answers one.
LEMMA CancelsShown ==
  ASSUME TypeOK, KnownInv, NEW r \in Requests, CancelSteps(r)
  PROVE  /\ page' = page /\ error' = error /\ poll' = poll
         /\ shown' \in {shown, "cancelled"}
         /\ shown' # shown => shown # "none"
         /\ \A s \in Requests : cancel'[s] # "idle" \/ reply'[s] # "none" => shown # "none"
  <1> USE DEF TypeOK, KnownInv, browserJobVars, pageVars, pollVars, cancelVars, dashboardVars
  <1>1. CASE ClickCancel(r)
    <2>1. shown # "none"
      BY <1>1 DEF ClickCancel, Cancellable
    <2> QED
      BY <1>1, <2>1 DEF ClickCancel
  <1>2. CASE CancelUpdate(r) \/ CancelRaises(r) \/ CancelCommits(r) \/ CancelCommitFails(r)
    BY <1>2 DEF CancelUpdate, CancelRaises, CancelCommits, CancelCommitFails
  <1>3. CASE CancelTearsDown(r) \/ CancelResponds(r)
    BY <1>3 DEF CancelTearsDown, CancelResponds
  <1>4. CASE CancelAnswered(r) \/ CancelBreaks(r)
    BY <1>4 DEF CancelAnswered, CancelBreaks, SetJob
  <1> QED
    BY <1>1, <1>2, <1>3, <1>4 DEF CancelSteps, CancelStep

LEMMA KnownStep ==
  ASSUME TypeOK, TxnInv, KnownInv, [Next]_vars
  PROVE  KnownInv'
  <1>0. Exists(jobId) => Exists(jobId)'
    BY RowStays
  <1>1. CASE UNCHANGED <<readVars, cancel, reply>>
    BY <1>0, <1>1 DEF KnownInv, readVars
  <1>2. CASE BrowserJobNext /\ UNCHANGED dashboardVars
    BY <1>1, <1>2 DEF dashboardVars, pageVars, pollVars, cancelVars, readVars
  <1>3. CASE Open
    BY <1>0, <1>3, PageSteps DEF Open, SendPoll, KnownInv, TypeOK, JobStatus, Terminal
  <1>4. ASSUME NEW p \in Polls, PollTick(p) \/ PollStep(p) \/ PollBreaks(p) PROVE KnownInv'
    <2>0. page' = page /\ UNCHANGED <<cancel, reply>>
      BY <1>4, PageSteps
         DEF PollTick, PollStep, ServePoll, PollAnswered, PollRefused, PollBreaks, pageVars
    <2> USE <1>0, <2>0 DEF KnownInv, TypeOK, JobStatus, Terminal, pageVars, SendPoll
    <2>1. CASE PollTick(p)
      BY <2>1 DEF PollTick, Armed
    <2>2. CASE ServePoll(p)
      <3>1. \A q \in Polls : poll'[q] \in JobStatus => Exists(jobId)
        BY <2>2 DEF ServePoll
      <3> QED
        BY <2>2, <3>1 DEF ServePoll
    <2>3. CASE PollAnswered(p)
      BY <2>3 DEF PollAnswered, SetJob
    <2>4. CASE PollRefused(p)
      BY <2>4 DEF PollRefused
    <2>5. CASE PollBreaks(p)
      BY <2>5 DEF PollBreaks
    <2> QED
      BY <1>4, <2>1, <2>2, <2>3, <2>4, <2>5 DEF PollStep
  <1>5. ASSUME NEW l \in Loads, LoadStep(l) \/ LoadBreaks(l) PROVE KnownInv'
    <2>1. UNCHANGED readVars
      BY <1>5 DEF LoadStep, ServeLoad, LoadAnswered, LoadRefused, LoadBreaks, readVars,
         pageVars, pollVars
    <2> QED
      BY <1>1, <1>5, <2>1, PageSteps
  <1>6. ASSUME NEW r \in Requests, CancelSteps(r) PROVE KnownInv'
    BY <1>0, <1>6, CancelsShown DEF KnownInv
  <1>7. CASE UNCHANGED vars
    BY <1>1, <1>7 DEF vars, dashboardVars, pageVars, pollVars, cancelVars, readVars
  <1> QED
    BY <1>2, <1>3, <1>4, <1>5, <1>6, <1>7, Steps

LEMMA FirstReadStep ==
  ASSUME TypeOK, KnownInv, FirstReadInv, [Next]_vars
  PROVE  FirstReadInv'
  <1>0. faults' = 0 => faults = 0
    BY FaultsGrow
  <1>1. CASE UNCHANGED readVars
    BY <1>0, <1>1 DEF FirstReadInv, readVars
  <1>2. CASE BrowserJobNext /\ UNCHANGED dashboardVars
    BY <1>1, <1>2 DEF dashboardVars, pageVars, pollVars, readVars
  <1>3. CASE Open
    BY <1>0, <1>3 DEF Open, SendPoll, KnownInv, FirstReadInv, TypeOK
  <1>4. ASSUME NEW p \in Polls, PollTick(p) \/ PollStep(p) \/ PollBreaks(p)
        PROVE  FirstReadInv'
    <2> USE <1>0 DEF FirstReadInv, TypeOK, JobStatus, Terminal, pageVars, SendPoll
    <2>1. CASE PollTick(p)
      BY <2>1 DEF PollTick, Armed
    <2>2. CASE ServePoll(p)
      <3>1. shown # "none" => Exists(jobId)
        BY DEF KnownInv
      <3>2. faults' = 0 => poll' = [poll EXCEPT ![p] = IF Exists(jobId) THEN job[jobId]
                                                       ELSE "refused"]
        BY <2>2, TheJob DEF ServePoll, Fault, BrowserJobTypeOK
      <3>3. Exists(jobId) => job[jobId] \in JobStatus
        BY TheJob DEF Exists, BrowserJobTypeOK, JobTableTypeOK
      <3>4. shown' = shown /\ error' = error
        BY <2>2 DEF ServePoll
      <3>5. \A q \in Polls : poll'[q] # "free" => poll[q] # "free"
        BY <2>2 DEF ServePoll
      <3>6. faults' = 0 /\ shown # "none" => \A q \in Polls : poll'[q] # "refused"
        BY <3>1, <3>2, <3>3
      <3>7. shown' = "none" /\ error' => \A q \in Polls : poll'[q] = "free"
        BY <2>2, <3>4 DEF ServePoll
      <3> QED
        BY <3>4, <3>5, <3>6, <3>7
    <2>3. CASE PollAnswered(p)
      <3>1. shown' = poll[p] /\ error' = error /\ faults' = faults
        BY <2>3 DEF PollAnswered, SetJob, browserJobVars
      <3>2. poll' = [poll EXCEPT ![p] = "free"] /\ poll[p] \in JobStatus
        BY <2>3 DEF PollAnswered
      <3> QED
        BY <3>1, <3>2
    <2>4. CASE PollRefused(p)
      BY <2>4 DEF PollRefused, browserJobVars
    <2>5. CASE PollBreaks(p)
      BY <2>5 DEF PollBreaks
    <2> QED
      BY <1>4, <2>1, <2>2, <2>3, <2>4, <2>5 DEF PollStep
  <1>5. ASSUME NEW l \in Loads, LoadStep(l) \/ LoadBreaks(l) PROVE FirstReadInv'
    BY <1>1, <1>5 DEF LoadStep, ServeLoad, LoadAnswered, LoadRefused, LoadBreaks, readVars,
       pageVars, pollVars
  <1>6. ASSUME NEW r \in Requests, CancelSteps(r) PROVE FirstReadInv'
    BY <1>0, <1>6, CancelsShown DEF FirstReadInv
  <1>7. CASE UNCHANGED vars
    BY <1>1, <1>7 DEF vars, dashboardVars, pageVars, pollVars, readVars
  <1> QED
    BY <1>2, <1>3, <1>4, <1>5, <1>6, <1>7, Steps

-----------------------------------------------------------------------------
(***************************************************************************)
(* Something is under way for whatever the page lacks.                     *)
(***************************************************************************)

\* A listing under way stays so until it is answered, refused or cut off.
Listing == listed \/ listError \/ broken \/ \E l \in Loads : load[l] # "free"

LEMMA ListingStays ==
  ASSUME TypeOK, Listing, NEW l \in Loads, LoadStep(l) \/ LoadBreaks(l)
  PROVE  Listing'
  <1> USE DEF TypeOK, Listing
  <1>1. CASE ServeLoad(l)
    <2>1. load'[l] # "free"
      BY <1>1 DEF ServeLoad
    <2> QED
      BY <2>1
  <1>2. CASE LoadAnswered(l) \/ LoadRefused(l) \/ LoadBreaks(l)
    BY <1>2 DEF LoadAnswered, LoadRefused, LoadBreaks
  <1> QED
    BY <1>1, <1>2 DEF LoadStep

\* A final status sets off a listing.
LEMMA FinalIsListed ==
  ASSUME TypeOK, NEW status, SetJob(status), status \in Terminal
  PROVE  Listing'
  BY DEF TypeOK, SetJob, SendLoad, Listing

LEMMA StandstillStep ==
  ASSUME TypeOK, KnownInv, NoStandstill, [Next]_vars
  PROVE  NoStandstill'
  <1>0. faults' = 0 => faults = 0
    BY FaultsGrow
  <1>1. /\ faults \in Nat /\ faults' \in Nat
    BY TheJob, TypeStep DEF TypeOK, BrowserJobTypeOK
  <1> USE DEF NoStandstill
  <1>2. CASE UNCHANGED <<readVars, loadVars, listed, listError>>
    BY <1>0, <1>1, <1>2 DEF readVars, loadVars
  <1>3. CASE Open
    BY <1>3 DEF Open, SendPoll, TypeOK, KnownInv, Terminal, loadVars
  <1>4. ASSUME NEW p \in Polls, PollTick(p) \/ PollStep(p) \/ PollBreaks(p)
        PROVE  NoStandstill'
    <2> USE DEF TypeOK, pageVars, loadVars
    <2>1. CASE PollTick(p)
      BY <1>0, <1>1, <2>1 DEF PollTick, SendPoll
    <2>2. CASE ServePoll(p)
      <3>1. poll'[p] # "free"
        BY <2>2, TheJob DEF ServePoll, BrowserJobTypeOK, JobTableTypeOK, JobStatus, Terminal
      <3> QED
        BY <2>2, <3>1 DEF ServePoll
    <2>3. CASE PollAnswered(p)
      <3>1. shown' = poll[p] /\ shown' # "none" /\ UNCHANGED <<listed, listError, broken>>
        BY <2>3 DEF PollAnswered, SetJob, JobStatus, Terminal
      <3>2. shown' \in Terminal => Listing'
        BY <2>3, <3>1, FinalIsListed DEF PollAnswered
      <3> QED
        BY <3>1, <3>2 DEF Listing
    <2>4. CASE PollRefused(p)
      BY <2>4 DEF PollRefused
    <2>5. CASE PollBreaks(p)
      BY <1>1, <2>5, TheJob DEF PollBreaks, Fault
    <2> QED
      BY <1>4, <2>1, <2>2, <2>3, <2>4, <2>5 DEF PollStep
  <1>5. ASSUME NEW l \in Loads, LoadStep(l) \/ LoadBreaks(l) PROVE NoStandstill'
    <2>1. UNCHANGED readVars
      BY <1>5 DEF LoadStep, ServeLoad, LoadAnswered, LoadRefused, LoadBreaks, readVars,
         pageVars, pollVars
    <2>2. Listing => Listing'
      BY <1>5, ListingStays
    <2> QED
      BY <1>0, <1>1, <2>1, <2>2 DEF Listing, readVars
  <1>6. ASSUME NEW r \in Requests, CancelSteps(r) PROVE NoStandstill'
    <2>1. UNCHANGED <<page, error, poll, listed, listError, broken>>
      BY <1>6 DEF CancelSteps, ClickCancel, CancelTearsDown, CancelStep, CancelUpdate,
         CancelResponds, CancelCommits, CancelAnswered, CancelRaises, CancelCommitFails,
         CancelBreaks, pageVars, pollVars, loadVars, dashboardVars
    <2>2. \/ UNCHANGED <<shown, load>>
          \/ SetJob("cancelled") /\ shown # "none"
      BY <1>6 DEF CancelSteps, ClickCancel, CancelTearsDown, CancelStep, CancelUpdate,
         CancelResponds, CancelCommits, CancelAnswered, CancelRaises, CancelCommitFails,
         CancelBreaks, pageVars, pollVars, loadVars, dashboardVars, KnownInv
    <2>3. SetJob("cancelled") => shown' = "cancelled" /\ Listing'
      BY FinalIsListed DEF SetJob, Terminal
    <2> QED
      BY <1>0, <1>1, <2>1, <2>2, <2>3 DEF Listing
  <1>7. CASE BrowserJobNext /\ UNCHANGED dashboardVars
    BY <1>2, <1>7 DEF dashboardVars, pageVars, pollVars, readVars
  <1>8. CASE UNCHANGED vars
    BY <1>2, <1>8 DEF vars, dashboardVars, pageVars, pollVars, readVars
  <1> QED
    BY <1>3, <1>4, <1>5, <1>6, <1>7, <1>8, Steps

-----------------------------------------------------------------------------
(***************************************************************************)
(* The job behind the page goes through JobLifecycle.                      *)
(***************************************************************************)

LEMMA LifecycleStep ==
  ASSUME TypeOK, TxnInv, [Next]_vars
  PROVE  [Lifecycle!LifecycleNext]_(Lifecycle!lifecycleVars)
  <1> USE TheJob DEF TypeOK, BrowserJobTypeOK, JobTableTypeOK, Lifecycle!Become,
        Lifecycle!LifecycleNext, Lifecycle!lifecycleVars
  <1>1. CASE Create \/ CreateFails
    <2>1. CreateJob(jobId) => Lifecycle!Submit(jobId)
      BY DEF CreateJob, Exists, Lifecycle!Submit
    <2> QED
      BY <1>1, <2>1 DEF Create, CreateAnswered, CreateCommits, CreateFails, jobTableVars
  <1>2. CASE Claim
    <2>1. Lifecycle!Claim(jobId)
      BY <1>2 DEF Claim, ClaimNextJob, Claimable, Lifecycle!Claim
    <2> QED
      BY <2>1
  <1>3. CASE Runner \/ Dispatch \/ ExecutorLists \/ TaskDies
    BY <1>3 DEF Runner, ScriptEnds, Upload, RunnerExits, RunnerKilled, Dispatch,
       ExecutorLists, TaskDies, jobTableVars
  <1>4. CASE ExecutorReturns \/ ExecutorGivesUp \/ ReaperFails
    <2>1. PICK s \in {"succeeded", "failed"} : FinishIfRunning(jobId, s)
      BY <1>4 DEF ExecutorReturns, ExecutorGivesUp, ReaperFails, CompleteIfRunning,
         FailIfRunning
    <2>2. Lifecycle!Finish(jobId) \/ UNCHANGED <<job, claims>>
      BY <2>1 DEF FinishIfRunning, Lifecycle!Finish
    <2> QED
      BY <2>2
  <1>5. CASE \/ Open
             \/ \E p \in Polls : PollTick(p) \/ PollStep(p) \/ PollBreaks(p)
             \/ \E l \in Loads : LoadStep(l) \/ LoadBreaks(l)
    BY <1>5, PageSteps DEF jobTableVars
  <1>6. ASSUME NEW r \in Requests, CancelSteps(r)
        PROVE  Lifecycle!Cancel(jobId) \/ UNCHANGED <<job, claims>>
    <2>1. \/ OpenCancel(r) \/ CommitCancel(r) \/ RollbackCancel(r)
          \/ UNCHANGED jobTableVars
      BY <1>6 DEF CancelSteps, ClickCancel, CancelTearsDown, CancelStep, CancelUpdate,
         CancelResponds, CancelCommits, CancelAnswered, CancelRaises, CancelCommitFails,
         CancelBreaks, browserJobVars, processVars
    <2>2. target[r] = jobId /\ (cancelTxn[r] => job[jobId] \in Cancellable)
      BY DEF TxnInv
    <2>3. CommitCancel(r) => Lifecycle!Cancel(jobId) \/ UNCHANGED <<job, claims>>
      BY <2>2 DEF CommitCancel, Cancellable, Lifecycle!Cancel
    <2> QED
      BY <2>1, <2>3 DEF OpenCancel, RollbackCancel, jobTableVars
  <1>7. CASE UNCHANGED vars
    BY <1>7 DEF vars, browserJobVars, processVars, jobTableVars
  <1> QED
    BY <1>1, <1>2, <1>3, <1>4, <1>5, <1>6, <1>7, Steps
       DEF BrowserJobNext, Backend, Executor

-----------------------------------------------------------------------------
LEMMA InvHolds == Spec => []Inv
  <1>1. Inv /\ [Next]_vars => Inv'
    BY TypeStep, TxnStep, RunnerStep, ShownStep, ListStep, KnownStep, FirstReadStep,
       StandstillStep DEF Inv
  <1> QED
    BY InvInit, <1>1, PTL DEF Spec

\* The types of the job, its processes, the requests and the page.
THEOREM DashboardTypeCorrect == Spec => []TypeOK
  <1>1. Inv => TypeOK
    BY DEF Inv
  <1> QED
    BY <1>1, InvHolds, PTL

\* However many reads and cancels are in flight and in whatever order they are answered,
\* the page shows no final status that the job does not have or is about to have
\* (loadJob, handleCancel).
THEOREM ShownIsTrue == Spec => []TerminalShownIsTrue
  <1>1. Inv => TerminalShownIsTrue
    BY DEF Inv, TxnInv, ShownInv, Final, Pending, Locked, TerminalShownIsTrue
  <1> QED
    BY <1>1, InvHolds, PTL

\* A succeeded job reports and shows what the bucket holds, and unless its script left main
\* for itself every name of output_dir has an object there if no call failed, whatever the
\* directories of the files (run_playwright.py, PlaywrightJobExecutor.execute, loadArtifacts).
THEOREM ArtifactsAgreeInTheEnd == Spec => []ArtifactsAgree
  <1>1. Inv => ArtifactsAgree
    BY DEF Inv, RunnerInv, ListInv, ArtifactsAgree
  <1> QED
    BY <1>1, InvHolds, PTL

\* A page that has shown its job never says "Job not found", unless a call failed: only the
\* first read can come before the creation's commit, and the interval that sends the others
\* is set by its answer (handleSubmit, loadJob).
THEOREM FoundStaysFound == Spec => []FoundIsNotLost
  <1>1. Inv => FoundIsNotLost
    BY TheJob DEF Inv, FirstReadInv, FoundIsNotLost, TypeOK, BrowserJobTypeOK
  <1> QED
    BY <1>1, InvHolds, PTL

\* The page never waits for nothing: while it lacks the job or the artifacts of an ended one,
\* a request of it is under way, or one was refused or cut off (loadJob, loadArtifacts).
THEOREM PageNeverStandsStill == Spec => []NoStandstill
  <1>1. Inv => NoStandstill
    BY DEF Inv
  <1> QED
    BY <1>1, InvHolds, PTL

\* The job behind the page is claimed once and ends once, though a cancel answers before its
\* session commits and the executor reports at any time (cancel_job, get_db_session, execute).
THEOREM DashboardImplementsLifecycle == Spec => RefinesLifecycle
  <1>1. Init => Lifecycle!LifecycleInit
    BY DEF Init, BrowserJobInit, JobTableInit, Lifecycle!LifecycleInit
  <1>2. Inv /\ [Next]_vars => [Lifecycle!LifecycleNext]_(Lifecycle!lifecycleVars)
    BY LifecycleStep DEF Inv
  <1> QED
    BY <1>1, <1>2, InvHolds, PTL DEF Spec, RefinesLifecycle, Lifecycle!LifecycleSpec

=============================================================================
