------------------------------ MODULE JobTable ------------------------------
(***************************************************************************)
(* The jobs table and the statements of SqlAlchemyJobRepository.           *)
(*                                                                         *)
(* Every statement but one commits before it returns, so it is atomic.     *)
(* The cancel UPDATE is left open in the transaction of its HTTP request:  *)
(* until that transaction ends the row is locked, readers still see the    *)
(* old status, SKIP LOCKED passes over the row, and the other UPDATEs wait *)
(* and then evaluate their WHERE clause again (READ COMMITTED).            *)
(***************************************************************************)
EXTENDS Naturals, FiniteSets

CONSTANTS Jobs,          \* the jobs that may be submitted
          Requests       \* the calls of POST /jobs/{job_id}/cancel

ASSUME JobsAssumption ==
    /\ IsFiniteSet(Jobs)
    /\ Jobs \cap Requests = {}

VARIABLES job,           \* job[j]: committed jobs.status, "none" before the row exists
          createdAt,     \* createdAt[j]: rank of jobs.created_at, 0 before the row exists
          claims,        \* claims[j]: how many claims returned j
          target,        \* target[r]: the job_id of cancel request r
          cancelTxn,     \* cancelTxn[r]: r holds an uncommitted cancel of target[r]
          jobsTotal      \* jobsTotal[j]: increments of cloudworker_jobs_total made for j

jobTableVars == <<job, createdAt, claims, target, cancelTxn, jobsTotal>>

Terminal == {"succeeded", "failed", "cancelled"}
JobStatus == {"queued", "running"} \cup Terminal
Cancellable == {"queued", "running"}

JobTableTypeOK ==
    /\ job \in [Jobs -> JobStatus \cup {"none"}]
    /\ createdAt \in [Jobs -> Nat]
    /\ claims \in [Jobs -> Nat]
    /\ target \in [Requests -> Jobs]
    /\ cancelTxn \in [Requests -> BOOLEAN]
    /\ jobsTotal \in [Jobs -> Nat]

JobTableInit ==
    /\ job = [j \in Jobs |-> "none"]
    /\ createdAt = [j \in Jobs |-> 0]
    /\ claims = [j \in Jobs |-> 0]
    /\ target \in [Requests -> Jobs]
    /\ cancelTxn = [r \in Requests |-> FALSE]
    /\ jobsTotal = [j \in Jobs |-> 0]

\* The row of j is locked by an open cancel transaction.
Locked(j) == \E r \in Requests : cancelTxn[r] /\ target[r] = j

Exists(j) == job[j] # "none"

-----------------------------------------------------------------------------
CreateJob(j) ==
    /\ ~Exists(j)
    /\ job' = [job EXCEPT ![j] = "queued"]
    /\ createdAt' = [createdAt EXCEPT ![j] = 1 + Cardinality({k \in Jobs : Exists(k)})]
    /\ UNCHANGED <<claims, target, cancelTxn, jobsTotal>>

\* Mutant: the claim also selects running jobs.
ClaimableOrRunning == {j \in Jobs : job[j] \in {"queued", "running"} /\ ~Locked(j)}

\* SELECT ... WHERE status = 'queued' ... FOR UPDATE SKIP LOCKED
Claimable == {j \in Jobs : job[j] = "queued" /\ ~Locked(j)}

\* ORDER BY created_at LIMIT 1, then the UPDATE and its commit.
ClaimNextJob(j) ==
    /\ j \in Claimable
    /\ \A k \in Claimable : createdAt[j] <= createdAt[k]
    /\ job' = [job EXCEPT ![j] = "running"]
    /\ claims' = [claims EXCEPT ![j] = @ + 1]
    /\ UNCHANGED <<createdAt, target, cancelTxn, jobsTotal>>

\* Mutant: the UPDATE has no status condition.
FinishAnyway(j, status) ==
    /\ ~Locked(j)
    /\ job' = [job EXCEPT ![j] = status]
    /\ jobsTotal' = [jobsTotal EXCEPT ![j] = @ + 1]
    /\ UNCHANGED <<createdAt, claims, target, cancelTxn>>

\* Mutant: the caller counts even when no row came back.
FinishAndCount(j, status) ==
    /\ ~Locked(j)
    /\ job' = IF job[j] = "running" THEN [job EXCEPT ![j] = status] ELSE job
    /\ jobsTotal' = [jobsTotal EXCEPT ![j] = @ + 1]
    /\ UNCHANGED <<createdAt, claims, target, cancelTxn>>

\* Mutant: the UPDATE does not wait for the row's lock.
FinishUnlocked(j, status) ==
    /\ \/ /\ job[j] = "running"
          /\ job' = [job EXCEPT ![j] = status]
          /\ jobsTotal' = [jobsTotal EXCEPT ![j] = @ + 1]
       \/ /\ job[j] # "running"
          /\ UNCHANGED <<job, jobsTotal>>
    /\ UNCHANGED <<createdAt, claims, target, cancelTxn>>

\* fail() and complete(), with the caller's counter increment when a row came back.
FinishIfRunning(j, status) ==
    /\ ~Locked(j)
    /\ \/ /\ job[j] = "running"
          /\ job' = [job EXCEPT ![j] = status]
          /\ jobsTotal' = [jobsTotal EXCEPT ![j] = @ + 1]
       \/ /\ job[j] # "running"
          /\ UNCHANGED <<job, jobsTotal>>
    /\ UNCHANGED <<createdAt, claims, target, cancelTxn>>

FailIfRunning(j) == FinishIfRunning(j, "failed")
CompleteIfRunning(j) == FinishIfRunning(j, "succeeded")

\* The cancel UPDATE finds a row to change; the change stays uncommitted.
CancelMatches(r) == ~Locked(target[r]) /\ job[target[r]] \in Cancellable

OpenCancel(r) ==
    /\ CancelMatches(r)
    /\ cancelTxn' = [cancelTxn EXCEPT ![r] = TRUE]
    /\ UNCHANGED <<job, createdAt, claims, target, jobsTotal>>

\* COMMIT and ROLLBACK of the request's session.
CommitCancel(r) ==
    /\ job' = IF cancelTxn[r] THEN [job EXCEPT ![target[r]] = "cancelled"] ELSE job
    /\ cancelTxn' = [cancelTxn EXCEPT ![r] = FALSE]
    /\ UNCHANGED <<createdAt, claims, target, jobsTotal>>

RollbackCancel(r) ==
    /\ cancelTxn' = [cancelTxn EXCEPT ![r] = FALSE]
    /\ UNCHANGED <<job, createdAt, claims, target, jobsTotal>>
=============================================================================
