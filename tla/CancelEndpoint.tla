---------------------------- MODULE CancelEndpoint ----------------------------
(***************************************************************************)
(* The HTTP side of a job: create_job, and cancel_job with the request's   *)
(* database session.  All repositories of one request share that session,  *)
(* so whatever commits first commits everything done in it so far.         *)
(***************************************************************************)
EXTENDS WorkerManager

\* Whether app.state.worker_provisioner is set in the API process.
CONSTANT ApiCanTerminate

ASSUME EndpointAssumption == ApiCanTerminate \in BOOLEAN

VARIABLE existing      \* existing[r]: the status of the job as r first read it

EndpointTypeOK == existing \in [Requests -> JobStatus \cup {"none"}]
EndpointInit == existing = [r \in Requests |-> "none"]

\* create_job: the insert becomes visible when the request commits.
SubmitJob(j) ==
    /\ CreateJob(j)
    /\ UNCHANGED <<row, managerVars, existing>>

\* get_by_id_for_user; without a row the answer is 404 and nothing changes.
CancelRead(r) ==
    /\ At(r, "idle")
    /\ Exists(target[r])
    /\ existing' = [existing EXCEPT ![r] = job[target[r]]]
    /\ Goto(r, "cancel")
    /\ UNCHANGED <<row, ec2, seen, jobTableVars>>

\* The conditional UPDATE.  The decision to tear the worker down uses the status
\* read before it.
CancelUpdate(r) ==
    /\ At(r, "cancel")
    /\ OpenCancel(r)
    /\ Goto(r, IF existing[r] = "running" /\ ApiCanTerminate THEN "get" ELSE "respond")
    /\ UNCHANGED <<row, ec2, seen, existing>>

\* No row matched: 409.
CancelConflict(r) ==
    /\ At(r, "cancel")
    /\ ~Locked(target[r])
    /\ job[target[r]] \notin Cancellable
    /\ Goto(r, "done")
    /\ UNCHANGED <<row, ec2, seen, existing, jobTableVars>>

\* The counter is incremented and the response built.
CancelRespond(r) ==
    /\ At(r, "respond")
    /\ jobsTotal' = [jobsTotal EXCEPT ![target[r]] = @ + 1]
    /\ Goto(r, "commit")
    /\ UNCHANGED <<job, createdAt, claims, target, cancelTxn, row, ec2, seen, existing>>

\* get_db_session commits after the response.
CancelCommit(r) ==
    /\ At(r, "commit")
    /\ CommitCancel(r)
    /\ Goto(r, "done")
    /\ UNCHANGED <<row, ec2, seen, existing>>

\* Mutant: an exception leaves the transaction open.
CancelRaisesKeepingLock(r) ==
    /\ \/ TeardownRaises(r)
       \/ (At(r, "cancel") \/ At(r, "commit")) /\ MayFail("db")
       \/ ~(At(r, "idle") \/ At(r, "done")) /\ MayFail("api")
    /\ Goto(r, "done")
    /\ UNCHANGED <<row, ec2, seen, existing, jobTableVars>>

\* An exception, or the death of the API process, rolls the session back.
CancelRaises(r) ==
    /\ \/ TeardownRaises(r)
       \/ (At(r, "cancel") \/ At(r, "commit")) /\ MayFail("db")
       \/ ~(At(r, "idle") \/ At(r, "done")) /\ MayFail("api")
    /\ RollbackCancel(r)
    /\ Goto(r, "done")
    /\ UNCHANGED <<row, ec2, seen, existing>>

CancelStep(r) ==
    \/ CancelUpdate(r)
    \/ CancelConflict(r)
    \/ CancelRespond(r)
    \/ CancelCommit(r)
    \/ Teardown(r) /\ UNCHANGED existing
    \/ CancelRaises(r)
=============================================================================
