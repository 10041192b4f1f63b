----------------------------- MODULE WorkerTable -----------------------------
(***************************************************************************)
(* The workers table and SqlAlchemyWorkerRepository, which commits every   *)
(* transition at once.  A job is claimed at most once (CloudWorker checks  *)
(* it), so it has at most one row.  _set_status writes the new status      *)
(* whatever the row holds by then: the row it read is in the session's     *)
(* identity map, and there is no WHERE status clause.                      *)
(***************************************************************************)
EXTENDS JobTable

VARIABLE row     \* row[j]: the worker row of job j

\* WorkerStatus (domain/entities.py), and the statuses list_stale selects.
NonTerminalWorker == {"pending", "provisioning", "ready", "terminating"}
FinishedWorker == {"terminated", "failed"}
WorkerStatus == NonTerminalWorker \cup FinishedWorker

\* instance, ready: instance_id and ready_at are not NULL.  stale: updated_at lies
\* before the cutoff of list_stale; an UPDATE of the row sets updated_at, so clears it.
Row == [status : WorkerStatus \cup {"none"},
        instance : BOOLEAN, ready : BOOLEAN, stale : BOOLEAN]
NoRow == [status |-> "none", instance |-> FALSE, ready |-> FALSE, stale |-> FALSE]

WorkerTableTypeOK == row \in [Jobs -> Row]
WorkerTableInit == row = [j \in Jobs |-> NoRow]

CreateWorker(j) == row' = [row EXCEPT ![j] = [NoRow EXCEPT !.status = "pending"]]

\* _set_status with the columns each mark_* passes: mark_provisioning stores the
\* instance id and mark_ready the time, and nothing ever clears them.
SetStatus(j, status) ==
    row' = [row EXCEPT ![j] = [status |-> status,
                               instance |-> IF status = "provisioning" THEN TRUE ELSE @.instance,
                               ready |-> IF status = "ready" THEN TRUE ELSE @.ready,
                               stale |-> FALSE]]

\* mark_terminating by a session that loaded the row with status `loaded`: when that
\* is already 'terminating' the ORM sees no change and emits no UPDATE.
MarkTerminating(j, loaded) ==
    IF loaded = "terminating" THEN UNCHANGED row ELSE SetStatus(j, "terminating")

\* Time passes without an UPDATE of the row.
GrowStale(j) ==
    /\ row[j].status \in NonTerminalWorker
    /\ ~row[j].stale
    /\ row' = [row EXCEPT ![j].stale = TRUE]

\* Mutants: list_stale forgets one of the non-terminal statuses.
StaleExceptReady == {j \in Jobs : row[j].status \in NonTerminalWorker \ {"ready"} /\ row[j].stale}
StaleExceptTerminating ==
    {j \in Jobs : row[j].status \in NonTerminalWorker \ {"terminating"} /\ row[j].stale}

Stale == {j \in Jobs : row[j].status \in NonTerminalWorker /\ row[j].stale}
=============================================================================
