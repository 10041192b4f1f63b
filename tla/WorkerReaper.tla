----------------------------- MODULE WorkerReaper -----------------------------
(***************************************************************************)
(* WorkerReaper.reap_once: list the stale workers, then for each of them   *)
(* terminate the instance, mark the row failed and fail the job, with an   *)
(* await between any two.  It acts on the row as it was when listed.  An   *)
(* exception drops the rest of the batch; run_forever catches it.          *)
(***************************************************************************)
EXTENDS WorkerManager

VARIABLES reap,      \* reap[j]: where the batch stands with the worker of j
          listed     \* listed[j]: the instance_id of the listed row is set

reaperVars == <<reap, listed>>

ReapStep == {"idle", "listed", "markFailed", "failJob"}

ReaperTypeOK ==
    /\ reap \in [Jobs -> ReapStep]
    /\ listed \in [Jobs -> BOOLEAN]

ReaperInit ==
    /\ reap = [j \in Jobs |-> "idle"]
    /\ listed = [j \in Jobs |-> FALSE]

BatchDone == \A j \in Jobs : reap[j] = "idle"
Reaping == {j \in Jobs : reap[j] \in {"markFailed", "failJob"}}

NextReapStep(j, step) == reap' = [reap EXCEPT ![j] = step]

\* list_stale: the batch is a snapshot of the stale rows.
ReapList ==
    /\ BatchDone
    /\ Stale # {}
    /\ reap' = [j \in Jobs |-> IF j \in Stale THEN "listed" ELSE "idle"]
    /\ listed' = [j \in Jobs |-> j \in Stale /\ row[j].instance]
    /\ UNCHANGED <<row, managerVars, jobTableVars>>

\* The next worker of the batch; list_stale states no order.
ReapTerminate(j) ==
    /\ reap[j] = "listed"
    /\ Reaping = {}
    /\ IF listed[j] THEN Terminate(j) ELSE UNCHANGED ec2
    /\ NextReapStep(j, "markFailed")
    /\ UNCHANGED <<listed, row, pc, seen, jobTableVars>>

ReapMarkFailed(j) ==
    /\ reap[j] = "markFailed"
    /\ SetStatus(j, "failed")
    /\ NextReapStep(j, "failJob")
    /\ UNCHANGED <<listed, managerVars, jobTableVars>>

ReapFailJob(j) ==
    /\ reap[j] = "failJob"
    /\ FailIfRunning(j)
    /\ NextReapStep(j, "idle")
    /\ UNCHANGED <<listed, row, managerVars>>

ReapWorker(j) == ReapTerminate(j) \/ ReapMarkFailed(j) \/ ReapFailJob(j)

ReapForgets == reap' = [j \in Jobs |-> "idle"] /\ UNCHANGED listed

ReapRaises ==
    /\ \/ Reaping # {} /\ MayFail("db")
       \/ Reaping = {} /\ MayFail("terminate") /\ \E j \in Jobs : reap[j] = "listed" /\ listed[j]
    /\ ReapForgets
    /\ UNCHANGED <<row, managerVars, jobTableVars>>
=============================================================================
