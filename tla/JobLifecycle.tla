---------------------------- MODULE JobLifecycle ----------------------------
(***************************************************************************)
(* What the jobs API promises about one job, whatever the processes behind *)
(* it do: a job is created queued, is claimed at most once, and enters one *)
(* terminal status that never changes again.  CloudWorker and Dashboard    *)
(* implement it.                                                           *)
(***************************************************************************)
EXTENDS Naturals

CONSTANT Jobs        \* the jobs that may ever be created

VARIABLES job,       \* job[j]: the committed status of j, "none" before it exists
          claims     \* claims[j]: how many times a processor was handed j

lifecycleVars == <<job, claims>>

\* JobStatus (domain/entities.py).
Terminal == {"succeeded", "failed", "cancelled"}
JobStatus == {"queued", "running"} \cup Terminal

LifecycleTypeOK ==
    /\ job \in [Jobs -> JobStatus \cup {"none"}]
    /\ claims \in [Jobs -> Nat]

LifecycleInit ==
    /\ job = [j \in Jobs |-> "none"]
    /\ claims = [j \in Jobs |-> 0]

Become(j, from, to) ==
    /\ job[j] \in from
    /\ job' = [job EXCEPT ![j] = to]

Submit(j) == Become(j, {"none"}, "queued") /\ UNCHANGED claims

Claim(j) ==
    /\ Become(j, {"queued"}, "running")
    /\ claims' = [claims EXCEPT ![j] = @ + 1]

Cancel(j) == Become(j, {"queued", "running"}, "cancelled") /\ UNCHANGED claims

Finish(j) ==
    /\ \E s \in {"succeeded", "failed"} : Become(j, {"running"}, s)
    /\ UNCHANGED claims

LifecycleNext == \E j \in Jobs : Submit(j) \/ Claim(j) \/ Cancel(j) \/ Finish(j)

LifecycleSpec == LifecycleInit /\ [][LifecycleNext]_lifecycleVars
=============================================================================
