------------------------------ MODULE Dashboard ------------------------------
(***************************************************************************)
(* JobDetailPage, opened from NewJobPage or from the list of jobs, and the *)
(* requests it makes: reads of the job, cancels, listings of artifacts.    *)
(*                                                                         *)
(* No read waits for another or is aborted, so the answers of the requests *)
(* in flight arrive in any order.  An answer with a status other than 2xx  *)
(* is returned as an error; a connection that breaks makes the call throw, *)
(* which no component catches.                                             *)
(***************************************************************************)
EXTENDS BrowserJob

CONSTANTS Polls,         \* bound: the reads of the job in flight at once
          Loads          \* bound: the listings of artifacts in flight at once

VARIABLES page,          \* is the page mounted
          shown,         \* job.status, "none" while job is null
          error,         \* is error set
          list,          \* artifacts
          listed,        \* is artifacts non-null
          listError,     \* is artifactsError set
          poll,          \* poll[p]: a GET /jobs/{job_id} and its answer
          load,          \* load[l]: a GET /jobs/{job_id}/artifacts
          content,       \* content[l]: the artifacts load l answers
          cancel,        \* cancel[r]: cancel_job on the server
          reply,         \* reply[r]: its answer on the way back
          undone,        \* observed: a cancel was rolled back after its answer
          broken         \* observed: a listing was cut off

serverVars == <<creation, runnerVars, executorVars>>
pageVars == <<page, shown, error, list, listed, listError>>
pollVars == poll
loadVars == <<load, content, broken>>
cancelVars == <<cancel, reply, undone>>
dashboardVars == <<pageVars, pollVars, loadVars, cancelVars>>
vars == <<browserJobVars, dashboardVars>>

TypeOK ==
    /\ BrowserJobTypeOK
    /\ page \in BOOLEAN /\ error \in BOOLEAN
    /\ listed \in BOOLEAN /\ listError \in BOOLEAN
    /\ shown \in JobStatus \cup {"none"}
    /\ list \subseteq Files
    /\ poll \in [Polls -> {"free", "sent", "refused"} \cup JobStatus]
    /\ load \in [Loads -> {"free", "sent", "answered", "refused"}]
    /\ content \in [Loads -> SUBSET Files]
    /\ cancel \in [Requests -> {"idle", "sent", "open", "commit", "ended"}]
    /\ reply \in [Requests -> {"none", "cancelled", "refused"}]
    /\ undone \in BOOLEAN /\ broken \in BOOLEAN

Init ==
    /\ BrowserJobInit
    /\ \A r \in Requests : target[r] = jobId
    /\ page = FALSE /\ shown = "none" /\ error = FALSE
    /\ list = {} /\ listed = FALSE /\ listError = FALSE
    /\ poll = [p \in Polls |-> "free"]
    /\ load = [l \in Loads |-> "free"]
    /\ content = [l \in Loads |-> {}]
    /\ cancel = [r \in Requests |-> "idle"]
    /\ reply = [r \in Requests |-> "none"]
    /\ undone = FALSE /\ broken = FALSE

-----------------------------------------------------------------------------
(***************************************************************************)
(* loadJob.                                                                *)
(***************************************************************************)

SendPoll(p) == poll[p] = "free" /\ poll' = [poll EXCEPT ![p] = "sent"]

\* NewJobPage navigates as soon as the creation is answered, and the page reads the job
\* when it is mounted.
Open ==
    /\ ~page /\ creation # "sent"
    /\ page' = TRUE
    /\ \E p \in Polls : SendPoll(p)
    /\ UNCHANGED <<browserJobVars, shown, error, list, listed, listError, loadVars,
                   cancelVars>>

\* Mutant: the interval is cleared by the first answer.
ArmedWhileQueued == shown = "queued"

\* Mutant: the interval is set before the job is known.
ArmedFromTheStart == page /\ shown \notin Terminal

\* The interval is set while the job shown is not terminal.
Armed == shown # "none" /\ shown \notin Terminal

PollTick(p) ==
    /\ Armed
    /\ SendPoll(p)
    /\ UNCHANGED <<browserJobVars, pageVars, loadVars, cancelVars>>

\* Mutant: a missing job is not a 404.
ServePollUnchecked(p) ==
    /\ poll[p] = "sent"
    /\ poll' = [poll EXCEPT ![p] = job[jobId]]
    /\ UNCHANGED <<processVars, faults, pageVars, loadVars, cancelVars>>

\* get_job reads the committed row; a missing one is a 404.  A read that raises, or whose
\* token has expired, is one of the faults.
ServePoll(p) ==
    /\ poll[p] = "sent"
    /\ \/ /\ poll' = [poll EXCEPT ![p] = IF Exists(jobId) THEN job[jobId] ELSE "refused"]
          /\ UNCHANGED faults
       \/ Fault /\ poll' = [poll EXCEPT ![p] = "refused"]
    /\ UNCHANGED <<processVars, pageVars, loadVars, cancelVars>>

SendLoad(l) == load[l] = "free" /\ load' = [load EXCEPT ![l] = "sent"]

\* setJob, and the effects that depend on job: a terminal one has its artifacts listed.
SetJob(status) ==
    /\ shown' = status
    /\ IF status \in Terminal THEN \E l \in Loads : SendLoad(l) ELSE UNCHANGED load

PollAnswered(p) ==
    /\ poll[p] \in JobStatus
    /\ SetJob(poll[p])
    /\ poll' = [poll EXCEPT ![p] = "free"]
    /\ UNCHANGED <<browserJobVars, page, error, list, listed, listError, content, broken,
                   cancelVars>>

\* Mutant: a refused read is not reported.
PollRefusedQuietly(p) ==
    /\ poll[p] = "refused"
    /\ poll' = [poll EXCEPT ![p] = "free"]
    /\ UNCHANGED <<browserJobVars, pageVars, loadVars, cancelVars>>

\* setError("Job not found"); nothing clears it.
PollRefused(p) ==
    /\ poll[p] = "refused"
    /\ error' = TRUE
    /\ poll' = [poll EXCEPT ![p] = "free"]
    /\ UNCHANGED <<browserJobVars, page, shown, list, listed, listError, loadVars,
                   cancelVars>>

PollBreaks(p) ==
    /\ Fault
    /\ poll[p] # "free"
    /\ poll' = [poll EXCEPT ![p] = "free"]
    /\ UNCHANGED <<processVars, pageVars, loadVars, cancelVars>>

PollStep(p) == ServePoll(p) \/ PollAnswered(p) \/ PollRefused(p)

-----------------------------------------------------------------------------
(***************************************************************************)
(* loadArtifacts.                                                          *)
(***************************************************************************)

\* get_job_artifacts lists the buckets, or answers 404, 500 or 503.
ServeLoad(l) ==
    /\ load[l] = "sent"
    /\ \/ /\ load' = [load EXCEPT ![l] = IF Exists(jobId) THEN "answered" ELSE "refused"]
          /\ content' = [content EXCEPT ![l] = store]
          /\ UNCHANGED faults
       \/ Fault /\ load' = [load EXCEPT ![l] = "refused"] /\ UNCHANGED content
    /\ UNCHANGED <<processVars, pageVars, pollVars, broken, cancelVars>>

LoadAnswered(l) ==
    /\ load[l] = "answered"
    /\ list' = content[l] /\ listed' = TRUE
    /\ load' = [load EXCEPT ![l] = "free"]
    /\ content' = [content EXCEPT ![l] = {}]
    /\ UNCHANGED <<browserJobVars, page, shown, error, listError, broken, pollVars,
                   cancelVars>>

LoadRefused(l) ==
    /\ load[l] = "refused"
    /\ listError' = TRUE
    /\ load' = [load EXCEPT ![l] = "free"]
    /\ UNCHANGED <<browserJobVars, page, shown, error, list, listed, content, broken,
                   pollVars, cancelVars>>

LoadBreaks(l) ==
    /\ Fault
    /\ load[l] # "free"
    /\ load' = [load EXCEPT ![l] = "free"]
    /\ content' = [content EXCEPT ![l] = {}]
    /\ broken' = TRUE
    /\ UNCHANGED <<processVars, pageVars, poll, cancelVars>>

LoadStep(l) == ServeLoad(l) \/ LoadAnswered(l) \/ LoadRefused(l)

-----------------------------------------------------------------------------
(***************************************************************************)
(* handleCancel, and cancel_job as far as the page can tell.               *)
(***************************************************************************)

Cancelling == \E r \in Requests : cancel[r] \in {"sent", "open"} \/ reply[r] # "none"

ClickCancel(r) ==
    /\ shown \in Cancellable /\ ~error /\ ~Cancelling
    /\ cancel[r] = "idle"
    /\ cancel' = [cancel EXCEPT ![r] = "sent"]
    /\ UNCHANGED <<browserJobVars, pageVars, pollVars, loadVars, reply, undone>>

\* The conditional UPDATE finds the row, or the answer is 409.
CancelUpdate(r) ==
    /\ cancel[r] = "sent"
    /\ \/ /\ OpenCancel(r)
          /\ cancel' = [cancel EXCEPT ![r] = "open"]
          /\ UNCHANGED reply
       \/ /\ ~Locked(jobId) /\ job[jobId] \notin Cancellable
          /\ cancel' = [cancel EXCEPT ![r] = "ended"]
          /\ reply' = [reply EXCEPT ![r] = "refused"]
          /\ UNCHANGED jobTableVars
    /\ UNCHANGED <<serverVars, faults, pageVars, pollVars, loadVars, undone>>

\* The teardown of a running job commits the session with mark_terminating.
CancelTearsDown(r) ==
    /\ cancel[r] = "open" /\ cancelTxn[r] /\ job[jobId] = "running"
    /\ CommitCancel(r)
    /\ UNCHANGED <<serverVars, faults, dashboardVars>>

CancelRaises(r) ==
    /\ Fault
    /\ cancel[r] = "open"
    /\ RollbackCancel(r)
    /\ cancel' = [cancel EXCEPT ![r] = "ended"]
    /\ reply' = [reply EXCEPT ![r] = "refused"]
    /\ UNCHANGED <<serverVars, pageVars, pollVars, loadVars, undone>>

\* The answer leaves, with the status the UPDATE returned, before the session commits.
CancelResponds(r) ==
    /\ cancel[r] = "open"
    /\ cancel' = [cancel EXCEPT ![r] = "commit"]
    /\ reply' = [reply EXCEPT ![r] = "cancelled"]
    /\ UNCHANGED <<browserJobVars, pageVars, pollVars, loadVars, undone>>

CancelCommits(r) ==
    /\ cancel[r] = "commit"
    /\ CommitCancel(r)
    /\ cancel' = [cancel EXCEPT ![r] = "ended"]
    /\ UNCHANGED <<serverVars, faults, pageVars, pollVars, loadVars, reply,
                   undone>>

CancelCommitFails(r) ==
    /\ Fault
    /\ cancel[r] = "commit"
    /\ RollbackCancel(r)
    /\ cancel' = [cancel EXCEPT ![r] = "ended"]
    /\ undone' = (undone \/ cancelTxn[r])
    /\ UNCHANGED <<serverVars, pageVars, pollVars, loadVars, reply>>

\* setJob(data), or nothing.
CancelAnswered(r) ==
    /\ reply[r] # "none"
    /\ reply' = [reply EXCEPT ![r] = "none"]
    /\ \/ reply[r] = "cancelled" /\ SetJob("cancelled")
       \/ reply[r] = "refused" /\ UNCHANGED <<shown, load>>
    /\ UNCHANGED <<browserJobVars, page, error, list, listed, listError, content, broken,
                   pollVars, cancel, undone>>

CancelBreaks(r) ==
    /\ Fault
    /\ reply[r] # "none"
    /\ reply' = [reply EXCEPT ![r] = "none"]
    /\ UNCHANGED <<processVars, pageVars, poll, loadVars, cancel, undone>>

CancelStep(r) ==
    CancelUpdate(r) \/ CancelResponds(r) \/ CancelCommits(r) \/ CancelAnswered(r)

-----------------------------------------------------------------------------
Faults ==
    \/ \E p \in Polls : PollBreaks(p)
    \/ \E l \in Loads : LoadBreaks(l)
    \/ \E r \in Requests : CancelRaises(r) \/ CancelCommitFails(r) \/ CancelBreaks(r)

\* What the server, the network and the browser do.
Works ==
    \/ BrowserJobNext /\ UNCHANGED dashboardVars
    \/ \E p \in Polls : PollTick(p) \/ PollStep(p)
    \/ \E l \in Loads : LoadStep(l)
    \/ \E r \in Requests : CancelTearsDown(r) \/ CancelStep(r)

Next == Open \/ Works \/ Faults \/ \E r \in Requests : ClickCancel(r)

Spec == Init /\ [][Next]_vars

Fairness ==
    /\ WF_vars(Backend /\ UNCHANGED dashboardVars)
    /\ WF_vars(\E p \in Polls : PollTick(p))
    /\ WF_vars(\E p \in Polls : PollStep(p))
    /\ WF_vars(\E l \in Loads : LoadStep(l))
    /\ WF_vars(\E r \in Requests : CancelStep(r))

FairSpec == Spec /\ Fairness

-----------------------------------------------------------------------------
\* A terminal status on the page is the job's own, unless it comes from a cancel whose
\* session is still open or was rolled back after its answer.
TerminalShownIsTrue ==
    shown \in Terminal
        => \/ job[jobId] = shown
           \/ shown = "cancelled" /\ (Locked(jobId) \/ undone)

\* What a succeeded job reports, and its page lists, is what the bucket holds and will hold:
\* no upload comes after the listing.  Unless the script left main for itself, every file of
\* output_dir was tried, and each name has its object if no call failed; a cancel that was
\* rolled back after its answer has the page list the artifacts too early.
Names(files) == {Name[f] : f \in files}
ArtifactsAgree ==
    job[jobId] = "succeeded"
        => /\ reported = store
           /\ runner # "quit" => left = {} /\ (faults = 0 => Names(store) = Names(made))
           /\ (shown = "succeeded" /\ listed /\ ~undone) => list = store

\* Before its creation commits the job is a 404, and an error hides the page for good; but
\* the page polls only a job it has been shown, and such a job is there to stay.  So a page
\* that has shown its job never says "Job not found", unless a call failed.
FoundIsNotLost == error /\ shown # "none" => faults > 0

\* The page never waits for nothing.  Until it shows the job or an error a read is under way,
\* unless one was cut off; and behind a final status a listing of the artifacts is, until it
\* has them or the reason why not: no effect is set off that could bring one later.
NoStandstill ==
    /\ page /\ shown = "none" /\ ~error => faults > 0 \/ \E p \in Polls : poll[p] # "free"
    /\ shown \in Terminal
         => listed \/ listError \/ broken \/ \E l \in Loads : load[l] # "free"

\* The page's job, however it is read and cancelled, goes through JobLifecycle.
Lifecycle == INSTANCE JobLifecycle WITH Jobs <- Jobs, job <- job, claims <- claims
RefinesLifecycle == Lifecycle!LifecycleSpec

\* The job's task died, and nothing has ended the job: the page polls on.
Abandoned == executor = "lost" /\ job[jobId] = "running"

\* Whatever the order of the answers, the page ends up with the job's final status and
\* with its artifacts, or the reason why not, unless a read was refused, the first one or
\* a listing was cut off, a cancel was rolled back after its answer, or the task died and
\* the job has no final status.
PageSettles ==
    <>[](~page \/ error \/ shown = "none" \/ undone \/ Abandoned
         \/ /\ shown = job[jobId] /\ shown \in Terminal
            /\ listed \/ listError \/ broken)
=============================================================================
