-------------------------- MODULE WorkerTimingProofs --------------------------
(***************************************************************************)
(* Theorems about WorkerTiming for every value of the settings: what the   *)
(* conditions on them guarantee, and how long a task can last.             *)
(***************************************************************************)
EXTENDS WorkerTiming, TLAPS

-----------------------------------------------------------------------------
(***************************************************************************)
(* The inductive invariant, in named parts.  Each bounds the start of the  *)
(* await at which the task is suspended; AwaitBound then bounds the clock. *)
(***************************************************************************)

\* No await outlasts its bound, and the executor does not outlast wait_for.
ClockInv ==
    /\ since <= now
    /\ now <= since + AwaitBound
    /\ Executing => now <= WaitForDeadline

WaitingForSsm == at \in {"ssm", "ssmSleep", "ready"}
Started == Executing \/ at \in {"settle", "teardown"}

\* How long ago the row was written.
FreshInv ==
    /\ at = "launch" => since <= updatedAt + CallMax
    /\ at = "record" => since <= updatedAt + 2 * CallMax
    /\ WaitingForSsm => deadline <= updatedAt + CallMax + SsmReadyTimeout
    /\ at = "abort" =>
           since <= updatedAt + SsmReadyTimeout + SsmPollInterval + 3 * CallMax
    /\ Started => execStart <= updatedAt + CallMax
    /\ at = "kill" => since <= updatedAt + 2 * CallMax
    /\ at = "close" => since <= updatedAt + 3 * CallMax

\* How far the loop of wait_until_ssm_ready can pass its deadline.
SsmInv ==
    /\ at = "ssm" => since <= deadline + SsmPollInterval
    /\ at = "ssmSleep" => since <= deadline
    /\ at = "ready" => since <= deadline + SsmPollInterval + CallMax

\* How far the executor can pass its own.
PollInv ==
    /\ at \in {"dispatch", "hang"} => since = execStart
    /\ at \in {"poll", "pollSleep", "artifacts"} =>
           /\ deadline <= execStart + CallMax + ExecutionTimeout + PollInterval
           /\ sentAt + ExecutionTimeout + PollInterval <= deadline
    /\ at = "poll" => since < deadline + PollInterval
    /\ at = "pollSleep" => since < deadline
    /\ at = "artifacts" => since < deadline + PollInterval + CallMax
    /\ at = "settle" => since <= execStart + ExecutionTimeout + Slack
    /\ at = "teardown" => since <= execStart + ExecutionTimeout + Slack + CallMax

\* How long the task has run: ProvisionLife when the executor starts.
ProvisionLife == SsmReadyTimeout + SsmPollInterval + 5 * CallMax
AgeInv ==
    /\ at = "create" => since = 0
    /\ at = "launch" => since <= CallMax
    /\ at = "record" => since <= 2 * CallMax
    /\ WaitingForSsm => deadline <= 3 * CallMax + SsmReadyTimeout
    /\ at = "abort" => since <= ProvisionLife
    /\ at = "undo" => since <= ProvisionLife + CallMax
    /\ Started => execStart <= ProvisionLife
    /\ at = "kill" => since <= ProvisionLife + ExecutionTimeout + Slack + 3 * CallMax
    /\ at = "close" => since <= ProvisionLife + ExecutionTimeout + Slack + 4 * CallMax
    /\ at = "over" => now <= LongestLife

TimeInv == TypeOK /\ ClockInv /\ FreshInv /\ SsmInv /\ PollInv /\ AgeInv

-----------------------------------------------------------------------------

\* The settings are numbers.
LEMMA Settings ==
  /\ SsmReadyTimeout \in Nat /\ ExecutionTimeout \in Nat /\ Slack \in Nat
  /\ SsmMinimum \in Nat /\ StaleAfter \in Nat
  /\ SsmPollInterval \in Nat /\ SsmPollInterval > 0
  /\ PollInterval \in Nat /\ PollInterval > 0
  /\ CallMax \in Nat /\ CallMax > 0
  BY TimingAssumption

\* The types, one variable at a time.
LEMMA Clocks ==
  TypeOK <=> /\ at \in Step
             /\ now \in Nat /\ since \in Nat /\ updatedAt \in Nat
             /\ deadline \in Nat /\ execStart \in Nat /\ sentAt \in Nat
  BY DEF TypeOK

LEMMA TimeInit == Init => TimeInv
  BY Settings, Clocks DEF Init, TimeInv, ClockInv, FreshInv, SsmInv, PollInv, AgeInv,
     AwaitBound, Executing, WaitingForSsm, Started, Step

\* Each await of provision_worker begins in time when the one before it ended in time.
LEMMA ProvisionInTime ==
  ASSUME TimeInv, Provision
  PROVE  TimeInv'
  <1> USE Settings
      DEF TimeInv, TypeOK, ClockInv, FreshInv, SsmInv, PollInv, AgeInv, AwaitBound, Executing,
          WaitForDeadline, WaitingForSsm, Started, Step, ProvisionLife, LongestLife
  <1>1. CASE Created
    BY <1>1 DEF Created, Resume, Stamp, locals
  <1>2. CASE Launched
    BY <1>2 DEF Launched, Resume, locals
  <1>3. CASE Recorded
    BY <1>3 DEF Recorded, Resume, Stamp
  <1>4. CASE SsmReady
    BY <1>4 DEF SsmReady, Resume, locals
  <1>5. CASE SsmNotYet
    BY <1>5 DEF SsmNotYet, Resume, locals
  <1>6. CASE SsmAskAgain
    BY <1>6 DEF SsmAskAgain, Resume, SleepOver, locals
  <1>7. CASE MarkedReady
    BY <1>7 DEF MarkedReady, Resume, Stamp
  <1>8. CASE ProvisioningFails
    BY <1>8 DEF ProvisioningFails, Resume, Provisioning, locals
  <1>9. CASE MarkedFailed
    BY <1>9 DEF MarkedFailed, Resume, locals
  <1> QED
    BY <1>1, <1>2, <1>3, <1>4, <1>5, <1>6, <1>7, <1>8, <1>9 DEF Provision

\* So does each await of the executor.
LEMMA ExecuteInTime ==
  ASSUME TimeInv, Execute
  PROVE  TimeInv'
  <1> USE Settings
      DEF TimeInv, TypeOK, ClockInv, FreshInv, SsmInv, PollInv, AgeInv, AwaitBound, Executing,
          WaitForDeadline, WaitingForSsm, Started, Step, ProvisionLife, LongestLife
  <1>1. CASE Dispatched
    BY <1>1 DEF Dispatched, Resume
  <1>2. CASE PollNotYet
    BY <1>2 DEF PollNotYet, Resume, locals
  <1>3. CASE PollAgain
    BY <1>3 DEF PollAgain, Resume, SleepOver, locals
  <1>4. CASE PollGivesUp
    BY <1>4 DEF PollGivesUp, Resume, locals
  <1>5. CASE PollAnswered
    BY <1>5 DEF PollAnswered, Resume, locals
  <1>6. CASE ArtifactsListed
    BY <1>6 DEF ArtifactsListed, Resume, locals
  <1>7. CASE ExecutorRaises
    BY <1>7 DEF ExecutorRaises, Resume, locals
  <1>8. CASE WaitForTimesOut
    BY <1>8 DEF WaitForTimesOut, Resume, locals
  <1> QED
    BY <1>1, <1>2, <1>3, <1>4, <1>5, <1>6, <1>7, <1>8 DEF Execute

\* So does each await of the teardown.
LEMMA FinishInTime ==
  ASSUME TimeInv, Finish
  PROVE  TimeInv'
  <1> USE Settings
      DEF TimeInv, TypeOK, ClockInv, FreshInv, SsmInv, PollInv, AgeInv, AwaitBound, Executing,
          WaitForDeadline, WaitingForSsm, Started, Step, ProvisionLife, LongestLife
  <1>1. CASE Settled
    BY <1>1 DEF Settled, Resume, locals
  <1>2. CASE MarkedTerminating
    BY <1>2 DEF MarkedTerminating, Resume, Stamp, locals
  <1>3. CASE Killed
    BY <1>3 DEF Killed, Resume, locals
  <1>4. CASE TaskEnds
    BY <1>4 DEF TaskEnds, Resume, locals
  <1>5. CASE Over
    BY <1>5 DEF Over, vars, locals
  <1> QED
    BY <1>1, <1>2, <1>3, <1>4, <1>5 DEF Finish

\* The clock stops at the bound of the await that runs.
LEMMA TickInTime ==
  ASSUME TimeInv, Tick
  PROVE  TimeInv'
  BY Settings
     DEF Tick, locals, TimeInv, TypeOK, ClockInv, FreshInv, SsmInv, PollInv, AgeInv, AwaitBound,
         Executing, WaitForDeadline, WaitingForSsm, Started, Step

\* A step that changes nothing keeps it.
LEMMA StutterInTime ==
  ASSUME TimeInv, UNCHANGED vars
  PROVE  TimeInv'
  BY DEF vars, TimeInv, TypeOK, ClockInv, FreshInv, SsmInv, PollInv, AgeInv, AwaitBound,
         Executing, WaitForDeadline, WaitingForSsm, Started

\* The bounds hold in every reachable state.
THEOREM TimeBounds == Spec => []TimeInv
  <1>1. TimeInv /\ [Next]_vars => TimeInv'
    BY ProvisionInTime, ExecuteInTime, FinishInTime, TickInTime, StutterInTime DEF Next
  <1> QED
    BY <1>1, TimeInit, PTL DEF Spec

-----------------------------------------------------------------------------
(***************************************************************************)
(* What follows from the bounds.                                           *)
(***************************************************************************)

\* The clock and the local variables are times, whatever the settings.
THEOREM TypeCorrect == Spec => []TypeOK
  <1>1. TimeInv => TypeOK
    BY DEF TimeInv
  <1> QED
    BY <1>1, TimeBounds, PTL

\* A task ends within LongestLife, whatever the settings: no await of it is unbounded.
THEOREM TasksEndInTime == Spec => []EndsInTime
  <1>1. TimeInv => EndsInTime
    BY Settings, Clocks
       DEF TimeInv, ClockInv, SsmInv, PollInv, AgeInv, AwaitBound, Executing, WaitForDeadline,
           WaitingForSsm, Started, Step, ProvisionLife, LongestLife, EndsInTime
  <1> QED
    BY <1>1, TimeBounds, PTL

\* With a sufficient cutoff the reaper never lists the worker of a live task.
THEOREM CutoffIsSafe == ASSUME CutoffSuffices PROVE Spec => []NeverStale
  <1>1. TimeInv => NeverStale
    BY Settings, Clocks, CutoffSuffices
       DEF CutoffSuffices, TimeInv, ClockInv, FreshInv, SsmInv, PollInv, AwaitBound, Executing,
           WaitForDeadline, WaitingForSsm, Started, Step, NeverStale, RowOpen
  <1> QED
    BY <1>1, TimeBounds, PTL

\* With sufficient slack wait_for never times out.
THEOREM SlackIsSafe == ASSUME SlackSuffices PROVE Spec => []SafetyNetUnused
  <1>1. TimeInv => SafetyNetUnused
    BY Settings, Clocks, SlackSuffices
       DEF SlackSuffices, TimeInv, ClockInv, PollInv, AwaitBound, Executing, WaitForDeadline,
           SafetyNetUnused
  <1> QED
    BY <1>1, TimeBounds, PTL

\* With a sufficient poll interval SSM's own timeout comes before the executor's.
THEOREM SsmIsHeard == ASSUME PollSuffices PROVE Spec => SsmHadItsChance
  <1>1. TimeInv /\ PollGivesUp => since >= sentAt + SsmTimeout
    BY Settings, Clocks, PollSuffices
       DEF PollSuffices, SsmTimeout, TimeInv, ClockInv, PollInv, AwaitBound, PollGivesUp,
           Resume, Executing
  <1>2. TimeInv => [PollGivesUp => since >= sentAt + SsmTimeout]_vars
    BY <1>1
  <1> QED
    BY <1>2, TimeBounds, PTL DEF SsmHadItsChance

=============================================================================
