-------------------------- MODULE RateLimiterProofs --------------------------
(***************************************************************************)
(* Theorems about RateLimiter for every number of threads and every value  *)
(* of its settings.                                                        *)
(***************************************************************************)
EXTENDS RateLimiter, SequenceTheorems, TLAPS

\* The settings are numbers.
LEMMA LimiterSettings ==
  MaxAttempts \in Nat /\ Window \in Nat /\ Window > 0 /\ MaxTime \in Nat
  BY LimiterAssumption

-----------------------------------------------------------------------------
(***************************************************************************)
(* What holds however the threads interleave.                              *)
(***************************************************************************)

\* The calls admitted since the last reset: all that were counted, up to the limit.
CountInv ==
    /\ opened <= Len(admitted)
    /\ Len(admitted) <= opened + MaxAttempts
    /\ count <= MaxAttempts => Len(admitted) = opened + count
    /\ count > MaxAttempts => Len(admitted) = opened + MaxAttempts

\* What a thread holds is no later than the last reset and the clock.
ReadInv ==
    /\ windowStart <= openedAt /\ openedAt <= clock
    /\ \A c \in Calls : seen[c] <= openedAt /\ now[c] <= clock

FullInv == LimiterTypeOK /\ CountInv /\ ReadInv

LEMMA FullInit == LimiterInit => FullInv
  <1> SUFFICES ASSUME LimiterInit PROVE FullInv
    OBVIOUS
  <1>1. admitted = <<>> /\ Len(admitted) = 0 /\ admitted \in Seq(Nat)
    BY DEF LimiterInit
  <1>2. LimiterTypeOK
    BY <1>1 DEF LimiterInit, LimiterTypeOK, Steps, Never
  <1>3. CountInv /\ ReadInv
    BY <1>1, LimiterSettings DEF LimiterInit, CountInv, ReadInv, Never
  <1> QED
    BY <1>2, <1>3 DEF FullInv

\* One step of check keeps the types.
LEMMA LimiterTypeStep ==
  ASSUME LimiterTypeOK, NEW c \in Calls, Check(c)
  PROVE  LimiterTypeOK'
  <1> USE DEF LimiterTypeOK, MoveTo, Steps, limiter, locals, observed
  <1>1. CASE ReadClock(c)
    BY <1>1 DEF ReadClock, InCheck
  <1>2. CASE ReadWindow(c)
    BY <1>2 DEF ReadWindow
  <1>3. CASE Count(c)
    <2>1. /\ clock' = clock /\ now' = now /\ seen' = seen /\ overlapped' = overlapped
          /\ windowStart' \in Nat /\ count' \in Nat /\ opened' \in Nat /\ openedAt' \in Nat
      BY <1>3 DEF Count, Reset, SameWindow
    <2>2. step' \in [Calls -> Steps]
      BY <1>3 DEF Count, Admit, Refuse
    <2>3. now[c] \in Nat /\ (admitted' = Append(admitted, now[c]) \/ admitted' = admitted)
      BY <1>3 DEF Count, Admit, Refuse
    <2>4. admitted \in Seq(Nat) /\ Append(admitted, now[c]) \in Seq(Nat)
      BY <2>3, AppendProperties
    <2>5. admitted' \in Seq(Nat)
      BY <2>3, <2>4
    <2> QED
      BY <2>1, <2>2, <2>5
  <1> QED
    BY <1>1, <1>2, <1>3 DEF Check

\* The numbers among the variables.
LEMMA Numbers ==
  ASSUME LimiterTypeOK
  PROVE  /\ clock \in Nat /\ windowStart \in Nat /\ count \in Nat
         /\ opened \in Nat /\ openedAt \in Nat
         /\ now \in [Calls -> Nat] /\ seen \in [Calls -> Nat]
         /\ admitted \in Seq(Nat) /\ Len(admitted) \in Nat
  BY DEF LimiterTypeOK

\* Counting keeps the number of admissions in step with the count.
LEMMA CountStep ==
  ASSUME FullInv, NEW c \in Calls, Count(c)
  PROVE  CountInv' /\ ReadInv'
  <1> USE LimiterSettings, Numbers DEF FullInv
  <1>1. \/ count' = 1 /\ opened' = Len(admitted)
        \/ count' = count + 1 /\ opened' = opened
    BY DEF Count, Reset, SameWindow
  <1>2. /\ Append(admitted, now[c]) \in Seq(Nat)
        /\ Len(Append(admitted, now[c])) = Len(admitted) + 1
    BY AppendProperties
  <1>3. \/ count' <= MaxAttempts /\ Len(admitted') = Len(admitted) + 1
        \/ count' > MaxAttempts /\ Len(admitted') = Len(admitted)
    BY <1>2 DEF Count, Admit, Refuse
  <1>4. CountInv'
    <2>1. /\ opened \in Nat /\ count \in Nat /\ Len(admitted) \in Nat
          /\ MaxAttempts \in Nat
      BY DEF FullInv
    <2>2. /\ count <= MaxAttempts => Len(admitted) = opened + count
          /\ count > MaxAttempts => Len(admitted) = opened + MaxAttempts
      BY DEF CountInv
    <2>3. CASE count' = 1 /\ opened' = Len(admitted)
      BY <1>3, <2>1, <2>2, <2>3 DEF CountInv
    <2>4. CASE count' = count + 1 /\ opened' = opened
      BY <1>3, <2>1, <2>2, <2>4 DEF CountInv
    <2> QED
      BY <1>1, <2>3, <2>4
  <1>5. clock' = clock /\ now' = now /\ seen' = seen
    BY DEF Count, locals
  <1>6. \/ windowStart' = now[c] /\ openedAt' = clock
        \/ windowStart' = windowStart /\ openedAt' = openedAt
    BY DEF Count, Reset, SameWindow
  <1>7. ReadInv'
    BY <1>5, <1>6 DEF ReadInv
  <1> QED
    BY <1>4, <1>7

\* Every step keeps the invariant.
LEMMA FullStep ==
  ASSUME FullInv, [LimiterNext]_limiterVars
  PROVE  FullInv'
  <1> USE LimiterSettings, Numbers DEF FullInv
  <1>1. ASSUME NEW c \in Calls, ReadClock(c) PROVE FullInv'
    <2>1. /\ now' = [now EXCEPT ![c] = clock]
          /\ UNCHANGED <<clock, windowStart, count, seen, admitted, opened, openedAt>>
      BY <1>1 DEF ReadClock, limiter
    <2>2. CountInv' /\ ReadInv'
      BY <2>1 DEF CountInv, ReadInv
    <2> QED
      BY <1>1, <2>2, LimiterTypeStep DEF Check
  <1>2. ASSUME NEW c \in Calls, ReadWindow(c) PROVE FullInv'
    <2>1. /\ seen' = [seen EXCEPT ![c] = windowStart]
          /\ UNCHANGED <<clock, windowStart, count, now, admitted, opened, openedAt>>
      BY <1>2 DEF ReadWindow, limiter, observed
    <2>2. CountInv' /\ ReadInv'
      BY <2>1 DEF CountInv, ReadInv
    <2> QED
      BY <1>2, <2>2, LimiterTypeStep DEF Check
  <1>3. ASSUME NEW c \in Calls, Count(c) PROVE FullInv'
    BY <1>3, LimiterTypeStep, CountStep DEF Check
  <1>4. CASE Tick
    <2>1. clock' = clock + 1 /\ UNCHANGED <<limiter, step, locals, observed>>
      BY <1>4 DEF Tick
    <2>2. CountInv' /\ ReadInv'
      BY <2>1 DEF CountInv, ReadInv, limiter, locals, observed
    <2>3. LimiterTypeOK'
      BY <2>1 DEF LimiterTypeOK, limiter, locals, observed
    <2> QED
      BY <2>2, <2>3
  <1>5. CASE UNCHANGED limiterVars
    BY <1>5 DEF limiterVars, limiter, locals, observed, LimiterTypeOK, CountInv, ReadInv
  <1> QED
    BY <1>1, <1>2, <1>3, <1>4, <1>5 DEF LimiterNext, Check

\* A refusal has its cause.
LEMMA RefusalHasCause ==
  ASSUME FullInv, [LimiterNext]_limiterVars, NEW c \in Calls, Refuse(c)
  PROVE  Len(admitted') >= opened' + MaxAttempts /\ now[c] < openedAt' + Window
  <1>1. Count(c)
    <2>1. /\ step[c] = "count" /\ step' = [step EXCEPT ![c] = "refused"]
          /\ step'[c] = "refused"
      BY DEF Refuse, MoveTo, FullInv, LimiterTypeOK
    <2>2. ASSUME NEW d \in Calls, Check(d) PROVE d = c
      <3> SUFFICES ASSUME d # c PROVE FALSE
        OBVIOUS
      <3>1. step'[c] = "count"
        BY <2>1, <2>2 DEF Check, ReadClock, ReadWindow, Count, Admit, Refuse, MoveTo
      <3> QED
        BY <2>1, <3>1
    <2>3. ASSUME UNCHANGED step PROVE FALSE
      BY <2>1, <2>3
    <2>4. ~ReadClock(c) /\ ~ReadWindow(c)
      BY <2>1 DEF ReadClock, ReadWindow, MoveTo
    <2> QED
      BY <2>2, <2>3, <2>4 DEF LimiterNext, Tick, limiterVars, Check
  <1>2. FullInv'
    BY FullStep
  <1>3. count' > MaxAttempts /\ admitted' = admitted
    BY DEF Refuse
  <1>4. Len(admitted') >= opened' + MaxAttempts
    BY <1>2, <1>3 DEF FullInv, CountInv
  <1>5. now[c] < openedAt' + Window
    BY <1>1, LimiterSettings, Numbers
       DEF FullInv, ReadInv, Count, Reset, SameWindow, Expired, Never
  <1> QED
    BY <1>4, <1>5

\* The types hold, whatever the number of threads.
THEOREM LimiterTypeCorrect == LimiterSpec => []LimiterTypeOK
  <1>1. FullInv => LimiterTypeOK
    BY DEF FullInv
  <1> QED
    BY <1>1, FullInit, FullStep, PTL DEF LimiterSpec

\* However the threads interleave, no more than MaxAttempts calls are admitted between two
\* resets of the counter: what a race can add, it adds by resetting a window that another
\* thread has opened already, and by nothing else (FixedWindowRateLimiter.check).
THEOREM ResetsBoundAdmissions == LimiterSpec => []LimitPerReset
  <1>1. FullInv => LimitPerReset
    BY DEF FullInv, CountInv, LimitPerReset
  <1> QED
    BY <1>1, FullInit, FullStep, PTL DEF LimiterSpec

\* However the threads interleave, a refused call follows MaxAttempts admissions of
\* less than a window before.
THEOREM RefusalsHaveCause == LimiterSpec => RefusedOnlyWhenFull
  <1>1. FullInv /\ [LimiterNext]_limiterVars
          => [\A c \in Calls :
                Refuse(c) => /\ Len(admitted') >= opened' + MaxAttempts
                             /\ now[c] < openedAt' + Window]_limiterVars
    BY RefusalHasCause
  <1> QED
    BY <1>1, FullInit, FullStep, PTL DEF LimiterSpec, RefusedOnlyWhenFull

-----------------------------------------------------------------------------
(***************************************************************************)
(* What holds while no two calls overlap.                                  *)
(***************************************************************************)

\* The call under way, if there is one, is alone and read what is still there.
AloneInv ==
    \A c \in Calls : InCheck(c) =>
        /\ windowStart <= now[c] /\ now[c] >= 1
        /\ step[c] = "count" => seen[c] = windowStart
        /\ \A i \in 1..Len(admitted) : admitted[i] <= now[c]
        /\ \A d \in Calls : InCheck(d) => d = c

\* The calls admitted before the last reset were made before the window, and all but
\* the last MaxAttempts of them a whole window before it.
WindowInv ==
    /\ windowStart = Never => admitted = <<>>
    /\ windowStart <= clock /\ clock >= 1
    /\ \A i \in 1..Len(admitted) :
         /\ admitted[i] <= clock
         /\ i <= opened => admitted[i] <= windowStart
         /\ i > opened => admitted[i] >= windowStart
         /\ i + MaxAttempts <= opened => admitted[i] + Window <= windowStart

SequentialInv == FullInv /\ (overlapped \/ (AloneInv /\ WindowInv /\ TwicePerWindow))

LEMMA SequentialInit == LimiterInit => SequentialInv
  <1> SUFFICES ASSUME LimiterInit PROVE SequentialInv
    OBVIOUS
  <1>1. /\ admitted = <<>> /\ Len(admitted) = 0 /\ windowStart = 0 /\ clock = 1
        /\ step = [c \in Calls |-> "idle"]
    BY DEF LimiterInit, Never
  <1>2. AloneInv /\ WindowInv /\ TwicePerWindow
    BY <1>1 DEF AloneInv, InCheck, WindowInv, TwicePerWindow
  <1> QED
    BY <1>2, FullInit DEF SequentialInv

\* A call that begins alone reads a clock behind which all admissions lie.
LEMMA SequentialClock ==
  ASSUME SequentialInv, ~overlapped, NEW c \in Calls, ReadClock(c), ~overlapped'
  PROVE  AloneInv' /\ WindowInv' /\ TwicePerWindow'
  <1> USE Numbers DEF SequentialInv, FullInv
  <1>1. /\ step[c] = "idle" /\ step' = [step EXCEPT ![c] = "window"]
        /\ now' = [now EXCEPT ![c] = clock]
        /\ UNCHANGED <<clock, windowStart, seen, admitted, opened>>
    BY DEF ReadClock, MoveTo, limiter
  <1>2. step \in [Calls -> Steps]
    BY DEF LimiterTypeOK
  <1>3. \A d \in Calls \ {c} : ~InCheck(d)
    BY DEF ReadClock
  <1>4. \A d \in Calls : InCheck(d)' => d = c
    BY <1>1, <1>2, <1>3 DEF InCheck
  <1>5. AloneInv'
    BY <1>1, <1>2, <1>4 DEF AloneInv, WindowInv
  <1> QED
    BY <1>1, <1>5 DEF WindowInv, TwicePerWindow

\* What it reads next is still the window when it counts.
LEMMA SequentialWindow ==
  ASSUME SequentialInv, ~overlapped, NEW c \in Calls, ReadWindow(c)
  PROVE  AloneInv' /\ WindowInv' /\ TwicePerWindow'
  <1> USE Numbers DEF SequentialInv, FullInv
  <1>1. /\ step[c] = "window" /\ step' = [step EXCEPT ![c] = "count"]
        /\ seen' = [seen EXCEPT ![c] = windowStart]
        /\ UNCHANGED <<clock, windowStart, now, admitted, opened>>
    BY DEF ReadWindow, MoveTo, limiter, observed
  <1>2. step \in [Calls -> Steps]
    BY DEF LimiterTypeOK
  <1>3. InCheck(c) /\ \A d \in Calls : InCheck(d)' => d = c
    BY <1>1, <1>2 DEF InCheck, AloneInv
  <1>4. AloneInv'
    BY <1>1, <1>2, <1>3 DEF AloneInv
  <1> QED
    BY <1>1, <1>4 DEF WindowInv, TwicePerWindow

\* Counting opens a window no earlier than Window after the last, or stays in it.
LEMMA SequentialCount ==
  ASSUME SequentialInv, ~overlapped, NEW c \in Calls, Count(c)
  PROVE  AloneInv' /\ WindowInv' /\ TwicePerWindow'
  <1> DEFINE n == Len(admitted)
  <1>1. /\ clock \in Nat /\ windowStart \in Nat /\ opened \in Nat /\ n \in Nat
        /\ now[c] \in Nat /\ admitted \in Seq(Nat)
        /\ MaxAttempts \in Nat /\ Window \in Nat
        /\ n <= opened + MaxAttempts /\ opened <= n
    BY Numbers, LimiterSettings DEF SequentialInv, FullInv, CountInv
  <1>2. \A i \in 1..n : admitted[i] \in Nat
    BY <1>1
  <1>3. step[c] = "count" /\ step \in [Calls -> Steps]
    BY DEF Count, Admit, Refuse, MoveTo, SequentialInv, FullInv, LimiterTypeOK
  <1>4. /\ windowStart <= now[c] /\ now[c] >= 1 /\ seen[c] = windowStart
        /\ now[c] <= clock
        /\ \A i \in 1..n : admitted[i] <= now[c]
        /\ \A d \in Calls : InCheck(d) => d = c
    BY <1>3 DEF SequentialInv, FullInv, ReadInv, AloneInv, InCheck
  <1>5. /\ clock' = clock
        /\ step' = [step EXCEPT ![c] = "admitted"] \/ step' = [step EXCEPT ![c] = "refused"]
    BY DEF Count, Admit, Refuse, MoveTo
  <1>6. AloneInv'
    BY <1>3, <1>4, <1>5 DEF AloneInv, InCheck
  <1>7. \/ admitted' = admitted
        \/ /\ Len(admitted') = n + 1 /\ admitted'[n + 1] = now[c]
           /\ \A i \in 1..n : admitted'[i] = admitted[i]
    BY <1>1, AppendProperties DEF Count, Admit, Refuse
  <1>8. \/ /\ windowStart' = now[c] /\ opened' = n
           /\ windowStart = 0 \/ now[c] >= windowStart + Window
        \/ windowStart' = windowStart /\ opened' = opened /\ windowStart # 0
    BY <1>4 DEF Count, Reset, SameWindow, Expired, Never
  <1>9. /\ windowStart = 0 => n = 0
        /\ \A i \in 1..n :
             /\ i <= opened => admitted[i] <= windowStart
             /\ i > opened => admitted[i] >= windowStart
             /\ i + MaxAttempts <= opened => admitted[i] + Window <= windowStart
    BY DEF SequentialInv, WindowInv, Never
  <1>10. WindowInv'
    <2>1. windowStart' # 0 /\ windowStart' <= clock' /\ clock' >= 1
      BY <1>1, <1>4, <1>5, <1>8
    <2> DEFINE P(i) ==
          /\ admitted'[i] <= clock'
          /\ i <= opened' => admitted'[i] <= windowStart'
          /\ i > opened' => admitted'[i] >= windowStart'
          /\ i + MaxAttempts <= opened' => admitted'[i] + Window <= windowStart'
    <2>2. ASSUME NEW i \in 1..n, admitted'[i] = admitted[i] PROVE P(i)
      <3>1. admitted[i] \in Nat /\ admitted[i] <= now[c]
        BY <1>2, <1>4
      <3>2. /\ i <= opened => admitted[i] <= windowStart
            /\ i > opened => admitted[i] >= windowStart
            /\ i + MaxAttempts <= opened => admitted[i] + Window <= windowStart
        BY <1>9
      <3>3. CASE windowStart' = windowStart /\ opened' = opened
        BY <1>1, <1>4, <1>5, <2>2, <3>1, <3>2, <3>3
      <3>4. CASE /\ windowStart' = now[c] /\ opened' = n
                 /\ windowStart = 0 \/ now[c] >= windowStart + Window
        <4>1. windowStart # 0
          BY <1>1, <1>9
        <4>2. i + MaxAttempts <= n => i <= opened
          BY <1>1
        <4> QED
          BY <1>1, <1>4, <1>5, <2>2, <3>1, <3>2, <3>4, <4>1, <4>2
      <3> QED
        BY <1>8, <3>3, <3>4
    <2>3. ASSUME admitted'[n + 1] = now[c] PROVE P(n + 1)
      BY <1>1, <1>4, <1>5, <1>8, <2>3
    <2>4. \A i \in 1..Len(admitted') : P(i)
      <3>1. CASE admitted' = admitted
        BY <2>2, <3>1
      <3>2. CASE /\ Len(admitted') = n + 1 /\ admitted'[n + 1] = now[c]
                 /\ \A i \in 1..n : admitted'[i] = admitted[i]
        <4>1. \A i \in 1..(n + 1) : i \in 1..n \/ i = n + 1
          BY <1>1
        <4> HIDE DEF P
        <4> QED
          BY <2>2, <2>3, <3>2, <4>1
      <3> QED
        BY <1>7, <3>1, <3>2
    <2> QED
      BY <2>1, <2>4 DEF WindowInv, Never
  <1>11. FullInv' /\ Len(admitted') <= opened' + MaxAttempts
    BY FullStep DEF SequentialInv, LimiterNext, Check, FullInv, CountInv
  <1>12. windowStart' <= now[c] /\ opened' \in Nat
    BY <1>1, <1>4, <1>8
  <1>13. TwicePerWindow'
    <2>1. \A i \in 1..n : i + 2 * MaxAttempts <= n
                 => admitted[i + 2 * MaxAttempts] >= admitted[i] + Window
      BY DEF SequentialInv, TwicePerWindow
    <2>2. CASE admitted' = admitted
      BY <2>1, <2>2 DEF TwicePerWindow
    <2>3. CASE /\ Len(admitted') = n + 1 /\ admitted'[n + 1] = now[c]
               /\ \A i \in 1..n : admitted'[i] = admitted[i]
      <3> SUFFICES ASSUME NEW i \in 1..(n + 1), i + 2 * MaxAttempts <= n + 1
                   PROVE  admitted'[i + 2 * MaxAttempts] >= admitted'[i] + Window
        BY <2>3 DEF TwicePerWindow
      <3>1. CASE i + 2 * MaxAttempts <= n
        <4>1. i \in 1..n /\ i + 2 * MaxAttempts \in 1..n
          BY <1>1, <3>1
        <4> QED
          BY <2>1, <2>3, <3>1, <4>1
      <3>2. CASE i + 2 * MaxAttempts = n + 1
        <4>1. i + MaxAttempts <= opened'
          BY <1>1, <1>11, <1>12, <2>3, <3>2
        <4>2. i \in 1..Len(admitted')
          BY <2>3
        <4>3. admitted'[i] + Window <= windowStart'
          BY <1>10, <4>1, <4>2 DEF WindowInv
        <4>4. admitted'[i] \in Nat /\ windowStart' \in Nat
          <5>1. admitted' \in Seq(Nat) /\ windowStart' \in Nat
            BY <1>11 DEF FullInv, LimiterTypeOK
          <5> QED
            BY <4>2, <5>1
        <4>5. admitted'[i + 2 * MaxAttempts] = now[c]
          BY <2>3, <3>2
        <4>6. now[c] >= admitted'[i] + Window
          BY <1>1, <1>12, <4>3, <4>4
        <4> QED
          BY <4>5, <4>6
      <3> QED
        BY <1>1, <3>1, <3>2
    <2> QED
      BY <1>7, <2>2, <2>3
  <1> QED
    BY <1>6, <1>10, <1>13

\* Every step keeps the bound or is made of overlapping calls.
LEMMA SequentialStep ==
  ASSUME SequentialInv, [LimiterNext]_limiterVars
  PROVE  SequentialInv'
  <1>1. FullInv'
    BY FullStep DEF SequentialInv
  <1> SUFFICES ASSUME ~overlapped'
               PROVE  AloneInv' /\ WindowInv' /\ TwicePerWindow'
    BY <1>1 DEF SequentialInv
  <1>2. ~overlapped
    BY DEF LimiterNext, Check, ReadClock, ReadWindow, Count, Tick, observed, limiterVars
  <1>3. CASE Tick
    <2>1. clock' = clock + 1 /\ UNCHANGED <<windowStart, step, now, seen, admitted, opened>>
      BY <1>3 DEF Tick, limiter, locals, observed
    <2> QED
      BY <1>2, <2>1, Numbers
         DEF SequentialInv, FullInv, AloneInv, InCheck, WindowInv, TwicePerWindow
  <1>4. CASE UNCHANGED limiterVars
    BY <1>2, <1>4
       DEF limiterVars, limiter, locals, observed, SequentialInv, AloneInv, InCheck,
           WindowInv, TwicePerWindow
  <1> QED
    BY <1>2, <1>3, <1>4, SequentialClock, SequentialWindow, SequentialCount
       DEF LimiterNext, Check

\* As long as no two calls of a client overlap, no more than twice MaxAttempts of them
\* are admitted in any window.
THEOREM SequentialBound == LimiterSpec => []AtMostTwice
  <1>1. SequentialInv => AtMostTwice
    BY DEF SequentialInv, AtMostTwice
  <1> QED
    BY <1>1, SequentialInit, SequentialStep, PTL DEF LimiterSpec
=============================================================================
