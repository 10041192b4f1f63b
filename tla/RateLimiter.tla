----------------------------- MODULE RateLimiter -----------------------------
(***************************************************************************)
(* FixedWindowRateLimiter for one client; clients do not share a key.      *)
(*                                                                         *)
(* enforce_auth_rate_limit is a plain def, so each call of check runs in a *)
(* thread of its own and holds no lock.  A thread can lose the interpreter *)
(* after the calls of lines 33 and 34; what follows them calls nothing     *)
(* that is written in Python, and runs as one step.                        *)
(***************************************************************************)
EXTENDS Naturals, Sequences

CONSTANTS Calls,         \* the calls of check that may be made
          MaxAttempts,   \* settings.auth_rate_limit_max_attempts
          Window,        \* settings.auth_rate_limit_window_seconds
          MaxTime        \* bound on the clock

ASSUME LimiterAssumption ==
    /\ MaxAttempts \in Nat
    /\ Window \in Nat \ {0}
    /\ MaxTime \in Nat

VARIABLES clock,         \* time.monotonic()
          windowStart,   \* _window_start[key], Never before the first call
          count,         \* _counts[key]
          step,          \* step[c]: where the thread of c is
          now,           \* now[c]: the local variable now
          seen,          \* seen[c]: the local variable window_start
          admitted,      \* observed: when each admitted call was made, in order
          opened,        \* observed: how many were admitted before the last reset
          openedAt,      \* observed: when the last reset happened
          overlapped     \* observed: two calls were under way at once

limiter == <<windowStart, count>>
locals == <<now, seen>>
observed == <<admitted, opened, openedAt, overlapped>>
limiterVars == <<clock, limiter, step, locals, observed>>

Never == 0
Steps == {"idle", "window", "count", "admitted", "refused"}
InCheck(c) == step[c] \in {"window", "count"}

LimiterTypeOK ==
    /\ clock \in Nat /\ windowStart \in Nat /\ count \in Nat
    /\ opened \in Nat /\ openedAt \in Nat
    /\ step \in [Calls -> Steps]
    /\ now \in [Calls -> Nat]
    /\ seen \in [Calls -> Nat]
    /\ admitted \in Seq(Nat)
    /\ overlapped \in BOOLEAN

LimiterInit ==
    /\ clock = 1
    /\ windowStart = Never /\ count = 0
    /\ step = [c \in Calls |-> "idle"]
    /\ now = [c \in Calls |-> 0]
    /\ seen = [c \in Calls |-> Never]
    /\ admitted = <<>> /\ opened = 0 /\ openedAt = 0
    /\ overlapped = FALSE

-----------------------------------------------------------------------------
MoveTo(c, from, to) == step[c] = from /\ step' = [step EXCEPT ![c] = to]

\* now = time.monotonic()
ReadClock(c) ==
    /\ MoveTo(c, "idle", "window")
    /\ now' = [now EXCEPT ![c] = clock]
    /\ overlapped' = (overlapped \/ \E d \in Calls \ {c} : InCheck(d))
    /\ UNCHANGED <<clock, limiter, seen, admitted, opened, openedAt>>

\* window_start = self._window_start.get(key)
ReadWindow(c) ==
    /\ MoveTo(c, "window", "count")
    /\ seen' = [seen EXCEPT ![c] = windowStart]
    /\ UNCHANGED <<clock, limiter, now, observed>>

Expired(c) == seen[c] = Never \/ now[c] >= seen[c] + Window

\* Mutant: the count of the old window is kept.
ResetKeepsCount(c) ==
    /\ Expired(c)
    /\ windowStart' = now[c]
    /\ count' = count + 1
    /\ opened' = Len(admitted)
    /\ openedAt' = clock

\* A new window, from what the thread read before it could be interrupted.
Reset(c) ==
    /\ Expired(c)
    /\ windowStart' = now[c]
    /\ count' = 1
    /\ opened' = Len(admitted)
    /\ openedAt' = clock

SameWindow(c) ==
    /\ ~Expired(c)
    /\ count' = count + 1
    /\ UNCHANGED <<windowStart, opened, openedAt>>

\* Mutant: the limit is compared with the count before this call.
AdmitOneMore(c) ==
    /\ count <= MaxAttempts
    /\ MoveTo(c, "count", "admitted")
    /\ admitted' = Append(admitted, now[c])

Admit(c) ==
    /\ count' <= MaxAttempts
    /\ MoveTo(c, "count", "admitted")
    /\ admitted' = Append(admitted, now[c])

Refuse(c) ==
    /\ count' > MaxAttempts
    /\ MoveTo(c, "count", "refused")
    /\ UNCHANGED admitted

\* The rest of check.
Count(c) ==
    /\ Reset(c) \/ SameWindow(c)
    /\ Admit(c) \/ Refuse(c)
    /\ UNCHANGED <<clock, locals, overlapped>>

Check(c) == ReadClock(c) \/ ReadWindow(c) \/ Count(c)

Tick ==
    /\ clock < MaxTime
    /\ clock' = clock + 1
    /\ UNCHANGED <<limiter, step, locals, observed>>

LimiterNext == Tick \/ \E c \in Calls : Check(c)

LimiterSpec == LimiterInit /\ [][LimiterNext]_limiterVars

-----------------------------------------------------------------------------
\* However the threads interleave, what a race adds it adds by a reset of a window that
\* another thread has opened already: between two resets no more than MaxAttempts calls are
\* admitted, in whatever order their threads read the clock, the window and the count.
LimitPerReset == Len(admitted) <= opened + MaxAttempts

\* Any 2 * MaxAttempts + 1 admitted calls, in order, span at least a window.
TwicePerWindow ==
    \A i \in 1..Len(admitted) :
        i + 2 * MaxAttempts <= Len(admitted)
            => admitted[i + 2 * MaxAttempts] >= admitted[i] + Window

\* "it can allow up to 2x max_attempts across a window boundary" (rate_limit.py), and
\* no more as long as no two calls of one client overlap.
AtMostTwice == overlapped \/ TwicePerWindow

\* Nobody is refused without cause, however the threads interleave: a refused call
\* follows MaxAttempts admissions that were all counted less than a window before it
\* was made, or since.
RefusedOnlyWhenFull ==
    [][\A c \in Calls :
          Refuse(c) => /\ Len(admitted') >= opened' + MaxAttempts
                       /\ now[c] < openedAt' + Window]_limiterVars
=============================================================================
