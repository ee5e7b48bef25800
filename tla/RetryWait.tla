------------------------------ MODULE RetryWait ------------------------------
(***************************************************************************)
(* util/retry_wait.hpp: one call of WaitFor or RetryFor.  WaitFor measures *)
(* with system_clock, which somebody may set back or forward meanwhile,    *)
(* and sleeps by a clock that nobody sets.  The condition is evaluated in  *)
(* one step (that of NetIface is a transaction that reads a table); what   *)
(* it depends on may change at any time, and it may throw.  Time may pass  *)
(* between any two steps.  THROW_TIMEOUT takes the message for a format    *)
(* string, so that one with a replacement field in it cannot be formatted. *)
(***************************************************************************)
EXTENDS Integers

CONSTANTS
  Loops,        \* which functions are called: of "WaitFor" and "RetryFor"
  Timeout,      \* WaitFor's timeout
  Wait,         \* how long either waits between tests
  RetryCounts,  \* what RetryFor is called with
  Jumps,        \* by how much the clock is set
  MaxJumps,     \* bound: how often it is set during the call
  MaxTime       \* bound: from when on time passes only in a sleep, and from
                \* twice that on not at all

ASSUME RetryWaitAssumption ==
  /\ Loops \subseteq {"WaitFor", "RetryFor"}
  /\ Timeout \in Nat
  /\ Wait \in Nat
  /\ RetryCounts \subseteq Int
  /\ Jumps \subseteq Int
  /\ MaxJumps \in Nat
  /\ MaxTime \in Nat

VARIABLES
  loop,         \* the function that was called
  stage,        \* where it is, or how it ended
  now,          \* the time since the call
  clock,        \* what system_clock reads
  start,        \* start_time
  count,        \* the argument retry_count
  retry_count,  \* what is left of it
  wake,         \* when sleep_for() may return
  cond,         \* whether the condition holds
  fields,       \* whether timeout_message has replacement fields
  tests,        \* how often it has been tested (history)
  forward,      \* by how much the clock was set forward in all (history)
  back,         \* and by how much back
  jumps         \* how often it was set

env == <<now, clock, cond, forward, back, jumps>>
vars == <<loop, stage, now, clock, start, count, retry_count, wake, cond,
          fields, tests, forward, back, jumps>>

GaveUp == {"timeout", "format_error"}
Ended == GaveUp \cup {"returned", "exception"}
Stages == {"test", "judge", "sleep"} \cup Ended

TypeOK ==
  /\ loop \in {"WaitFor", "RetryFor"}
  /\ stage \in Stages
  /\ now \in Nat /\ clock \in Int /\ start \in Int /\ wake \in Nat
  /\ count \in Int /\ retry_count \in Int
  /\ cond \in BOOLEAN /\ fields \in BOOLEAN
  /\ tests \in Nat /\ forward \in Nat /\ back \in Nat /\ jumps \in Nat

Init ==
  /\ loop \in Loops
  /\ stage = "test"
  /\ now = 0 /\ clock = 0 /\ start = clock /\ wake = 0
  /\ count \in RetryCounts
  /\ retry_count = count
  /\ cond \in BOOLEAN
  /\ fields \in BOOLEAN
  /\ tests = 0 /\ forward = 0 /\ back = 0 /\ jumps = 0
-----------------------------------------------------------------------------
(* The two loops *)

Test ==
  /\ stage = "test"
  /\ tests' = tests + 1
  /\ stage' = IF cond THEN "returned" ELSE "judge"
  /\ UNCHANGED <<loop, start, count, retry_count, wake, fields, env>>

TestThrows ==
  /\ stage = "test"
  /\ tests' = tests + 1
  /\ stage' = "exception"
  /\ UNCHANGED <<loop, start, count, retry_count, wake, fields, env>>

AtOnce == now              \* mutant: the next test follows at once
AfterWait == now + Wait

Sleep ==
  /\ stage' = "sleep"
  /\ wake' = AfterWait

ExpiredEarly == clock - start >= Timeout     \* mutant
Expired == clock - start > Timeout
\* What leaves the loop when it gives up.
ThrowTimeout == stage' = IF fields THEN "format_error" ELSE "timeout"

Restarted == clock         \* mutant: every round has the time out for itself
StartTime == start

JudgeTime ==
  /\ stage = "judge" /\ loop = "WaitFor"
  /\ start' = StartTime
  /\ \/ Expired /\ ThrowTimeout /\ UNCHANGED wake
     \/ ~ Expired /\ Sleep
  /\ UNCHANGED <<loop, count, retry_count, fields, tests, env>>

OnceMore(left) == left < 0      \* mutant
Exhausted(left) == left <= 0

JudgeCount ==
  /\ stage = "judge" /\ loop = "RetryFor"
  /\ retry_count' = retry_count - 1
  /\ \/ Exhausted(retry_count') /\ ThrowTimeout /\ UNCHANGED wake
     \/ ~ Exhausted(retry_count') /\ Sleep
  /\ UNCHANGED <<loop, start, count, fields, tests, env>>

\* sleep_for() returns, not before its time.
Wake ==
  /\ stage = "sleep" /\ now >= wake
  /\ stage' = "test"
  /\ UNCHANGED <<loop, start, count, retry_count, wake, fields, tests, env>>
-----------------------------------------------------------------------------
(* Time, and the world *)

local == <<loop, stage, start, count, retry_count, wake, fields, tests>>

Tick ==
  /\ stage \notin Ended
  /\ (now < MaxTime \/ (stage = "sleep" /\ now < wake /\ now < 2 * MaxTime))
  /\ now' = now + 1
  /\ clock' = clock + 1
  /\ UNCHANGED <<cond, forward, back, jumps, local>>

SetClock(d) ==
  /\ stage \notin Ended
  /\ jumps < MaxJumps
  /\ jumps' = jumps + 1
  /\ clock' = clock + d
  /\ forward' = IF d > 0 THEN forward + d ELSE forward
  /\ back' = IF d < 0 THEN back - d ELSE back
  /\ UNCHANGED <<now, cond, local>>

Change ==
  /\ stage \notin Ended
  /\ cond' = ~ cond
  /\ UNCHANGED <<now, clock, forward, back, jumps, local>>

Proceed == Test \/ JudgeTime \/ JudgeCount \/ Wake

Next ==
  \/ Proceed \/ TestThrows
  \/ Tick \/ Change
  \/ \E d \in Jumps : SetClock(d)

Spec == Init /\ [][Next]_vars

\* The thread is scheduled and time passes.
FairSpec == Spec /\ WF_vars(Proceed) /\ WF_vars(Tick)
-----------------------------------------------------------------------------
(* Properties *)

\* WaitFor gives up, with whichever exception the message makes it throw, only
\* when more than the timeout has passed, but for what the clock was set forward.
TimeoutNotEarly ==
  stage \in GaveUp /\ loop = "WaitFor" => now + forward > Timeout

\* WaitFor never sleeps longer than one wait past the timeout, but for what
\* the clock was set back.
SleepsInTime ==
  stage = "sleep" /\ loop = "WaitFor" => wake <= Timeout + Wait + back

\* Neither loop polls faster than its wait, so that WaitFor tests at most two
\* times more than the waits that fit in the timeout and what the clock was set
\* back.
PollsBounded ==
  /\ (tests - 1) * Wait <= now
  /\ loop = "WaitFor" => (tests - 2) * Wait <= Timeout + back

\* RetryFor makes as many tests in all as it was told, and one if it was told a
\* count below one, with a wait between any two, before it gives up with
\* whichever exception.  (These are tests, not retries: its comments call the
\* argument "Number of times to retry", and 5 of them "10 times".)
Tries == IF count < 1 THEN 1 ELSE count
RetriesCounted ==
  loop = "RetryFor" =>
    /\ tests <= Tries
    /\ stage \in GaveUp => tests = Tries /\ (Tries - 1) * Wait <= now

\* Either loop ends, whatever becomes of the condition, if the clock is not set
\* back again and again.
LoopsEnd == <>(stage \in Ended)

\* The inductive invariant behind the safety properties: the clock reads the
\* time passed and what it was set by, every test but the first has a wait
\* before it, and retry_count is what is left of the argument.
ClockAccount == clock - start = now + forward - back
Paced ==
  /\ stage = "test" => tests * Wait <= now
  /\ stage = "sleep" => tests * Wait <= wake
  /\ (tests - 1) * Wait <= now
NoTestTooMany ==
  /\ stage = "judge" \/ stage \in Ended => (tests - 2) * Wait <= Timeout + back
  /\ stage \in {"test", "sleep"} => (tests - 1) * Wait <= Timeout + back
  /\ stage = "judge" => tests > 0
Counted ==
  /\ stage \in {"test", "sleep"} => retry_count = count - tests /\ (tests > 0 => tests < count)
  /\ stage = "judge" => retry_count = count - tests + 1 /\ (tests > 1 => tests <= count)
  /\ stage = "judge" => tests > 0
Inductive ==
  /\ TypeOK /\ ClockAccount /\ Paced /\ TimeoutNotEarly /\ SleepsInTime /\ RetriesCounted
  /\ loop = "WaitFor" => NoTestTooMany
  /\ loop = "RetryFor" => Counted
=============================================================================
