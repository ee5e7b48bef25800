--------------------------- MODULE RetryWaitProofs ---------------------------
(***************************************************************************)
(* What TLAPS proves of RetryWait.tla for every timeout, wait, retry count *)
(* and every way of setting the clock, without a bound on time or jumps    *)
(* being used: one inductive invariant, and the safety properties from it. *)
(***************************************************************************)
EXTENDS RetryWait, TLAPS

USE DEF GaveUp

\* The variables keep their types.
LEMMA NextTypeOK == TypeOK /\ [Next]_vars => TypeOK'
<1> SUFFICES ASSUME TypeOK, [Next]_vars
             PROVE  TypeOK'
  OBVIOUS
<1> USE RetryWaitAssumption DEF RetryWaitAssumption, TypeOK
<1>1. CASE Test
  BY <1>1 DEF Test, env, Stages, Ended
<1>2. CASE TestThrows
  BY <1>2 DEF TestThrows, env, Stages, Ended
<1>3. CASE JudgeTime
  BY <1>3 DEF JudgeTime, StartTime, ThrowTimeout, Sleep, AfterWait, env, Stages, Ended
<1>4. CASE JudgeCount
  BY <1>4 DEF JudgeCount, ThrowTimeout, Sleep, AfterWait, env, Stages, Ended
<1>5. CASE Wake
  BY <1>5 DEF Wake, env, Stages
<1>6. CASE Tick
  BY <1>6 DEF Tick, local
<1>7. CASE Change
  BY <1>7 DEF Change, local
<1>8. CASE \E d \in Jumps : SetClock(d)
  <2>1. PICK d \in Jumps : SetClock(d)
    BY <1>8
  <2>2. d \in Int
    OBVIOUS
  <2> QED BY <2>1, <2>2 DEF SetClock, local
<1>9. CASE UNCHANGED vars
  BY <1>9 DEF vars
<1> QED BY <1>1, <1>2, <1>3, <1>4, <1>5, <1>6, <1>7, <1>8, <1>9 DEF Next, Proceed

\* Initially the clock has not been set and nothing has been tested.
LEMMA InitInductive == Init => Inductive
<1> SUFFICES ASSUME Init
             PROVE  Inductive
  OBVIOUS
<1> USE RetryWaitAssumption DEF RetryWaitAssumption, Init
<1>1. TypeOK
  BY DEF TypeOK, Stages
<1>2. ClockAccount /\ TimeoutNotEarly /\ SleepsInTime
  BY DEF ClockAccount, TimeoutNotEarly, SleepsInTime
<1>3. Paced /\ NoTestTooMany
  BY DEF Paced, NoTestTooMany, Ended
<1>4. RetriesCounted /\ Counted
  BY DEF RetriesCounted, Counted, Tries, Ended
<1> QED BY <1>1, <1>2, <1>3, <1>4 DEF Inductive

\* The clock reads the time that has passed and what it was set by.
LEMMA NextClock == TypeOK /\ ClockAccount /\ [Next]_vars => ClockAccount'
<1> SUFFICES ASSUME TypeOK, ClockAccount, [Next]_vars
             PROVE  ClockAccount'
  OBVIOUS
<1> USE DEF ClockAccount, TypeOK
<1>1. CASE Tick
  BY <1>1 DEF Tick, local
<1>2. CASE \E d \in Jumps : SetClock(d)
  <2>1. PICK d \in Jumps : SetClock(d)
    BY <1>2
  <2>2. d \in Int
    BY RetryWaitAssumption DEF RetryWaitAssumption
  <2> QED BY <2>1, <2>2 DEF SetClock, local
<1>3. CASE Proceed \/ TestThrows \/ Change \/ UNCHANGED vars
  BY <1>3 DEF Proceed, Test, TestThrows, JudgeTime, StartTime, JudgeCount, Wake, Change,
              env, local, vars
<1> QED BY <1>1, <1>2, <1>3 DEF Next

\* What the steps of a loop have in common: time and the clock stand still.
Still ==
  /\ loop' = loop /\ start' = start /\ count' = count
  /\ now' = now /\ clock' = clock /\ forward' = forward /\ back' = back

Tested ==
  /\ stage = "test" /\ tests' = tests + 1 /\ wake' = wake /\ retry_count' = retry_count
  /\ stage' = "returned" \/ stage' = "judge" \/ stage' = "exception"

GivesUp ==
  /\ stage' \in GaveUp /\ wake' = wake
  /\ IF loop = "WaitFor" THEN clock - start > Timeout ELSE retry_count' <= 0

GoesOn ==
  /\ stage' = "sleep" /\ wake' = now + Wait
  /\ IF loop = "WaitFor" THEN clock - start <= Timeout ELSE retry_count' > 0

Judged ==
  /\ stage = "judge" /\ tests' = tests
  /\ retry_count' = IF loop = "WaitFor" THEN retry_count ELSE retry_count - 1
  /\ GivesUp \/ GoesOn

Woken ==
  /\ stage = "sleep" /\ stage' = "test" /\ now >= wake
  /\ tests' = tests /\ wake' = wake /\ retry_count' = retry_count

\* A step of the world leaves the loops alone.
World ==
  /\ loop' = loop /\ stage' = stage /\ start' = start /\ count' = count
  /\ retry_count' = retry_count /\ wake' = wake /\ tests' = tests

\* Every step is one of these.
LEMMA Steps ==
  ASSUME TypeOK, [Next]_vars
  PROVE  (Still /\ (Tested \/ Judged \/ Woken)) \/ World
<1>1. CASE Test \/ TestThrows
  BY <1>1 DEF Test, TestThrows, Still, Tested, env
<1>2. CASE JudgeTime
  BY <1>2, RetryWaitAssumption
     DEF RetryWaitAssumption, TypeOK, JudgeTime, StartTime, ThrowTimeout, Sleep, AfterWait, Expired,
         Still, Judged, GivesUp, GoesOn, env
<1>3. CASE JudgeCount
  BY <1>3 DEF TypeOK, JudgeCount, ThrowTimeout, Sleep, AfterWait, Exhausted, Still, Judged, GivesUp, GoesOn, env
<1>4. CASE Wake
  BY <1>4 DEF Wake, Still, Woken, env
<1>5. CASE Tick \/ Change \/ \E d \in Jumps : SetClock(d)
  BY <1>5 DEF Tick, Change, SetClock, World, local
<1>6. CASE UNCHANGED vars
  BY <1>6 DEF vars, World
<1> QED BY <1>1, <1>2, <1>3, <1>4, <1>5, <1>6 DEF Next, Proceed

\* Time and what the clock was set by do not shrink.
LEMMA Grows ==
  ASSUME TypeOK, [Next]_vars
  PROVE  now' >= now /\ back' >= back /\ forward' >= forward
<1>1. CASE Tick
  BY <1>1 DEF Tick, TypeOK
<1>2. CASE \E d \in Jumps : SetClock(d)
  <2>1. PICK d \in Jumps : SetClock(d)
    BY <1>2
  <2>2. d \in Int
    BY RetryWaitAssumption DEF RetryWaitAssumption
  <2> QED BY <2>1, <2>2 DEF SetClock, TypeOK
<1>3. CASE Proceed \/ TestThrows \/ Change \/ UNCHANGED vars
  BY <1>3 DEF Proceed, Test, TestThrows, JudgeTime, JudgeCount, Wake, Change, env, vars, TypeOK
<1> QED BY <1>1, <1>2, <1>3 DEF Next

\* WaitFor gives up only after the timeout, and sleeps at most one wait past it.
LEMMA NextInTime ==
  ASSUME TypeOK, ClockAccount, TimeoutNotEarly, SleepsInTime, [Next]_vars
  PROVE  TimeoutNotEarly' /\ SleepsInTime'
<1>1. /\ now \in Nat /\ now' \in Nat /\ wake \in Nat /\ clock \in Int /\ start \in Int
      /\ forward \in Nat /\ forward' \in Nat /\ back \in Nat /\ back' \in Nat
      /\ Timeout \in Nat /\ Wait \in Nat
      /\ now' >= now /\ back' >= back /\ forward' >= forward
  BY Grows, NextTypeOK, RetryWaitAssumption DEF TypeOK, RetryWaitAssumption
<1>2. clock - start = now + forward - back
  BY DEF ClockAccount
<1>3. CASE World
  <2>1. stage' = stage /\ loop' = loop /\ wake' = wake
    BY <1>3 DEF World
  <2>2. now + forward > Timeout => now' + forward' > Timeout
    <3>1. PICK n0 \in Nat, n1 \in Nat : n0 = now /\ n1 = now'
      BY <1>1
    <3>2. PICK f0 \in Nat, f1 \in Nat : f0 = forward /\ f1 = forward'
      BY <1>1
    <3>3. n0 <= n1 /\ f0 <= f1
      BY <1>1, <3>1, <3>2
    <3>4. n0 + f0 > Timeout => n1 + f1 > Timeout
      BY <1>1, <3>3
    <3> QED BY <3>1, <3>2, <3>4
  <2>3. wake <= Timeout + Wait + back => wake <= Timeout + Wait + back'
    <3>1. PICK b0 \in Nat, b1 \in Nat : b0 = back /\ b1 = back'
      BY <1>1
    <3>2. b0 <= b1
      BY <1>1, <3>1
    <3>3. wake <= Timeout + Wait + b0 => wake <= Timeout + Wait + b1
      BY <1>1, <3>2
    <3> QED BY <3>1, <3>3
  <2> QED BY <2>1, <2>2, <2>3 DEF TimeoutNotEarly, SleepsInTime
<1>4. CASE Still /\ Tested
  BY <1>4 DEF Still, Tested, TimeoutNotEarly, SleepsInTime
<1>5. CASE Still /\ Judged
  BY <1>1, <1>2, <1>5 DEF Still, Judged, GivesUp, GoesOn, TimeoutNotEarly, SleepsInTime
<1>6. CASE Still /\ Woken
  BY <1>6 DEF Still, Woken, TimeoutNotEarly, SleepsInTime
<1> QED BY <1>3, <1>4, <1>5, <1>6, Steps

\* What the tests have taken in waits, one test more, one and two fewer.
LEMMA Waits ==
  ASSUME NEW n \in Nat
  PROVE  /\ n * Wait \in Nat
         /\ (n - 1) * Wait = n * Wait - Wait
         /\ (n - 2) * Wait = n * Wait - Wait - Wait
         /\ (n + 1) * Wait = n * Wait + Wait
BY RetryWaitAssumption DEF RetryWaitAssumption

\* The tests are a wait apart.
LEMMA NextPaced ==
  ASSUME TypeOK, Paced, [Next]_vars
  PROVE  Paced'
<1>1. now' >= now /\ now \in Nat /\ now' \in Nat /\ wake \in Nat /\ tests \in Nat /\ Wait \in Nat
  BY Grows, NextTypeOK, RetryWaitAssumption DEF TypeOK, RetryWaitAssumption
<1>2. PICK w \in Nat : w = tests * Wait
  BY <1>1, Waits
<1>3. (tests - 1) * Wait = w - Wait /\ (tests + 1) * Wait = w + Wait
  BY <1>1, <1>2, Waits
<1>4. /\ stage = "test" => w <= now
      /\ stage = "sleep" => w <= wake
      /\ w - Wait <= now
  BY <1>2, <1>3 DEF Paced
<1>5. CASE World
  BY <1>1, <1>2, <1>3, <1>4, <1>5 DEF World, Paced
<1>6. CASE Still /\ Tested
  <2>1. (tests' - 1) * Wait = w
    BY <1>1, <1>2, <1>6 DEF Tested
  <2> QED BY <1>1, <1>4, <1>6, <2>1 DEF Still, Tested, Paced
<1>7. CASE Still /\ Judged
  BY <1>1, <1>2, <1>3, <1>4, <1>7 DEF Still, Judged, GivesUp, GoesOn, Paced
<1>8. CASE Still /\ Woken
  BY <1>1, <1>2, <1>3, <1>4, <1>8 DEF Still, Woken, Paced
<1> QED BY <1>5, <1>6, <1>7, <1>8, Steps

\* WaitFor does not test too often.
LEMMA NextNotTooMany ==
  ASSUME TypeOK, ClockAccount, Paced, loop = "WaitFor", NoTestTooMany, [Next]_vars
  PROVE  NoTestTooMany'
<1>1. /\ back \in Nat /\ back' \in Nat /\ forward \in Nat
      /\ tests \in Nat /\ now \in Nat /\ Wait \in Nat /\ Timeout \in Nat
      /\ clock \in Int /\ start \in Int /\ back' >= back
  BY Grows, NextTypeOK, RetryWaitAssumption DEF TypeOK, RetryWaitAssumption
<1>2. PICK w \in Nat : w = tests * Wait
  BY <1>1, Waits
<1>3. (tests - 1) * Wait = w - Wait /\ (tests - 2) * Wait = w - Wait - Wait
  BY <1>1, <1>2, Waits
<1>4. /\ stage = "judge" \/ stage \in Ended => w - Wait - Wait <= Timeout + back
      /\ stage \in {"test", "sleep"} => w - Wait <= Timeout + back
      /\ stage = "judge" => tests > 0
  BY <1>3 DEF NoTestTooMany
<1>5. CASE World
  <2>1. (tests' - 1) * Wait = w - Wait /\ (tests' - 2) * Wait = w - Wait - Wait
    BY <1>3, <1>5 DEF World
  <2>2. stage' = stage /\ tests' = tests
    BY <1>5 DEF World
  <2>3. PICK b0 \in Nat, b1 \in Nat : b0 = back /\ b1 = back'
    BY <1>1
  <2>4. b0 <= b1
    BY <1>1, <2>3
  <2>5. /\ w - Wait - Wait <= Timeout + b0 => w - Wait - Wait <= Timeout + b1
        /\ w - Wait <= Timeout + b0 => w - Wait <= Timeout + b1
    BY <1>1, <2>4
  <2> QED BY <1>4, <2>1, <2>2, <2>3, <2>5 DEF NoTestTooMany, Ended
<1>6. CASE Still /\ Tested
  <2>1. (tests' - 2) * Wait = w - Wait
    BY <1>1, <1>3, <1>6 DEF Tested
  <2> QED BY <1>1, <1>4, <1>6, <2>1 DEF Still, Tested, NoTestTooMany, Ended
<1>7. CASE Still /\ Judged
  <2>1. w - Wait <= now
    BY <1>3 DEF Paced
  <2>2. clock - start <= Timeout => now <= Timeout + back
    BY <1>1 DEF ClockAccount
  <2> QED BY <1>1, <1>3, <1>4, <1>7, <2>1, <2>2
          DEF Still, Judged, GivesUp, GoesOn, NoTestTooMany, Ended
<1>8. CASE Still /\ Woken
  BY <1>1, <1>3, <1>4, <1>8 DEF Still, Woken, NoTestTooMany, Ended
<1> QED BY <1>5, <1>6, <1>7, <1>8, Steps

\* RetryFor counts its tests.
LEMMA NextCounted ==
  ASSUME TypeOK, RetriesCounted, loop = "RetryFor", Counted, [Next]_vars, Paced'
  PROVE  RetriesCounted' /\ Counted'
<1> DEFINE CountOK == tests <= Tries /\ (stage \in GaveUp => tests = Tries)
<1>0. loop' = loop /\ CountOK  BY Steps DEF Still, World, RetriesCounted
<1>1. tests \in Nat /\ count \in Int /\ retry_count \in Int
  BY DEF TypeOK
<1>2. CountOK' /\ Counted'
  <2>1. CASE World
    BY <1>0, <2>1 DEF World, Counted, Tries
  <2>2. CASE Still /\ Tested
    BY <1>0, <1>1, <2>2 DEF Still, Tested, Counted, Tries, GaveUp
  <2>3. CASE Still /\ Judged
    BY <1>0, <1>1, <2>3 DEF Still, Judged, GivesUp, GoesOn, Counted, Tries, GaveUp
  <2>4. CASE Still /\ Woken
    BY <1>0, <1>1, <2>4 DEF Still, Woken, Counted, Tries, GaveUp
  <2> QED  BY <2>1, <2>2, <2>3, <2>4, Steps
<1>3. stage' \in GaveUp => (Tries' - 1) * Wait <= now'
  <2>1. (tests' - 1) * Wait <= now'  BY DEF Paced
  <2> QED  BY <1>2, <2>1
<1> QED BY <1>2, <1>3 DEF RetriesCounted

\* The strengthening is an invariant, however the clock is set.
THEOREM RetryWaitInductive == Spec => []Inductive
<1>1. Inductive /\ [Next]_vars => Inductive'
  <2> SUFFICES ASSUME Inductive, [Next]_vars
               PROVE  Inductive'
    OBVIOUS
  <2>1. loop' = loop
    BY Steps DEF Inductive, Still, World
  <2>2. TypeOK' /\ ClockAccount' /\ Paced' /\ TimeoutNotEarly' /\ SleepsInTime'
    BY NextTypeOK, NextClock, NextPaced, NextInTime DEF Inductive
  <2>3. CASE loop = "WaitFor"
    BY <2>1, <2>2, <2>3, NextNotTooMany DEF Inductive, RetriesCounted
  <2>4. CASE loop = "RetryFor"
    BY <2>1, <2>2, <2>4, NextCounted DEF Inductive
  <2> QED BY <2>3, <2>4 DEF Inductive, TypeOK
<1> QED BY <1>1, InitInductive, PTL DEF Spec

\* WaitFor gives up only when more than the timeout has passed, but for
\* what the clock was set forward.
THEOREM NeverEarly == Spec => []TimeoutNotEarly
<1>1. Inductive => TimeoutNotEarly
  BY DEF Inductive
<1> QED BY <1>1, RetryWaitInductive, PTL

\* WaitFor never sleeps longer than one wait past the timeout, but for what the
\* clock was set back.
THEOREM NeverLate == Spec => []SleepsInTime
<1>1. Inductive => SleepsInTime
  BY DEF Inductive
<1> QED BY <1>1, RetryWaitInductive, PTL

\* The number of tests is bounded by the waits that fit in the time.
THEOREM PollsAreBounded == Spec => []PollsBounded
<1>1. Inductive => PollsBounded
  <2> SUFFICES ASSUME Inductive
               PROVE  PollsBounded
    OBVIOUS
  <2> USE RetryWaitAssumption
      DEF RetryWaitAssumption, Inductive, TypeOK, Paced, NoTestTooMany, Stages
  <2>1. (tests - 2) * Wait <= (tests - 1) * Wait
    OBVIOUS
  <2> QED BY <2>1 DEF PollsBounded
<1> QED BY <1>1, RetryWaitInductive, PTL

\* RetryFor gives up after as many tests as it was told, a wait apart, and after
\* one if it was told a count below one.
THEOREM RetriesAreCounted == Spec => []RetriesCounted
<1>1. Inductive => RetriesCounted
  BY DEF Inductive
<1> QED BY <1>1, RetryWaitInductive, PTL
=============================================================================
