-------------------------- MODULE RateLimiterProofs --------------------------
(***************************************************************************)
(* RateLimiter keeps its interval within bounds, hands out slots that are  *)
(* apart and lets no slot fall into a cool-off, for every number of        *)
(* threads and every choice of intervals, caps and headers.                *)
(***************************************************************************)
EXTENDS RateLimiter, TLAPS

\* Whoever waits for a slot that is still ahead is a minimum interval before the
\* next one.
SlotBehindPending ==
    \A t \in Threads : pc[t] = "slot" /\ wait[t] > 0 => slot >= wait[t] + MinInterval

\* Nothing is handed out before the end of a cool-off: either the next slot lies
\* behind it, or no slot was handed out since, so that the interval is as long
\* as the cool-off was and another signal cannot shorten it.
CoolOffHeld == slot < held => cool >= held /\ interval >= held

IInv == TypeOK /\ SlotBehindPending /\ SlotsApart /\ CoolOffHeld

\* What signal_throttle computes lies between the interval and its bound.
LEMMA ThrottleDelayBounds ==
    ASSUME TypeOK, NEW after \in RetryAfters \cup {NoHeader}
    PROVE  /\ ThrottleDelay(after) \in Nat
           /\ interval <= ThrottleDelay(after)
           /\ ThrottleDelay(after) <= MaxInterval
<1>. interval \in Nat /\ MinInterval \in Nat /\ MinInterval <= interval
     /\ interval <= MaxInterval /\ MaxInterval \in Nat /\ MaxInterval <= RetryAfterCap
     /\ RetryAfterCap \in Nat
  BY LimiterAssumption DEF TypeOK
<1>1. CASE after = NoHeader
  <2>1. (3 * interval + 1) \div 2 \in Nat /\ interval <= (3 * interval + 1) \div 2
    OBVIOUS
  <2>. QED BY <1>1, <2>1 DEF ThrottleDelay, Least
<1>2. CASE after # NoHeader
  <2>1. after \in Nat
    BY <1>2, LimiterAssumption
  <2>. QED BY <1>2, <2>1 DEF ThrottleDelay, Least, Most
<1>. QED BY <1>1, <1>2

\* Backoff leaves the threads' state well typed and puts no thread in a slot.
LEMMA BackoffEffect ==
    ASSUME TypeOK, NEW t \in Threads, NEW d, d \in Nat, pc[t] = "sent", Backoff(t, d)
    PROVE  /\ pc' \in [Threads -> {"idle", "acquire", "slot", "sent", "backoff"}]
           /\ attempt' \in [Threads -> 0 .. MaxRetries]
           /\ wait' \in [Threads -> Nat]
           /\ pc'[t] # "slot"
           /\ \A u \in Threads : u # t => pc'[u] = pc[u] /\ wait'[u] = wait[u]
<1>. MaxRetries \in Nat
  BY LimiterAssumption
<1>1. CASE attempt[t] < MaxRetries
  <2>1. attempt[t] + 1 \in 0 .. MaxRetries
    BY <1>1 DEF TypeOK
  <2>. QED BY <1>1, <2>1 DEF TypeOK, Backoff
<1>2. CASE ~(attempt[t] < MaxRetries)
  BY <1>2 DEF TypeOK, Backoff
<1>. QED BY <1>1, <1>2

\* RetryPolicy.delay is a number of ticks.
LEMMA DelayIsNat ==
    ASSUME NEW a \in 0 .. MaxRetries, NEW after \in RetryAfters \cup {NoHeader}
    PROVE  Delay(a, after) \in Nat
BY LimiterAssumption DEF Delay, Least

\* The initial state satisfies the inductive invariant.
LEMMA InitEstablishes == Init => IInv
BY LimiterAssumption DEF Init, IInv, TypeOK, SlotBehindPending, SlotsApart, CoolOffHeld

\* acquire: the new slot is behind every pending one and every cool-off.
LEMMA AcquireKeeps ==
    ASSUME IInv, NEW t \in Threads, NEW i \in Recovered, Acquire(t, i)
    PROVE  IInv' /\ wait'[t] >= held
<1>. MinInterval \in Nat \ {0} /\ MaxInterval \in Nat /\ MinInterval <= MaxInterval
  BY LimiterAssumption
<1>1. i \in MinInterval .. MaxInterval
  BY DEF IInv, TypeOK, Recovered
<1>2. Wake \in Nat /\ Wake >= slot /\ Wake >= cool /\ Wake >= held
  BY DEF IInv, TypeOK, CoolOffHeld, Wake, Most
<1>3. slot' = Wake + i /\ interval' = i /\ held' = held
      /\ wait' = [wait EXCEPT ![t] = Wake] /\ pc' = [pc EXCEPT ![t] = "slot"]
      /\ pc[t] = "acquire"
  BY DEF Acquire, NextSlot
<1>4. TypeOK'
  BY <1>1, <1>2, <1>3 DEF IInv, TypeOK, Acquire
<1>5. SlotBehindPending'
  BY <1>1, <1>2, <1>3 DEF IInv, TypeOK, SlotBehindPending
<1>6. SlotsApart'
  BY <1>1, <1>2, <1>3 DEF IInv, TypeOK, SlotBehindPending, SlotsApart
<1>7. CoolOffHeld'
  BY <1>1, <1>2, <1>3 DEF IInv, TypeOK, CoolOffHeld
<1>8. wait'[t] >= held
  BY <1>2, <1>3 DEF IInv, TypeOK
<1>. QED BY <1>4, <1>5, <1>6, <1>7, <1>8 DEF IInv

\* signal_throttle: no slot moves, and the cool-off it starts ends behind the
\* ones before unless slots were already handed out behind them.
LEMMA ThrottledKeeps ==
    ASSUME IInv, NEW t \in Threads, NEW after \in RetryAfters \cup {NoHeader},
           Throttled(t, after)
    PROVE  IInv'
<1>. MinInterval \in Nat \ {0} /\ MaxInterval \in Nat /\ MinInterval <= MaxInterval
     /\ RecoveryQuiet \in Nat
  BY LimiterAssumption
<1>. DEFINE delay == ThrottleDelay(after)
<1>1. delay \in Nat /\ interval <= delay /\ delay <= MaxInterval
  BY ThrottleDelayBounds DEF IInv
<1>2. interval' = Most(interval, delay) /\ cool' = delay /\ held' = Most(held, delay)
      /\ slot' = slot /\ quiet' = 0
  BY DEF Throttled
<1>3. Delay(attempt[t], after) \in Nat
  BY DelayIsNat DEF IInv, TypeOK
<1>4. /\ pc' \in [Threads -> {"idle", "acquire", "slot", "sent", "backoff"}]
      /\ attempt' \in [Threads -> 0 .. MaxRetries]
      /\ wait' \in [Threads -> Nat]
      /\ pc'[t] # "slot"
      /\ \A u \in Threads : u # t => pc'[u] = pc[u] /\ wait'[u] = wait[u]
  BY <1>3, BackoffEffect DEF Throttled, IInv
<1>. HIDE DEF delay
<1>5. TypeOK'
  BY <1>1, <1>2, <1>4 DEF IInv, TypeOK, Most
<1>6. SlotBehindPending' /\ SlotsApart'
  BY <1>2, <1>4 DEF IInv, SlotBehindPending, SlotsApart
<1>7. CoolOffHeld'
  BY <1>1, <1>2 DEF IInv, TypeOK, CoolOffHeld, Most
<1>. QED BY <1>5, <1>6, <1>7 DEF IInv

\* Time passes for slots, cool-offs and sleepers alike.
LEMMA TickKeeps ==
    ASSUME IInv, Tick
    PROVE  IInv'
<1>. MinInterval \in Nat \ {0} /\ MaxInterval \in Nat /\ MinInterval <= MaxInterval
     /\ RecoveryQuiet \in Nat
  BY LimiterAssumption
<1>1. TypeOK'
  BY DEF IInv, TypeOK, Tick, Less, Least
<1>2. SlotBehindPending'
  BY DEF IInv, TypeOK, SlotBehindPending, Tick, Less
<1>3. SlotsApart'
  BY DEF IInv, TypeOK, SlotsApart, Tick, Less
<1>4. CoolOffHeld'
  BY DEF IInv, TypeOK, CoolOffHeld, Tick, Less
<1>. QED BY <1>1, <1>2, <1>3, <1>4 DEF IInv

\* The steps that leave the limiter alone.
LEMMA ThreadKeeps ==
    ASSUME IInv, NEW t \in Threads,
           Request(t) \/ Send(t) \/ Settled(t) \/ Retryable(t) \/ Resume(t)
    PROVE  IInv'
<1>. MaxRetries \in Nat
  BY LimiterAssumption
<1>1. CASE Request(t)
  BY <1>1 DEF Request, limiter, IInv, TypeOK, SlotBehindPending, SlotsApart, CoolOffHeld
<1>2. CASE Send(t)
  BY <1>2 DEF Send, limiter, IInv, TypeOK, SlotBehindPending, SlotsApart, CoolOffHeld
<1>3. CASE Settled(t)
  BY <1>3 DEF Settled, limiter, IInv, TypeOK, SlotBehindPending, SlotsApart, CoolOffHeld
<1>4. CASE Retryable(t)
  <2>1. Delay(attempt[t], NoHeader) \in Nat
    BY DelayIsNat DEF IInv, TypeOK
  <2>2. /\ pc' \in [Threads -> {"idle", "acquire", "slot", "sent", "backoff"}]
        /\ attempt' \in [Threads -> 0 .. MaxRetries]
        /\ wait' \in [Threads -> Nat]
        /\ pc'[t] # "slot"
        /\ \A u \in Threads : u # t => pc'[u] = pc[u] /\ wait'[u] = wait[u]
    BY <1>4, <2>1, BackoffEffect DEF Retryable, IInv
  <2>. QED BY <1>4, <2>2 DEF Retryable, limiter, IInv, TypeOK, SlotBehindPending,
                             SlotsApart, CoolOffHeld
<1>5. CASE Resume(t)
  BY <1>5 DEF Resume, limiter, IInv, TypeOK, SlotBehindPending, SlotsApart, CoolOffHeld
<1>. QED BY <1>1, <1>2, <1>3, <1>4, <1>5

\* Every step keeps the inductive invariant.
LEMMA NextKeeps == IInv /\ [Next]_vars => IInv'
<1>. SUFFICES ASSUME IInv, [Next]_vars PROVE IInv'
  OBVIOUS
<1>1. CASE Tick
  BY <1>1, TickKeeps
<1>2. ASSUME NEW t \in Threads, Request(t) \/ Step(t) PROVE IInv'
  BY <1>2, AcquireKeeps, ThrottledKeeps, ThreadKeeps DEF Step
<1>3. CASE UNCHANGED vars
  BY <1>3 DEF vars, IInv, TypeOK, SlotBehindPending, SlotsApart, CoolOffHeld
<1>. QED BY <1>1, <1>2, <1>3 DEF Next

\* The inductive invariant holds in every reachable state.
LEMMA Invariance == Spec => []IInv
BY InitEstablishes, NextKeeps, PTL DEF Spec

\* Every reachable state of the limiter and its threads is well typed; the
\* interval never leaves [_min_interval, _max_interval].
THEOREM TypeCorrect == Spec => []TypeOK
<1>1. IInv => TypeOK
  BY DEF IInv
<1>. QED BY <1>1, Invariance, PTL

\* acquire hands out slots at least the minimum interval apart.
THEOREM SlotsApartHolds == Spec => []SlotsApart
<1>1. IInv => SlotsApart
  BY DEF IInv
<1>. QED BY <1>1, Invariance, PTL

\* acquire hands out no slot inside a cool-off that signal_throttle has started.
THEOREM SlotsAfterCoolOffHolds == Spec => SlotsAfterCoolOff
<1>. DEFINE Behind == \A t \in Threads :
                         pc[t] = "acquire" /\ pc'[t] = "slot" => wait'[t] >= held
<1>1. IInv /\ [Next]_vars => [Behind]_vars
  <2>. SUFFICES ASSUME IInv, Next, NEW t \in Threads, pc[t] = "acquire", pc'[t] = "slot"
                PROVE  wait'[t] >= held
    OBVIOUS
  <2>1. CASE Tick
    BY <2>1 DEF Tick
  <2>2. ASSUME NEW u \in Threads, Request(u) \/ Step(u) PROVE wait'[t] >= held
    <3>1. CASE u = t /\ \E i \in Recovered : Acquire(u, i)
      BY <3>1, AcquireKeeps
    <3>2. CASE u # t \/ ~\E i \in Recovered : Acquire(u, i)
      <4>1. pc' = [pc EXCEPT ![u] = pc'[u]]
        BY <2>2 DEF Request, Step, Acquire, Send, Settled, Retryable, Resume, Throttled,
                    Backoff, IInv, TypeOK
      <4>2. u = t
        BY <4>1 DEF IInv, TypeOK
      <4>. QED BY <2>2, <3>2, <4>2 DEF Request, Step, Send, Settled, Retryable, Resume,
                                        Throttled
    <3>. QED BY <3>1, <3>2
  <2>. QED BY <2>1, <2>2 DEF Next
<1>. QED BY <1>1, Invariance, PTL DEF Spec, SlotsAfterCoolOff
=============================================================================
