----------------------------- MODULE RateLimiter -----------------------------
(***************************************************************************)
(* The request pacing of edgar_sec/infra/sec_http: RateLimiter, and the    *)
(* retry loop of SecHttpClient.get_bytes as its user, in threads that      *)
(* share one limiter. Times are kept as what remains of them, in ticks;    *)
(* a thread may oversleep.                                                 *)
(***************************************************************************)
EXTENDS Integers

CONSTANTS
    Threads,
    MinInterval, MaxInterval,  \* bounds of the interval
    RetryAfterCap,             \* RETRY_AFTER_CAP_S
    RecoveryQuiet,             \* RECOVERY_QUIET_S
    MaxRetries,
    BackoffTicks,              \* min(backoff_base_s * 2^attempt, backoff_cap_s)
    RetryAfters,               \* values the Retry-After header takes
    NoHeader

ASSUME LimiterAssumption ==
    /\ MinInterval \in Nat \ {0} /\ MaxInterval \in Nat /\ MinInterval <= MaxInterval
    /\ RetryAfterCap \in Nat /\ MaxInterval <= RetryAfterCap
    /\ RecoveryQuiet \in Nat
    /\ MaxRetries \in Nat /\ BackoffTicks \in [0 .. MaxRetries -> Nat]
    /\ RetryAfters \subseteq Nat /\ NoHeader \notin Nat

VARIABLES
    interval,  \* _interval
    slot,      \* until _next_slot
    cool,      \* until _cool_until
    quiet,     \* since _last_throttle, at most RecoveryQuiet + 1
    pc,        \* where each thread is in get_bytes
    attempt,   \* its attempt
    wait,      \* what is left of its sleep
    held       \* until the last end of all cool-offs signalled so far

limiter == <<interval, slot, cool, quiet, held>>
vars == <<interval, slot, cool, quiet, pc, attempt, wait, held>>

Least(a, b) == IF a <= b THEN a ELSE b
Most(a, b) == IF a >= b THEN a ELSE b

Init ==
    /\ interval = MinInterval
    /\ slot = 0
    /\ cool = 0
    /\ quiet = RecoveryQuiet + 1
    /\ pc = [t \in Threads |-> "idle"]
    /\ attempt = [t \in Threads |-> 0]
    /\ wait = [t \in Threads |-> 0]
    /\ held = 0

\* get_bytes starts its loop.
Request(t) ==
    /\ pc[t] = "idle"
    /\ pc' = [pc EXCEPT ![t] = "acquire"]
    /\ attempt' = [attempt EXCEPT ![t] = 0]
    /\ UNCHANGED <<limiter, wait>>

\* After a quiet period the interval loses a tenth of its excess: any smaller
\* value down to the minimum, at the resolution of a tick.
Recovered ==
    IF interval > MinInterval /\ quiet > RecoveryQuiet
    THEN MinInterval .. interval
    ELSE {interval}

\* Mutant of Wake: the cool-off is not looked at.
WakeSoon == slot

Wake == Most(slot, cool)

\* Mutant of NextSlot: the slot after now instead of after the slot handed out.
NextSlotFromNow(i) == i

NextSlot(i) == Wake + i

\* RateLimiter.acquire; the thread then sleeps outside the lock.
Acquire(t, i) ==
    /\ pc[t] = "acquire"
    /\ i \in Recovered
    /\ interval' = i
    /\ slot' = NextSlot(i)
    /\ wait' = [wait EXCEPT ![t] = Wake]
    /\ pc' = [pc EXCEPT ![t] = "slot"]
    /\ UNCHANGED <<cool, quiet, attempt, held>>

Send(t) ==
    /\ pc[t] = "slot"
    /\ wait[t] = 0
    /\ pc' = [pc EXCEPT ![t] = "sent"]
    /\ UNCHANGED <<limiter, attempt, wait>>

\* 200, a permanent status, or a response that is too large.
Settled(t) ==
    /\ pc[t] = "sent"
    /\ pc' = [pc EXCEPT ![t] = "idle"]
    /\ UNCHANGED <<limiter, attempt, wait>>

\* Mutant of Backoff: the attempt is not counted.
BackoffUncounted(t, d) ==
    /\ wait' = [wait EXCEPT ![t] = d]
    /\ pc' = [pc EXCEPT ![t] = "backoff"]
    /\ UNCHANGED attempt

\* attempt < max_retries: sleep and try again, else RetryExhausted.
Backoff(t, d) ==
    IF attempt[t] < MaxRetries
    THEN /\ wait' = [wait EXCEPT ![t] = d]
         /\ pc' = [pc EXCEPT ![t] = "backoff"]
         /\ attempt' = [attempt EXCEPT ![t] = @ + 1]
    ELSE /\ pc' = [pc EXCEPT ![t] = "idle"]
         /\ UNCHANGED <<attempt, wait>>

\* RetryPolicy.delay, without its jitter: a thread may oversleep.
Delay(a, after) ==
    IF after # NoHeader THEN Least(after, RetryAfterCap) ELSE BackoffTicks[a]

\* 408, 425, 5xx, a timeout or a network error: no signal to the limiter.
Retryable(t) ==
    /\ pc[t] = "sent"
    /\ Backoff(t, Delay(attempt[t], NoHeader))
    /\ UNCHANGED limiter

\* Mutant of ThrottleDelay: the header is believed.
ThrottleDelayUncapped(after) ==
    IF after # NoHeader THEN Most(after, interval)
                        ELSE Least((3 * interval + 1) \div 2, MaxInterval)

\* How long signal_throttle holds requests back: Retry-After, or half as long
\* again as the interval (rounded up to a tick).
ThrottleDelay(after) ==
    IF after # NoHeader
    THEN Least(Least(Most(after, interval), MaxInterval), RetryAfterCap)
    ELSE Least((3 * interval + 1) \div 2, MaxInterval)

\* 429: RateLimiter.signal_throttle, then the thread's own backoff.
Throttled(t, after) ==
    /\ pc[t] = "sent"
    /\ LET delay == ThrottleDelay(after) IN
       /\ interval' = Most(interval, delay)
       /\ cool' = delay
       /\ held' = Most(held, delay)
    /\ quiet' = 0
    /\ Backoff(t, Delay(attempt[t], after))
    /\ UNCHANGED slot

Resume(t) ==
    /\ pc[t] = "backoff"
    /\ wait[t] = 0
    /\ pc' = [pc EXCEPT ![t] = "acquire"]
    /\ UNCHANGED <<limiter, attempt, wait>>

Less(x) == IF x > 0 THEN x - 1 ELSE 0

Tick ==
    /\ slot' = Less(slot)
    /\ cool' = Less(cool)
    /\ held' = Less(held)
    /\ quiet' = Least(quiet + 1, RecoveryQuiet + 1)
    /\ wait' = [t \in Threads |-> Less(wait[t])]
    /\ UNCHANGED <<interval, pc, attempt>>

Step(t) ==
    \/ \E i \in Recovered : Acquire(t, i)
    \/ Send(t) \/ Settled(t) \/ Retryable(t) \/ Resume(t)
    \/ \E after \in RetryAfters \cup {NoHeader} : Throttled(t, after)

Next == (\E t \in Threads : Request(t) \/ Step(t)) \/ Tick

Spec == Init /\ [][Next]_vars

\* Time passes, threads are scheduled, and a request that was sent has an answer
\* or times out.
FairSpec == Spec /\ WF_vars(Tick) /\ \A t \in Threads : WF_vars(Step(t))

-----------------------------------------------------------------------------

\* Every variable has its type, and the interval stays between its bounds
\* whatever throttling and recovery alternate.
TypeOK ==
    /\ interval \in MinInterval .. MaxInterval
    /\ slot \in Nat
    /\ cool \in 0 .. MaxInterval
    /\ quiet \in 0 .. RecoveryQuiet + 1
    /\ pc \in [Threads -> {"idle", "acquire", "slot", "sent", "backoff"}]
    /\ attempt \in [Threads -> 0 .. MaxRetries]
    /\ wait \in [Threads -> Nat]
    /\ held \in Nat

\* Slots that are still ahead are at least the minimum interval apart, whichever
\* threads hold them and whatever was signalled since they were handed out.
SlotsApart ==
    \A t, u \in Threads :
        t # u /\ pc[t] = "slot" /\ pc[u] = "slot" /\ wait[t] > 0 /\ wait[u] >= wait[t]
            => wait[u] >= wait[t] + MinInterval

\* A slot handed out after a 429 lies behind the end of that cool-off and of all
\* earlier ones, also when a later and shorter one has moved _cool_until back.
SlotsAfterCoolOff ==
    [][\A t \in Threads : pc[t] = "acquire" /\ pc'[t] = "slot" => wait'[t] >= held]_vars

\* get_bytes always ends: slots come, backoffs pass and retries are bounded.
RequestsEnd == \A t \in Threads : pc[t] # "idle" ~> pc[t] = "idle"
=============================================================================
