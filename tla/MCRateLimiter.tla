---------------------------- MODULE MCRateLimiter ----------------------------
EXTENDS RateLimiter

\* A base of one tick, which is also the cap.
Backoffs == [a \in 0 .. MaxRetries |-> Least(2^a, 1)]
=============================================================================
