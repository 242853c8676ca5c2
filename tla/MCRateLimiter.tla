----------------------------- MODULE MCRateLimiter -----------------------------
(* Small instances of RateLimiter for TLC: a window and one twice as long.   *)
EXTENDS RateLimiter, TLC

CONSTANTS r1, r2, r3, r4

FourRequests == {r1, r2, r3, r4}
ShortAndLong == [minute |-> 2, hour |-> 4]
OneAndTwo    == [minute |-> 1, hour |-> 2]

RequestSymmetry == Permutations(Requests)
=============================================================================
