---------------------------- MODULE RateLimiter -----------------------------
(***************************************************************************)
(* The token buckets of internal/api/middleware.go, one per agent or per   *)
(* IP address. Both limiters have the same rules and buckets are           *)
(* independent of each other, so this is the bucket of one caller.         *)
(***************************************************************************)
EXTENDS Integers, SequencesExt

CONSTANTS
    Rate,          \* requests per interval
    Interval,      \* in ticks of the clock
    IdleIntervals, \* after so many intervals an idle bucket is dropped, 5
    MaxTicks       \* bound: the last tick of the clock

ASSUME RateAssumption ==
    /\ Rate \in Nat \ {0} /\ Interval \in Nat \ {0}
    /\ IdleIntervals \in Nat \ {0} /\ MaxTicks \in Nat

VARIABLES
    ticks,    \* the clock
    bucket,   \* {} or the caller's bucket
    allowed   \* history: when the requests of the last interval were allowed, oldest first

rateVars == <<ticks, bucket, allowed>>

Bucket == [tokens : 0..Rate, lastRefill : 0..ticks, lastSeen : 0..ticks]

RateTypeOK ==
    /\ ticks \in 0..MaxTicks
    /\ bucket = {} \/ \E b \in Bucket : bucket = {b}
    /\ allowed \in Seq(0..ticks)

RateInit == ticks = 0 /\ bucket = {} /\ allowed = <<>>

\* The bucket as a request finds it: whole periods since the last refill, and
\* never more tokens than the rate.
Refilled(b) ==
    LET periods == (ticks - b.lastRefill) \div Interval
        tokens  == b.tokens + periods * Rate
    IN  [tokens |-> IF tokens > Rate THEN Rate ELSE tokens,
         lastRefill |-> b.lastRefill + periods * Interval,
         lastSeen |-> ticks]

\* Seeded fault: the request that creates a bucket is counted twice.
FoundCountedTwice ==
    IF bucket = {}
    THEN [tokens |-> Rate - 1, lastRefill |-> ticks, lastSeen |-> ticks]
    ELSE Refilled(CHOOSE b \in bucket : TRUE)

Found ==
    IF bucket = {}
    THEN [tokens |-> Rate, lastRefill |-> ticks, lastSeen |-> ticks]
    ELSE Refilled(CHOOSE b \in bucket : TRUE)

Allow ==
    /\ Found.tokens > 0
    /\ bucket' = {[Found EXCEPT !.tokens = @ - 1]}
    /\ allowed' = Append(allowed, ticks)
    /\ UNCHANGED ticks

Throttle ==
    /\ Found.tokens <= 0
    /\ bucket' = {Found}
    /\ UNCHANGED <<ticks, allowed>>

\* Seeded fault: buckets are dropped after one tick.
IsIdleSoon(b) == b.lastSeen < ticks

IsIdle(b) == b.lastSeen < ticks - IdleIntervals * Interval

\* The cleanup goroutine is woken every IdleIntervals intervals, and runs then or later.
Cleanup ==
    /\ ticks >= IdleIntervals * Interval
    /\ \E b \in bucket : IsIdle(b)
    /\ bucket' = {}
    /\ UNCHANGED <<ticks, allowed>>

\* The n oldest requests of the history, and no others, came before the interval
\* that ends at t.
Outdated(n, t) == \A m \in DOMAIN allowed : allowed[m] > t - Interval <=> m > n

RateTick ==
    /\ ticks < MaxTicks
    /\ ticks' = ticks + 1
    /\ \E n \in 0..Len(allowed) :
         Outdated(n, ticks + 1) /\ allowed' = SubSeq(allowed, n + 1, Len(allowed))
    /\ UNCHANGED bucket

RateNext == Allow \/ Throttle \/ Cleanup \/ RateTick

RateSpec == RateInit /\ [][RateNext]_rateVars

-----------------------------------------------------------------------------
(* Properties                                                                *)

\* In any interval of time, also one that a refill falls into or after an idle
\* bucket was dropped, at most twice the rate is allowed: a full bucket at the
\* end of one period and another one at the start of the next.
AtMostTwiceTheRate == Len(allowed) <= 2 * Rate

\* A request is throttled only if as many as the rate were allowed during the
\* interval before it: what a caller did not use it can use at once.
ThrottledOnlyAtRate == Found.tokens <= 0 => Len(allowed) >= Rate
=============================================================================
