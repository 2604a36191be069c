---------------------------- MODULE CheckScript ----------------------------
(***************************************************************************)
(* The counters of one tenant in Redis and the script that decides on them *)
(* (internal/limiter/redis/check.lua, past its fences), for a policy of a  *)
(* token bucket and a sliding window.  The bucket is one timestamp, the    *)
(* theoretical arrival time, and the window a sorted set with one member   *)
(* per admitted unit; each key carries an expiry in milliseconds, while    *)
(* the script reckons in microseconds.                                     *)
(***************************************************************************)
EXTENDS Integers, FiniteSets

CONSTANTS
    BucketCount, BucketPeriod, Burst,   \* the token bucket, as configured
    Period, Count,                      \* the sliding window, as configured
    Milli,      \* microseconds to a millisecond, 1000 in the code
    MaxCost,    \* bound on the cost of a request
    MaxNow      \* bound on the clock

ASSUME LimitsAssumption ==
    /\ BucketCount \in Nat \ {0} /\ BucketPeriod \in Nat \ {0} /\ Burst \in Nat
    /\ Period \in Nat \ {0} /\ Count \in Nat \ {0}
    /\ Milli \in Nat \ {0} /\ MaxCost \in Nat \ {0} /\ MaxNow \in Nat

VARIABLES
    now,       \* Redis TIME, in microseconds
    bucket,    \* the token bucket's key: [tat, dies]
    window,    \* the sliding window's key: [log, dies]
    admitted   \* history: every unit admitted, <<instant, ordinal within it>>

scriptVars == <<now, bucket, window, admitted>>

-----------------------------------------------------------------------------
(* The limit, as callArgs passes it to the script.                         *)

CeilDiv(a, b) == (a + b - 1) \div b

(* Mutant: the emission interval is rounded down. *)
EmissionDown == IF BucketPeriod \div BucketCount < 1 THEN 1 ELSE BucketPeriod \div BucketCount

(* Rounded up to whole microseconds.                                       *)
Emission == CeilDiv(BucketPeriod, BucketCount)
Capacity == IF Burst > 0 THEN Burst ELSE BucketCount
Tolerance == Emission * Capacity

Least(a, b) == IF a < b THEN a ELSE b
Greatest(a, b) == IF a < b THEN b ELSE a
(* A cost above what a limit can ever admit is refused before the script.  *)
Costs == 1..Least(MaxCost, Least(Capacity, Count))

-----------------------------------------------------------------------------
(* Redis: a key with a time to live is gone once the clock's millisecond   *)
(* is past its deadline.                                                   *)
Ms(t) == t \div Milli
Gone(key, t) == Ms(t) > key.dies
Deadline(ttl) == Ms(now) + ttl

(* Mutant: the time to live is rounded down. *)
TtlDown(micros) == Greatest(1, micros \div Milli)
Ttl(micros) == Greatest(1, CeilDiv(micros, Milli))

(* What the script finds at instant t: the arrival time, not before t, and *)
(* the members of the log still in the window.                             *)
Tat(t) == IF Gone(bucket, t) THEN t ELSE Greatest(bucket.tat, t)

Live(t) == IF Gone(window, t) THEN {} ELSE {m \in window.log : m[1] > t - Period}

(* The score of the k-th oldest live entry.                                *)
KthOldest(t, k) ==
    CHOOSE s \in {m[1] : m \in Live(t)} :
        /\ Cardinality({m \in Live(t) : m[1] < s}) < k
        /\ Cardinality({m \in Live(t) : m[1] <= s}) >= k

(* GCRA: allowed, how long to wait, headroom, and time to a full bucket.   *)
BucketAllows(t, c) == Tat(t) + Emission * c - Tolerance <= t
BucketRetry(t, c) == Greatest(0, Tat(t) + Emission * c - Tolerance - t)
BucketRemaining(t) == Greatest(0, Tolerance - (Tat(t) - t)) \div Emission
BucketReset(t) == Tat(t) - t

WindowAllows(t, c) == Cardinality(Live(t)) + c <= Count

(* Mutant: the wait is for the oldest entry, whatever the cost. *)
WindowRetryOldest(t, c) == IF WindowAllows(t, c) THEN 0 ELSE KthOldest(t, 1) + Period - t
WindowRetry(t, c) ==
    IF WindowAllows(t, c) THEN 0
    ELSE KthOldest(t, Cardinality(Live(t)) + c - Count) + Period - t
WindowRemaining(t) == Greatest(0, Count - Cardinality(Live(t)))
WindowReset(t) == IF Live(t) = {} THEN 0 ELSE KthOldest(t, 1) + Period - t

Tell(remaining, reset) == [remaining |-> remaining, reset |-> reset]

(* What an admitted request of cost c is told it leaves.                   *)
BucketAfter(c) ==
    LET ahead == Tat(now) + Emission * c - now
    IN  Tell(Greatest(0, Tolerance - ahead) \div Emission, ahead)

WindowAfter(c) ==
    Tell(Greatest(0, Count - Cardinality(Live(now)) - c),
         IF Live(now) = {} THEN Period ELSE KthOldest(now, 1) + Period - now)

Allowed(t, c) == BucketAllows(t, c) /\ WindowAllows(t, c)
(* Result.RetryAfter: the longest wait of the limits that refuse.          *)
RetryAfter(t, c) == Greatest(BucketRetry(t, c), WindowRetry(t, c))

-----------------------------------------------------------------------------
ScriptTypeOK ==
    /\ now \in Nat
    /\ bucket \in [tat : Nat, dies : Int]
    /\ window \in [log : SUBSET (Nat \X Nat), dies : Int]
    /\ admitted \subseteq Nat \X Nat

(* No counters: keys that died before the clock started.                   *)
ScriptInit ==
    /\ now = 0
    /\ bucket = [tat |-> 0, dies |-> -1]
    /\ window = [log |-> {}, dies |-> -1]
    /\ admitted = {}

Tick ==
    /\ now < MaxNow
    /\ now' = now + 1
    /\ UNCHANGED <<bucket, window, admitted>>

(* Mutant: members are named without counting those of the same instant. *)
CheckNamesAnew(c) ==
    LET n == Cardinality({u \in admitted : u[1] = now})
        tat == Tat(now) + Emission * c
    IN  /\ Allowed(now, c)
        /\ bucket' = [tat |-> tat, dies |-> Deadline(Ttl(tat - now))]
        /\ window' = [log |-> Live(now) \cup ({now} \X (1..c)), dies |-> Deadline(Ttl(Period))]
        /\ admitted' = admitted \cup ({now} \X ((n + 1)..(n + c)))
        /\ UNCHANGED now

(* One run of the script for a request of cost c: decide every limit, then *)
(* write all of them or none.  (A peek decides and writes nothing: it only  *)
(* stutters here.)                                                         *)
Check(c) ==
    LET pruned == Live(now)
        same == Cardinality({m \in pruned : m[1] = now})
        new == {now} \X ((same + 1)..(same + c))
        tat == Tat(now) + Emission * c
    IN  /\ IF Allowed(now, c)
           THEN /\ bucket' = [tat |-> tat, dies |-> Deadline(Ttl(tat - now))]
                /\ window' = [log |-> pruned \cup new, dies |-> Deadline(Ttl(Period))]
                /\ admitted' = admitted \cup new
           ELSE UNCHANGED <<bucket, window, admitted>>
        /\ UNCHANGED now

ScriptNext == Tick \/ \E c \in Costs : Check(c)
ScriptSpec == ScriptInit /\ [][ScriptNext]_scriptVars

-----------------------------------------------------------------------------
(* "An absent key and a full bucket are the same state" (gcra.go), and the *)
(* log is exact: with its timestamps, its expiries and its sorted set the  *)
(* script admits exactly what the bucket and the window promise.           *)
Promise == INSTANCE Quota WITH
    level <- Tolerance - (Tat(now) - now), units <- admitted,
    MaxCost <- Least(MaxCost, Least(Capacity, Count))
ImplementsQuota == Promise!Spec

Between(s, t) == Cardinality({u \in admitted : s <= u[1] /\ u[1] <= t})

(* "At most Count units are admitted in ANY window of Period" (window.go). *)
WindowExact == \A t \in 0..now : Between(t - Period + 1, t) <= Count

(* A limiter "that admits more than it was told to is a worse failure"     *)
(* (limit.go, Emission): over any stretch of time the bucket admits no     *)
(* more than its burst and what the CONFIGURED rate accrues.               *)
RateNeverExceeded ==
    \A s, t \in 0..now : s <= t =>
        (Between(s, t) - Capacity) * BucketPeriod <= (t - s) * BucketCount

(* No unit takes the place of another: the members a check adds to the     *)
(* sorted set are named apart from those of the same microsecond.          *)
EveryUnitIsKept ==
    [][\A c \in Costs : Check(c) /\ Allowed(now, c) =>
         /\ Cardinality(admitted') = Cardinality(admitted) + c
         /\ Cardinality(window'.log) = Cardinality(Live(now)) + c]_scriptVars

(* The remaining units reported are the truth: a request is admitted       *)
(* exactly when its cost is no more than every limit says it has left.     *)
RemainingExact ==
    \A c \in Costs : Allowed(now, c) <=> BucketRemaining(now) >= c /\ WindowRemaining(now) >= c

(* What an admitted request is told it leaves is what the next one finds,  *)
(* the deadlines just written included.                                    *)
ReportIsTrue ==
    [][\A c \in Costs : Check(c) =>
        /\ BucketAfter(c) = Tell(BucketRemaining(now), BucketReset(now))'
        /\ WindowAfter(c) = Tell(WindowRemaining(now), WindowReset(now))']_scriptVars

(* "How long the caller should wait" (limit.go, RetryAfter): a request     *)
(* refused now is refused at every instant before the wait is over and     *)
(* admitted when it is, nothing else having been admitted.                 *)
RetryAfterExact ==
    \A c \in Costs : ~Allowed(now, c) =>
        LET r == RetryAfter(now, c)
        IN  r > 0 /\ Allowed(now + r, c) /\ \A d \in 0..(r - 1) : ~Allowed(now + d, c)

(* "ResetAfter is how long until this limit is fully replenished"          *)
(* (limit.go).                                                             *)
(* Does not hold: see README, section 6.                                   *)
ResetIsFull ==
    /\ BucketRemaining(now + BucketReset(now)) = Capacity
    /\ WindowRemaining(now + WindowReset(now)) = Count
=============================================================================
