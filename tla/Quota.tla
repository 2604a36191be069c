------------------------------- MODULE Quota -------------------------------
(***************************************************************************)
(* What a tenant with a token bucket and a sliding window is promised,     *)
(* whoever keeps the counters and however: a bucket of Capacity units that *)
(* gains one every Emission instants, and at most Count units in any       *)
(* window of Period; a request takes its cost from both or from neither,   *)
(* and is refused only when one of them lacks it.                          *)
(***************************************************************************)
EXTENDS Integers, FiniteSets

CONSTANTS Emission, Capacity, Period, Count, MaxCost, MaxNow

VARIABLES
    now,     \* the one clock that counts
    level,   \* what the bucket holds, in instants of emission
    units    \* the units ever admitted, <<instant, ordinal within it>>

Init == now = 0 /\ level = Emission * Capacity /\ units = {}

(* The units in the window that ends at instant t, the instant at its      *)
(* start excluded.                                                         *)
Within(t) == {u \in units : t - Period < u[1] /\ u[1] <= t}
Fresh(t, c) ==
    LET n == Cardinality({u \in units : u[1] = t}) IN {t} \X ((n + 1)..(n + c))

Fits(c) == Emission * c <= level /\ Cardinality(Within(now)) + c <= Count

Tick ==
    /\ now < MaxNow
    /\ now' = now + 1
    /\ level' = IF level < Emission * Capacity THEN level + 1 ELSE level
    /\ UNCHANGED units

Admit(c) ==
    /\ Fits(c)
    /\ level' = level - Emission * c
    /\ units' = units \cup Fresh(now, c)
    /\ UNCHANGED now

Next == Tick \/ \E c \in 1..MaxCost : Admit(c)
Spec == Init /\ [][Next]_<<now, level, units>>
=============================================================================
