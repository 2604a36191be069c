--------------------------- MODULE MemoryLimiter ---------------------------
(***************************************************************************)
(* The limiter that keeps its counters in the process                      *)
(* (internal/limiter/memory.go): goroutines that check, and sweeps that    *)
(* discard what has expired, over one mutex per shard, one per tenant and  *)
(* one for the key count.  A tenant may have a token bucket (gcra.go) and  *)
(* a sliding window (window.go); a request names those that apply to it.   *)
(*                                                                         *)
(* A tenantState is told apart from its successors by a number, so that a  *)
(* goroutine can hold one that the sweep has detached.  What a goroutine   *)
(* does between taking and releasing a mutex is one step unless another    *)
(* goroutine could see the difference.                                     *)
(***************************************************************************)
EXTENDS Integers, Sequences, FiniteSets

CONSTANTS
    Tenant,
    Shard,        \* Shard[t]: the shard tenant t hashes to
    NumShards,
    Checker,      \* goroutines serving checks
    Sweeper,      \* the goroutine that sweeps on a timer
    Nobody,       \* no goroutine
    LimitSets,    \* the sets of limits a request may name
    Emission, Capacity,   \* the token bucket
    Period, Count,        \* the sliding window
    MaxKeys,      \* the budget of counters, WithMaxKeys
    MaxCost,      \* bound on the cost of a request
    MaxNow        \* bound on the clock

Limits == {"bucket", "window"}

ASSUME MemoryAssumption ==
    /\ Shard \in [Tenant -> 1..NumShards] /\ NumShards \in Nat
    /\ IsFiniteSet(Checker) /\ Checker # {} /\ Sweeper \notin Checker
    /\ Nobody \notin Checker \cup {Sweeper} \cup Tenant
    /\ LimitSets \subseteq ((SUBSET Limits) \ {{}}) /\ LimitSets # {}
    /\ Emission \in Nat \ {0} /\ Capacity \in Nat \ {0}
    /\ Period \in Nat \ {0} /\ Count \in Nat \ {0}
    /\ MaxKeys \in Nat /\ MaxCost \in Nat /\ MaxNow \in Nat

Proc == Checker \cup {Sweeper}

VARIABLES
    now,       \* the clock
    obj,       \* obj[t]: the tenantState in the shard's map, 0 when none
    mu,        \* mu[t]: who holds that tenantState's mutex
    shardMu,   \* shardMu[s]: who holds the shard's mutex across steps
    tat,       \* tat[t]: the bucket's theoretical arrival time, 0 when absent
    log,       \* log[t]: the window's entries, empty when absent
    keys,      \* the key count
    proc,      \* proc[p]: what each goroutine is doing
    admitted,  \* history: admitted[t], the units admitted, <<reading, ordinal>>
               \* for each limit, until t is overtaken
    overtaken  \* history: overtaken[t], a check of t with a clock reading in
               \* hand was overtaken (see Overtakes)

vars == <<now, obj, mu, shardMu, tat, log, keys, proc, admitted, overtaken>>

-----------------------------------------------------------------------------
Least(S) == CHOOSE x \in S : \A y \in S : x <= y
Greatest(a, b) == IF a < b THEN b ELSE a
Tolerance == Emission * Capacity

(* gcraCheck: a bucket whose arrival time is past is full.                 *)
BucketNext(a, t, c) == Greatest(a, t) + Emission * c
BucketAllows(a, t, c) == BucketNext(a, t, c) - Tolerance <= t
BucketRetry(a, t, c) == BucketNext(a, t, c) - Tolerance - t

(* windowCheck: what has aged out is dropped from the front, up to the     *)
(* first entry that has not.                                               *)
Prune(l, t) ==
    LET live == {i \in DOMAIN l : l[i] > t - Period}
    IN  IF live = {} THEN <<>> ELSE SubSeq(l, Least(live), Len(l))
WindowAllows(l, t, c) == Len(Prune(l, t)) + c <= Count
WindowNext(l, t, c) == Prune(l, t) \o [i \in 1..c |-> t]

WindowRetry(l, t, c) ==
    LET live == Prune(l, t) IN live[Len(live) + c - Count] + Period - t
WindowExpiry(l) == l[Len(l)] + Period

(* A cost no limit could ever admit is refused before anything is read.    *)
Costs(lims) ==
    {c \in 1..MaxCost : /\ "bucket" \in lims => c <= Capacity
                        /\ "window" \in lims => c <= Count}

Allows(t, lims, at, c) ==
    /\ "bucket" \in lims => BucketAllows(tat[t], at, c)
    /\ "window" \in lims => WindowAllows(log[t], at, c)

(* Result.RetryAfter: the longest wait among the limits that refuse.       *)
RetryAfter(t, lims, at, c) ==
    Greatest(IF "bucket" \in lims /\ ~BucketAllows(tat[t], at, c)
             THEN BucketRetry(tat[t], at, c) ELSE 0,
             IF "window" \in lims /\ ~WindowAllows(log[t], at, c)
             THEN WindowRetry(log[t], at, c) ELSE 0)

Has(t, l) == IF l = "bucket" THEN tat[t] # 0 ELSE log[t] # <<>>
Fresh(t, lims) == Cardinality({l \in lims : ~Has(t, l)})
Counters == Cardinality({x \in Tenant \X Limits : Has(x[1], x[2])})

-----------------------------------------------------------------------------
Idle == [pc |-> "idle", tenant |-> Nobody, lims |-> {}, cost |-> 0, at |-> 0,
         ptr |-> 0, shard |-> 0, todo |-> {}, removed |-> 0]

TypeOK ==
    /\ now \in 0..MaxNow
    /\ obj \in [Tenant -> Nat]
    /\ mu \in [Tenant -> Checker \cup {Nobody}]
    /\ shardMu \in [1..NumShards -> Proc \cup {Nobody}]
    /\ tat \in [Tenant -> Nat]
    /\ log \in [Tenant -> Seq(0..MaxNow)]
    /\ keys \in Nat
    /\ proc \in [Proc -> [pc : {"idle", "sweep", "shard", "tenants", "clock",
                                "lookup", "lock", "locked", "commit"},
                          tenant : Tenant \cup {Nobody}, lims : SUBSET Limits,
                          cost : 0..MaxCost, at : 0..MaxNow, ptr : Nat,
                          shard : 0..(NumShards + 1), todo : SUBSET Tenant,
                          removed : Nat]]
    /\ admitted \in [Tenant -> [Limits -> SUBSET (Nat \X Nat)]]
    /\ overtaken \in [Tenant -> BOOLEAN]

Init ==
    /\ now = 1
    /\ obj = [t \in Tenant |-> 0]
    /\ mu = [t \in Tenant |-> Nobody]
    /\ shardMu = [s \in 1..NumShards |-> Nobody]
    /\ tat = [t \in Tenant |-> 0]
    /\ log = [t \in Tenant |-> <<>>]
    /\ keys = 0
    /\ proc = [p \in Proc |-> Idle]
    /\ admitted = [t \in Tenant |-> [l \in Limits |-> {}]]
    /\ overtaken = [t \in Tenant |-> FALSE]

Tick ==
    /\ now < MaxNow
    /\ now' = now + 1
    /\ UNCHANGED <<obj, mu, shardMu, tat, log, keys, proc, admitted, overtaken>>

-----------------------------------------------------------------------------
(* Check.                                                                  *)

(* The request is validated and the key count read: a store without room   *)
(* is swept first, by this goroutine.                                      *)
Begin(p, t, lims, c) ==
    /\ proc[p].pc = "idle"
    /\ proc' = [proc EXCEPT ![p] =
         [Idle EXCEPT !.pc = IF keys + Cardinality(lims) > MaxKeys THEN "sweep" ELSE "clock",
                      !.tenant = t, !.lims = lims, !.cost = c]]
    /\ UNCHANGED <<now, obj, mu, shardMu, tat, log, keys, admitted, overtaken>>

(* The clock is read before any lock is taken.                             *)
ReadClock(p) ==
    /\ proc[p].pc = "clock"
    /\ proc' = [proc EXCEPT ![p] = [@ EXCEPT !.pc = "lookup", !.at = now]]
    /\ UNCHANGED <<now, obj, mu, shardMu, tat, log, keys, admitted, overtaken>>

(* lockTenant, under the shard's mutex: the tenant's state, created when   *)
(* there is none ...                                                       *)
Unheld(t) == Least({i \in 1..(Cardinality(Checker) + 1) :
                      \A p \in Checker : ~(proc[p].tenant = t /\ proc[p].ptr = i)})
LookUp(p) ==
    LET t == proc[p].tenant
    IN  /\ proc[p].pc = "lookup"
        /\ shardMu[Shard[t]] = Nobody
        /\ obj' = [obj EXCEPT ![t] = IF @ = 0 THEN Unheld(t) ELSE @]
        /\ proc' = [proc EXCEPT ![p] = [@ EXCEPT !.pc = "lock", !.ptr = obj'[t]]]
        /\ UNCHANGED <<now, mu, shardMu, tat, log, keys, admitted, overtaken>>

(* Mutant: a detached tenantState is taken as it is. *)
LockTenantDetached(p) ==
    LET t == proc[p].tenant
    IN  /\ proc[p].pc = "lock"
        /\ mu[t] = Nobody
        /\ mu' = [mu EXCEPT ![t] = p]
        /\ proc' = [proc EXCEPT ![p].pc = "locked"]
        /\ UNCHANGED <<now, obj, shardMu, tat, log, keys, admitted, overtaken>>

(* Mutant: the sweep lets go of a detached tenantState without unlocking it. *)
LockTenantStuck(p) ==
    LET t == proc[p].tenant
    IN  /\ proc[p].pc = "lock"
        /\ obj[t] = proc[p].ptr /\ mu[t] = Nobody
        /\ mu' = [mu EXCEPT ![t] = p]
        /\ proc' = [proc EXCEPT ![p].pc = "locked"]
        /\ UNCHANGED <<now, obj, shardMu, tat, log, keys, admitted, overtaken>>

(* ... and then its own mutex; state detached in between is looked up      *)
(* again.                                                                  *)
LockTenant(p) ==
    LET t == proc[p].tenant
    IN  /\ proc[p].pc = "lock"
        /\ IF obj[t] = proc[p].ptr
           THEN /\ mu[t] = Nobody
                /\ mu' = [mu EXCEPT ![t] = p]
                /\ proc' = [proc EXCEPT ![p].pc = "locked"]
           ELSE /\ proc' = [proc EXCEPT ![p] = [@ EXCEPT !.pc = "lookup", !.ptr = 0]]
                /\ UNCHANGED mu
        /\ UNCHANGED <<now, obj, shardMu, tat, log, keys, admitted, overtaken>>

Unlock(p) ==
    /\ mu' = [mu EXCEPT ![proc[p].tenant] = Nobody]
    /\ proc' = [proc EXCEPT ![p] = Idle]

(* Mutant: the budget is not looked at again under the lock. *)
RoomAlways(p) == TRUE

(* Limits seen for the first time must fit the budget, read again here.    *)
Room(p) ==
    LET f == Fresh(proc[p].tenant, proc[p].lims) IN f > 0 => keys + f <= MaxKeys

(* Pass one: a refusal, a peek, or a store without room leaves everything  *)
(* as it was.                                                              *)
Refuse(p) ==
    /\ proc[p].pc = "locked"
    /\ Unlock(p)
    /\ UNCHANGED <<now, obj, shardMu, tat, log, keys, admitted, overtaken>>

Grant(p) ==
    /\ proc[p].pc = "locked"
    /\ Allows(proc[p].tenant, proc[p].lims, proc[p].at, proc[p].cost)
    /\ Room(p)
    /\ proc' = [proc EXCEPT ![p].pc = "commit"]
    /\ UNCHANGED <<now, obj, mu, shardMu, tat, log, keys, admitted, overtaken>>

Units(S, at, c) ==
    LET n == Cardinality({u \in S : u[1] = at}) IN {at} \X ((n + 1)..(n + c))

(* Pass two: every limit is charged, the count follows.                    *)
Commit(p) ==
    LET t == proc[p].tenant
        at == proc[p].at
        c == proc[p].cost
        lims == proc[p].lims
    IN  /\ proc[p].pc = "commit"
        /\ tat' = IF "bucket" \in lims
                  THEN [tat EXCEPT ![t] = BucketNext(@, at, c)] ELSE tat
        /\ log' = IF "window" \in lims
                  THEN [log EXCEPT ![t] = WindowNext(@, at, c)] ELSE log
        /\ keys' = keys + Fresh(t, lims)
        /\ Unlock(p)
        /\ overtaken' = [overtaken EXCEPT ![t] = @ \/
             ("window" \in lims /\ log[t] # <<>> /\ log[t][Len(log[t])] > at)]
        /\ admitted' = [admitted EXCEPT ![t] = [l \in Limits |->
             CASE overtaken'[t] -> {}
               [] ~overtaken'[t] /\ l \in lims -> @[l] \cup Units(@[l], at, c)
               [] OTHER -> @[l]]]
        /\ UNCHANGED <<now, obj, shardMu>>

-----------------------------------------------------------------------------
(* Sweep, by the timer's goroutine or by a check that found no room.       *)

SweepFrom(p) ==
    /\ proc' = [proc EXCEPT ![p] = [@ EXCEPT !.pc = "shard", !.at = now, !.shard = 1]]
    /\ UNCHANGED <<now, obj, mu, shardMu, tat, log, keys, admitted, overtaken>>

SweepTimer == proc[Sweeper].pc = "idle" /\ SweepFrom(Sweeper)
SweepForRoom(p) == proc[p].pc = "sweep" /\ SweepFrom(p)

(* The next shard's mutex is held while its tenants are walked.            *)
SweepShard(p) ==
    LET s == proc[p].shard
    IN  /\ proc[p].pc = "shard" /\ s <= NumShards
        /\ shardMu[s] = Nobody
        /\ shardMu' = [shardMu EXCEPT ![s] = p]
        /\ proc' = [proc EXCEPT ![p] = [@ EXCEPT !.pc = "tenants",
                      !.todo = {t \in Tenant : Shard[t] = s /\ obj[t] # 0}]]
        /\ UNCHANGED <<now, obj, mu, tat, log, keys, admitted, overtaken>>

(* A check that has read the clock and not yet charged the tenant.         *)
Overtakes(p, t) ==
    \E q \in Checker : /\ proc[q].pc \in {"lookup", "lock"} /\ proc[q].tenant = t
                       /\ proc[q].at < proc[p].at

(* Mutant: a window is dropped when its oldest entry ages out. *)
ExpiredOldest(p, t) ==
    {l \in Limits : /\ Has(t, l)
                    /\ IF l = "bucket" THEN tat[t] <= proc[p].at
                       ELSE log[t][1] + Period <= proc[p].at}
Expired(p, t) ==
    {l \in Limits : /\ Has(t, l)
                    /\ IF l = "bucket" THEN tat[t] <= proc[p].at
                       ELSE WindowExpiry(log[t]) <= proc[p].at}

(* One tenant, under its mutex: what has expired goes, and the tenantState *)
(* with it when nothing is left.                                           *)
SweepTenant(p, t) ==
    LET dead == Expired(p, t)
    IN  /\ proc[p].pc = "tenants" /\ t \in proc[p].todo
        /\ mu[t] = Nobody
        /\ tat' = [tat EXCEPT ![t] = IF "bucket" \in dead THEN 0 ELSE @]
        /\ log' = [log EXCEPT ![t] = IF "window" \in dead THEN <<>> ELSE @]
        /\ obj' = [obj EXCEPT ![t] = IF \A l \in Limits : Has(t, l) => l \in dead
                                    THEN 0 ELSE @]
        /\ proc' = [proc EXCEPT ![p] = [proc[p] EXCEPT !.todo = @ \ {t},
                                                       !.removed = @ + Cardinality(dead)]]
        /\ overtaken' = [overtaken EXCEPT ![t] = @ \/ (dead # {} /\ Overtakes(p, t))]
        /\ admitted' = IF overtaken'[t] THEN [admitted EXCEPT ![t] = [l \in Limits |-> {}]]
                       ELSE admitted
        /\ UNCHANGED <<now, mu, shardMu, keys>>

SweepNext(p) ==
    LET s == proc[p].shard
    IN  /\ proc[p].pc = "tenants" /\ proc[p].todo = {}
        /\ shardMu' = [shardMu EXCEPT ![s] = Nobody]
        /\ proc' = [proc EXCEPT ![p] = [@ EXCEPT !.pc = "shard", !.shard = s + 1]]
        /\ UNCHANGED <<now, obj, mu, tat, log, keys, admitted, overtaken>>

(* Mutant: the sweep of a full store forgets to give the keys back. *)
SweepEndNoCount(p) ==
    /\ proc[p].pc = "shard" /\ proc[p].shard = NumShards + 1
    /\ proc' = [proc EXCEPT ![p] = IF p = Sweeper THEN Idle
                  ELSE [@ EXCEPT !.pc = "clock", !.at = 0, !.shard = 0, !.removed = 0]]
    /\ UNCHANGED <<now, obj, mu, shardMu, tat, log, keys, admitted, overtaken>>

(* The count follows once every shard has been let go of.                  *)
SweepEnd(p) ==
    /\ proc[p].pc = "shard" /\ proc[p].shard = NumShards + 1
    /\ keys' = keys - proc[p].removed
    /\ proc' = [proc EXCEPT ![p] = IF p = Sweeper THEN Idle
                  ELSE [@ EXCEPT !.pc = "clock", !.at = 0, !.shard = 0, !.removed = 0]]
    /\ UNCHANGED <<now, obj, mu, shardMu, tat, log, admitted, overtaken>>

-----------------------------------------------------------------------------
SweepStep(p) ==
    SweepForRoom(p) \/ SweepShard(p) \/ (\E t \in Tenant : SweepTenant(p, t))
        \/ SweepNext(p) \/ SweepEnd(p)

CheckStep(p) ==
    ReadClock(p) \/ LookUp(p) \/ LockTenant(p) \/ Refuse(p) \/ Grant(p) \/ Commit(p)

Next ==
    \/ Tick
    \/ SweepTimer
    \/ \E p \in Proc : SweepStep(p)
    \/ \E p \in Checker : CheckStep(p)
    \/ \E p \in Checker, t \in Tenant, lims \in LimitSets :
         \E c \in Costs(lims) : Begin(p, t, lims, c)

Spec == Init /\ [][Next]_vars

(* A goroutine that can run does, and sync.Mutex hands itself to a waiter  *)
(* that keeps losing it (its starvation mode).  Nothing is assumed of      *)
(* requests, of the timer or of the clock.                                 *)
Fairness ==
    /\ \A p \in Proc : WF_vars(SweepStep(p))
    /\ \A p \in Checker : WF_vars(CheckStep(p)) /\ SF_vars(LockTenant(p))

FairSpec == Spec /\ Fairness

-----------------------------------------------------------------------------
(* "A goroutine holding a stale pointer must not write into it" (memory.go *)
(* on detached): whoever is about to decide or commit holds the mutex of   *)
(* the tenantState the shard's map has, whatever sweeps ran since the      *)
(* lookup.                                                                 *)
NoWriteLost ==
    \A p \in Checker : proc[p].pc \in {"locked", "commit"} =>
        /\ obj[proc[p].tenant] = proc[p].ptr
        /\ mu[proc[p].tenant] = p

(* The key count is what exists plus what sweeps have removed and not yet  *)
(* given back: it errs on the side of refusing, and not for good.          *)
Unreturned == UNION {{p} \X (1..proc[p].removed) : p \in Proc}
KeysAccounted == keys = Counters + Cardinality(Unreturned)

(* Checks of different tenants read the count before either adds to it, so *)
(* the budget can be overrun, by what the other goroutines had in hand.    *)
BudgetNearlyHolds ==
    \E lims \in LimitSets :
        Counters <= MaxKeys + (Cardinality(Checker) - 1) * Cardinality(lims)

(* Units of limit l of tenant t whose clock readings lie in a..b.          *)
Between(t, l, a, b) == Cardinality({u \in admitted[t][l] : a <= u[1] /\ u[1] <= b})

(* "Within one process it is exact" (memory.go): no window of Period holds *)
(* more than Count units and no stretch of time more than the bucket's     *)
(* capacity and what it regained, for any interleaving of checks and       *)
(* sweeps - until a check is overtaken between its clock and its lock.     *)
ExactUntilOvertaken ==
    \A t \in Tenant : ~overtaken[t] =>
        /\ \A a \in 1..now : Between(t, "window", a, a + Period - 1) <= Count
        /\ \A a \in 1..now : \A b \in a..now :
              Emission * Between(t, "bucket", a, b) <= Tolerance + (b - a)

(* A refused caller told to wait that long is admitted then, and would not *)
(* have been an instant sooner, if nobody else comes in between.           *)
RetryAfterExact ==
    \A t \in Tenant, lims \in LimitSets : \A c \in Costs(lims) :
        LET w == RetryAfter(t, lims, now, c)
        IN  ~overtaken[t] /\ ~Allows(t, lims, now, c) =>
              /\ w > 0
              /\ Allows(t, lims, now + w, c)
              /\ ~Allows(t, lims, now + w - 1, c)

(* Once sweeping ceases every check comes to an end: the retry of          *)
(* lockTenant is not for ever, and nobody waits for a mutex in a circle.   *)
ChecksEnd ==
    (<>[](\A p \in Proc : proc[p].pc \notin {"sweep", "shard", "tenants"}))
      => \A p \in Checker : proc[p].pc = "clock" ~> proc[p].pc = "idle"
=============================================================================
