---------------------------- MODULE MemoryProofs ----------------------------
(***************************************************************************)
(* The in-memory limiter, for any number of goroutines, tenants, shards    *)
(* and sweeps and for any limits.  A check never decides or writes on a    *)
(* tenantState that has been detached (MutexInv); then what each step of a *)
(* goroutine does to the counters (ShapeInv), and what a charge does to a  *)
(* bucket and to a window, on which the other Memory proofs build.         *)
(***************************************************************************)
EXTENDS MemoryLimiter, FiniteSetTheorems, TLAPS

ProcState == [pc : {"idle", "sweep", "shard", "tenants", "clock", "lookup", "lock",
                    "locked", "commit"},
              tenant : Tenant \cup {Nobody}, lims : SUBSET Limits, cost : Nat, at : Nat,
              ptr : Nat, shard : Nat, todo : SUBSET Tenant, removed : Nat]

MemType ==
    /\ now \in Nat
    /\ obj \in [Tenant -> Nat]
    /\ mu \in [Tenant -> Checker \cup {Nobody}]
    /\ proc \in [Proc -> ProcState]

(* What makes NoWriteLost inductive: a pointer in hand is never nil, so a  *)
(* lookup that creates a tenantState cannot replace the one p has locked.  *)
Holds(p) ==
    LET h == proc[p] IN
    /\ h.pc # "idle" => h.tenant \in Tenant
    /\ h.pc \in {"lock", "locked", "commit"} => h.ptr # 0
    /\ h.pc \in {"locked", "commit"} => obj[h.tenant] = h.ptr /\ mu[h.tenant] = p

MutexInv == MemType /\ \A p \in Checker : Holds(p)

-----------------------------------------------------------------------------
(* A set of naturals that is not empty has a least element.                *)
LEMMA LeastIsIn ==
    ASSUME NEW S, S \subseteq Nat, S # {}
    PROVE  Least(S) \in S /\ \A y \in S : Least(S) <= y
  <1>1. PICK x \in S : \A y \in S : <<y, x>> \notin OpToRel(<, Nat)
    BY Zenon, NatLessThanWellFounded, WFMin
  <1>2. \A y \in S : ~(y < x)
    BY Zenon, <1>1 DEF OpToRel
  <1>3. \A y \in S : x <= y
    BY <1>2
  <1> QED BY Zenon, <1>3 DEF Least

(* There are more numbers than goroutines to hold one.                     *)
LEMMA SomeNumberIsFree ==
    ASSUME NEW t \in Tenant
    PROVE  Unheld(t) \in Nat /\ Unheld(t) # 0
  <1> DEFINE N == Cardinality(Checker)
             taken(p, i) == proc[p].tenant = t /\ proc[p].ptr = i
             S == {i \in 1..(N + 1) : \A p \in Checker : ~taken(p, i)}
  <1>1. IsFiniteSet(Checker) /\ N \in Nat
    BY Zenon, MemoryAssumption, FS_CardinalityType
  <1>2. S # {}
    <2> SUFFICES ASSUME S = {} PROVE FALSE
      BY Zenon
    <2> DEFINE f == [i \in 1..(N + 1) |-> CHOOSE p \in Checker : taken(p, i)]
    <2>1. \A i \in 1..(N + 1) : \E p \in Checker : taken(p, i)
      BY Zenon
    <2>2. \A i \in 1..(N + 1) : f[i] \in Checker /\ taken(f[i], i)
      BY Zenon, <2>1
    <2>3. f \in [1..(N + 1) -> Checker]
      BY Zenon, <2>2
    <2>4. IsFiniteSet(1..(N + 1)) /\ Cardinality(1..(N + 1)) = N + 1
      BY <1>1, FS_Interval
    <2> HIDE DEF f
    <2>5. PICK i, j \in 1..(N + 1) : i # j /\ f[i] = f[j]
      BY <1>1, <2>3, <2>4, FS_PigeonHole
    <2> QED BY Zenon, <2>2, <2>5
  <1>3. S \subseteq Nat /\ 0 \notin S
    BY <1>1
  <1>4. Least(S) \in S
    BY Zenon, <1>2, <1>3, LeastIsIn
  <1> QED BY Zenon, <1>3, <1>4 DEF Unheld

(* A step of p that leaves alone what the other goroutines have locked.    *)
LEMMA OthersHold ==
    ASSUME MutexInv, NEW p \in Proc, NEW h \in ProcState, proc' = [proc EXCEPT ![p] = h],
           now' = now, obj' \in [Tenant -> Nat], mu' \in [Tenant -> Checker \cup {Nobody}],
           \A t \in Tenant : mu[t] # Nobody /\ mu[t] # p =>
               mu'[t] = mu[t] /\ (obj[t] # 0 => obj'[t] = obj[t]),
           p \in Checker => Holds(p)'
    PROVE  MutexInv'
  <1>1. MemType'
    BY Zenon DEF MutexInv, MemType
  <1>2. ASSUME NEW q \in Checker, q # p PROVE Holds(q)'
    <2>1. proc'[q] = proc[q] /\ Holds(q) /\ q # Nobody
      BY Zenon, <1>2, MemoryAssumption DEF MutexInv, MemType, Proc
    <2> QED BY Zenon, <2>1, <1>2 DEF Holds
  <1> QED BY Zenon, <1>1, <1>2 DEF MutexInv

(* The same when p itself is not past its lock.                            *)
LEMMA WithoutLock ==
    ASSUME MutexInv, NEW p \in Proc, NEW h \in ProcState, proc' = [proc EXCEPT ![p] = h],
           now' = now, obj' = obj, mu' = mu,
           p \in Checker /\ h.pc # "idle" => h.tenant \in Tenant,
           h.pc \notin {"lock", "locked", "commit"}
    PROVE  MutexInv'
  <1>1. proc'[p] = h
    BY Zenon DEF MutexInv, MemType
  <1>2. Holds(p)' \/ p \notin Checker
    BY Zenon, <1>1 DEF Holds
  <1> QED BY Zenon, <1>2, OthersHold DEF MutexInv, MemType

-----------------------------------------------------------------------------
LEMMA IdleState == Idle \in ProcState /\ Idle.pc = "idle"
  BY Zenon DEF Idle, ProcState

LEMMA BeginKeeps ==
    ASSUME MutexInv, NEW p \in Checker, NEW t \in Tenant, NEW lims \in LimitSets,
           NEW c \in Costs(lims), Begin(p, t, lims, c)
    PROVE  MutexInv'
  <1> DEFINE pc == IF keys + Cardinality(lims) > MaxKeys THEN "sweep" ELSE "clock"
             h == [Idle EXCEPT !.pc = pc, !.tenant = t, !.lims = lims, !.cost = c]
  <1>1. pc \in {"sweep", "clock"} /\ lims \in SUBSET Limits /\ c \in Nat
    BY MemoryAssumption DEF Costs
  <1>2. proc' = [proc EXCEPT ![p] = h] /\ UNCHANGED <<now, obj, mu>>
    BY Zenon DEF Begin
  <1> HIDE DEF pc
  <1>3. h \in ProcState /\ h.pc = pc /\ h.tenant = t
    BY Zenon, <1>1, IdleState DEF ProcState
  <1> HIDE DEF h
  <1> QED BY Zenon, <1>1, <1>2, <1>3, WithoutLock DEF Proc

LEMMA ReadClockKeeps ==
    ASSUME MutexInv, NEW p \in Checker, ReadClock(p)
    PROVE  MutexInv'
  <1> DEFINE h == [proc[p] EXCEPT !.pc = "lookup", !.at = now]
  <1>1. proc[p] \in ProcState /\ proc[p].tenant \in Tenant /\ now \in Nat
    BY Zenon DEF MutexInv, MemType, Holds, ReadClock, Proc
  <1>2. h \in ProcState /\ h.pc = "lookup" /\ h.tenant = proc[p].tenant
    BY Zenon, <1>1 DEF ProcState
  <1>3. proc' = [proc EXCEPT ![p] = h] /\ UNCHANGED <<now, obj, mu>>
    BY Zenon DEF ReadClock
  <1> HIDE DEF h
  <1> QED BY Zenon, <1>1, <1>2, <1>3, WithoutLock DEF Proc

LEMMA LookUpKeeps ==
    ASSUME MutexInv, NEW p \in Checker, LookUp(p)
    PROVE  MutexInv'
  <1> DEFINE t == proc[p].tenant
             i == IF obj[t] = 0 THEN Unheld(t) ELSE obj[t]
             h == [proc[p] EXCEPT !.pc = "lock", !.ptr = i]
  <1>1. proc[p] \in ProcState /\ t \in Tenant
    BY Zenon DEF MutexInv, MemType, Holds, LookUp, Proc
  <1>2. i \in Nat /\ i # 0
    BY Zenon, <1>1, SomeNumberIsFree DEF MutexInv, MemType
  <1>3. obj' = [obj EXCEPT ![t] = i] /\ UNCHANGED <<now, mu>>
    BY Zenon DEF LookUp
  <1>4. proc' = [proc EXCEPT ![p] = h]
    BY Zenon, <1>1, <1>3 DEF LookUp, MutexInv, MemType
  <1>5. obj[t] # 0 => i = obj[t]
    BY Zenon
  <1> HIDE DEF i
  <1>6. h \in ProcState /\ h.pc = "lock" /\ h.tenant = t /\ h.ptr = i
    BY Zenon, <1>1, <1>2 DEF ProcState
  <1> HIDE DEF h
  <1>7. proc'[p] = h
    BY Zenon, <1>4 DEF MutexInv, MemType, Proc
  <1>8. Holds(p)'
    BY Zenon, <1>1, <1>2, <1>6, <1>7 DEF Holds
  <1>9. /\ obj' \in [Tenant -> Nat] /\ mu' \in [Tenant -> Checker \cup {Nobody}]
        /\ \A u \in Tenant : obj[u] # 0 => obj'[u] = obj[u]
    BY Zenon, <1>1, <1>2, <1>3, <1>5 DEF MutexInv, MemType
  <1> QED BY Zenon, <1>3, <1>4, <1>6, <1>8, <1>9, OthersHold DEF Proc

LEMMA LockTenantKeeps ==
    ASSUME MutexInv, NEW p \in Checker, LockTenant(p)
    PROVE  MutexInv'
  <1> DEFINE t == proc[p].tenant
  <1>1. proc[p] \in ProcState /\ t \in Tenant /\ proc[p].ptr # 0
    BY Zenon DEF MutexInv, MemType, Holds, LockTenant, Proc
  <1>2. CASE obj[t] = proc[p].ptr
    <2> DEFINE h == [proc[p] EXCEPT !.pc = "locked"]
    <2>1. h \in ProcState /\ h.pc = "locked" /\ h.tenant = t /\ h.ptr = proc[p].ptr
      BY Zenon, <1>1 DEF ProcState
    <2>2. /\ mu[t] = Nobody /\ mu' = [mu EXCEPT ![t] = p]
          /\ proc' = [proc EXCEPT ![p] = h] /\ UNCHANGED <<now, obj>>
      BY Zenon, <1>2 DEF LockTenant
    <2> HIDE DEF h
    <2>3. proc'[p] = h
      BY Zenon, <2>2 DEF MutexInv, MemType, Proc
    <2>4. mu' \in [Tenant -> Checker \cup {Nobody}] /\ mu'[t] = p /\ obj' \in [Tenant -> Nat]
          /\ \A u \in Tenant : mu[u] # Nobody => mu'[u] = mu[u]
      BY Zenon, <1>1, <2>2 DEF MutexInv, MemType
    <2>5. Holds(p)'
      BY Zenon, <1>1, <1>2, <2>1, <2>2, <2>3, <2>4 DEF Holds
    <2> QED BY Zenon, <2>1, <2>2, <2>4, <2>5, OthersHold DEF Proc
  <1>3. CASE obj[t] # proc[p].ptr
    <2> DEFINE h == [proc[p] EXCEPT !.pc = "lookup", !.ptr = 0]
    <2>1. h \in ProcState /\ h.pc = "lookup" /\ h.tenant = t
      BY Zenon, <1>1 DEF ProcState
    <2>2. proc' = [proc EXCEPT ![p] = h] /\ UNCHANGED <<now, obj, mu>>
      BY Zenon, <1>3 DEF LockTenant
    <2> HIDE DEF h
    <2> QED BY Zenon, <1>1, <2>1, <2>2, WithoutLock DEF Proc
  <1> QED BY Zenon, <1>2, <1>3

(* p lets go of a mutex that is its own.                                   *)
LEMMA UnlockKeeps ==
    ASSUME MutexInv, NEW p \in Checker, proc[p].pc \in {"locked", "commit"}, Unlock(p),
           now' = now, obj' = obj
    PROVE  MutexInv'
  <1>1. proc[p].tenant \in Tenant /\ mu[proc[p].tenant] = p
    BY Zenon DEF MutexInv, Holds
  <1>2. /\ mu' \in [Tenant -> Checker \cup {Nobody}] /\ obj' \in [Tenant -> Nat]
        /\ \A u \in Tenant : mu[u] # p => mu'[u] = mu[u]
    BY Zenon, <1>1 DEF Unlock, MutexInv, MemType
  <1>3. proc' = [proc EXCEPT ![p] = Idle] /\ proc'[p] = Idle
    BY Zenon DEF Unlock, MutexInv, MemType, Proc
  <1>4. Holds(p)'
    BY Zenon, <1>3, IdleState DEF Holds
  <1> QED BY Zenon, <1>2, <1>3, <1>4, IdleState, OthersHold DEF Proc

LEMMA GrantKeeps ==
    ASSUME MutexInv, NEW p \in Checker, Grant(p)
    PROVE  MutexInv'
  <1> DEFINE h == [proc[p] EXCEPT !.pc = "commit"]
  <1>1. proc[p] \in ProcState /\ Holds(p) /\ proc[p].pc = "locked"
    BY Zenon DEF MutexInv, MemType, Grant, Proc
  <1>2. h \in ProcState /\ h.pc = "commit" /\ h.tenant = proc[p].tenant /\ h.ptr = proc[p].ptr
    BY Zenon, <1>1 DEF ProcState
  <1>3. proc' = [proc EXCEPT ![p] = h] /\ UNCHANGED <<now, obj, mu>>
    BY Zenon DEF Grant
  <1> HIDE DEF h
  <1>4. proc'[p] = h
    BY Zenon, <1>3 DEF MutexInv, MemType, Proc
  <1>5. Holds(p)'
    BY Zenon, <1>1, <1>2, <1>3, <1>4 DEF Holds
  <1> QED BY Zenon, <1>2, <1>3, <1>5, OthersHold DEF Proc, MutexInv, MemType

-----------------------------------------------------------------------------
(* The sweeps: p moves on without a tenant's mutex of its own, and touches *)
(* no tenantState whose mutex is taken.                                    *)
LEMMA SweepFromKeeps ==
    ASSUME MutexInv, NEW p \in Proc, SweepFrom(p), proc[p].pc # "idle" \/ p = Sweeper
    PROVE  MutexInv'
  <1> DEFINE h == [proc[p] EXCEPT !.pc = "shard", !.at = now, !.shard = 1]
  <1>1. proc[p] \in ProcState /\ now \in Nat
    BY Zenon DEF MutexInv, MemType
  <1>2. h \in ProcState /\ h.pc = "shard" /\ h.tenant = proc[p].tenant
    BY Zenon, <1>1 DEF ProcState
  <1>3. proc' = [proc EXCEPT ![p] = h] /\ UNCHANGED <<now, obj, mu>>
    BY Zenon DEF SweepFrom
  <1>4. p \in Checker => h.tenant \in Tenant
    BY Zenon, <1>2, MemoryAssumption DEF MutexInv, Holds
  <1> HIDE DEF h
  <1> QED BY Zenon, <1>2, <1>3, <1>4, WithoutLock

LEMMA SweepShardKeeps ==
    ASSUME MutexInv, NEW p \in Proc, SweepShard(p)
    PROVE  MutexInv'
  <1> DEFINE todo == {t \in Tenant : Shard[t] = proc[p].shard /\ obj[t] # 0}
             h == [proc[p] EXCEPT !.pc = "tenants", !.todo = todo]
  <1>1. proc[p] \in ProcState /\ proc[p].pc = "shard" /\ todo \in SUBSET Tenant
    BY Zenon DEF MutexInv, MemType, SweepShard
  <1>2. proc' = [proc EXCEPT ![p] = h] /\ UNCHANGED <<now, obj, mu>>
    BY Zenon DEF SweepShard
  <1> HIDE DEF todo
  <1>3. h \in ProcState /\ h.pc = "tenants" /\ h.tenant = proc[p].tenant
    BY Zenon, <1>1 DEF ProcState
  <1>4. p \in Checker => h.tenant \in Tenant
    BY Zenon, <1>1, <1>3 DEF MutexInv, Holds
  <1> HIDE DEF h
  <1> QED BY Zenon, <1>2, <1>3, <1>4, WithoutLock

LEMMA SweepTenantKeeps ==
    ASSUME MutexInv, NEW p \in Proc, NEW t \in Tenant, SweepTenant(p, t)
    PROVE  MutexInv'
  <1> DEFINE gone == Cardinality(Expired(p, t))
             with(rest, sum) == [proc[p] EXCEPT !.todo = rest, !.removed = sum]
             h == with(proc[p].todo \ {t}, proc[p].removed + gone)
  <1>1. proc[p] \in ProcState /\ proc[p].pc = "tenants" /\ mu[t] = Nobody
    BY Zenon DEF MutexInv, MemType, SweepTenant
  <1>2. gone \in Nat
    <2>1. IsFiniteSet({"bucket"} \cup {"window"})
      BY Zenon, FS_Singleton, FS_AddElement
    <2>2. Limits = {"bucket"} \cup {"window"} /\ Expired(p, t) \in SUBSET Limits
      BY Zenon DEF Expired, Limits
    <2> QED BY Zenon, <2>1, <2>2, FS_Subset, FS_CardinalityType
  <1>3. proc[p].todo \ {t} \in SUBSET Tenant /\ proc[p].removed + gone \in Nat
    BY <1>1, <1>2 DEF ProcState
  <1>4. proc' = [proc EXCEPT ![p] = h] /\ UNCHANGED <<now, mu>>
    <2>1. proc' = [proc EXCEPT ![p] = h]
      BY Zenon DEF SweepTenant
    <2> QED BY Zenon, <2>1 DEF SweepTenant
  <1>5. h \in ProcState /\ h.pc = "tenants" /\ h.tenant = proc[p].tenant
    <2>1. \A rest \in SUBSET Tenant, sum \in Nat :
              /\ with(rest, sum) \in ProcState /\ with(rest, sum).pc = "tenants"
              /\ with(rest, sum).tenant = proc[p].tenant
      BY Zenon, <1>1 DEF ProcState
    <2> HIDE DEF with, gone
    <2> QED BY Zenon, <1>3, <2>1
  <1>6. p \in Checker => h.tenant \in Tenant
    BY Zenon, <1>1, <1>5 DEF MutexInv, Holds
  <1> HIDE DEF h
  <1>7. proc'[p] = h
    BY Zenon, <1>4 DEF MutexInv, MemType
  <1>8. p \in Checker => Holds(p)'
    BY Zenon, <1>5, <1>6, <1>7 DEF Holds
  <1>9. \E x \in {0, obj[t]} : obj' = [obj EXCEPT ![t] = x]
    BY Zenon DEF SweepTenant
  <1>10. /\ obj' \in [Tenant -> Nat] /\ mu' \in [Tenant -> Checker \cup {Nobody}]
         /\ \A u \in Tenant : u # t => obj'[u] = obj[u]
    BY <1>4, <1>9 DEF MutexInv, MemType
  <1> QED BY Zenon, <1>1, <1>4, <1>5, <1>8, <1>10, OthersHold

LEMMA SweepNextKeeps ==
    ASSUME MutexInv, NEW p \in Proc, SweepNext(p)
    PROVE  MutexInv'
  <1> DEFINE s == proc[p].shard + 1
             h == [proc[p] EXCEPT !.pc = "shard", !.shard = s]
  <1>1. proc[p] \in ProcState /\ proc[p].pc = "tenants" /\ s \in Nat
    BY DEF MutexInv, MemType, SweepNext, ProcState
  <1>3. proc' = [proc EXCEPT ![p] = h] /\ UNCHANGED <<now, obj, mu>>
    BY Zenon DEF SweepNext
  <1> HIDE DEF s
  <1>2. h \in ProcState /\ h.pc = "shard" /\ h.tenant = proc[p].tenant
    BY Zenon, <1>1 DEF ProcState
  <1>4. p \in Checker => h.tenant \in Tenant
    BY Zenon, <1>1, <1>2 DEF MutexInv, Holds
  <1> HIDE DEF h
  <1> QED BY Zenon, <1>2, <1>3, <1>4, WithoutLock

LEMMA SweepEndKeeps ==
    ASSUME MutexInv, NEW p \in Proc, SweepEnd(p)
    PROVE  MutexInv'
  <1>1. CASE p = Sweeper
    BY Zenon, <1>1, IdleState, WithoutLock DEF SweepEnd
  <1>2. CASE p # Sweeper
    <2> DEFINE h == [proc[p] EXCEPT !.pc = "clock", !.at = 0, !.shard = 0, !.removed = 0]
    <2>1. proc[p] \in ProcState /\ proc[p].pc = "shard"
      BY Zenon DEF MutexInv, MemType, SweepEnd
    <2>2. h \in ProcState /\ h.pc = "clock" /\ h.tenant = proc[p].tenant
      BY Zenon, <2>1 DEF ProcState
    <2>3. proc' = [proc EXCEPT ![p] = h] /\ UNCHANGED <<now, obj, mu>>
      BY Zenon, <1>2 DEF SweepEnd
    <2>4. p \in Checker => h.tenant \in Tenant
      BY Zenon, <2>1, <2>2 DEF MutexInv, Holds
    <2> HIDE DEF h
    <2> QED BY Zenon, <2>2, <2>3, <2>4, WithoutLock
  <1> QED BY Zenon, <1>1, <1>2

-----------------------------------------------------------------------------
LEMMA MutexStarts == Init => MutexInv
  <1> SUFFICES ASSUME Init PROVE MutexInv
    BY Zenon
  <1>1. now \in Nat /\ obj \in [Tenant -> Nat]
    BY Zenon DEF Init
  <1>2. mu \in [Tenant -> Checker \cup {Nobody}] /\ proc \in [Proc -> ProcState]
    BY Zenon, IdleState DEF Init
  <1>3. ASSUME NEW p \in Checker PROVE Holds(p)
    BY Zenon, IdleState DEF Init, Holds, Proc
  <1> QED BY Zenon, <1>1, <1>2, <1>3 DEF MutexInv, MemType

LEMMA MutexStep == MutexInv /\ [Next]_vars => MutexInv'
  <1> SUFFICES ASSUME MutexInv, [Next]_vars PROVE MutexInv'
    BY Zenon
  <1>1. CASE Tick
    BY <1>1 DEF Tick, MutexInv, MemType, Holds
  <1>2. CASE SweepTimer
    BY Zenon, <1>2, SweepFromKeeps DEF SweepTimer, Proc
  <1>3. ASSUME NEW p \in Proc, SweepStep(p) PROVE MutexInv'
    <2>1. CASE SweepForRoom(p)
      BY Zenon, <2>1, SweepFromKeeps DEF SweepForRoom
    <2> QED BY Zenon, <1>3, <2>1, SweepShardKeeps, SweepTenantKeeps, SweepNextKeeps, SweepEndKeeps
            DEF SweepStep
  <1>4. ASSUME NEW p \in Checker, CheckStep(p) PROVE MutexInv'
    <2>1. CASE Refuse(p) \/ Commit(p)
      BY Zenon, <2>1, UnlockKeeps DEF Refuse, Commit
    <2> QED BY Zenon, <1>4, <2>1, ReadClockKeeps, LookUpKeeps, LockTenantKeeps, GrantKeeps
            DEF CheckStep
  <1>5. ASSUME NEW p \in Checker, NEW t \in Tenant, NEW lims \in LimitSets,
               NEW c \in Costs(lims), Begin(p, t, lims, c)
        PROVE  MutexInv'
    BY Zenon, <1>5, BeginKeeps
  <1>6. CASE UNCHANGED vars
    BY Zenon, <1>6 DEF vars, MutexInv, MemType, Holds
  <1> QED BY Zenon, <1>1, <1>2, <1>3, <1>4, <1>5, <1>6 DEF Next

(* A check that decides or commits holds the mutex of the tenantState the  *)
(* shard's map has, for any number of goroutines and sweeps: no charge is  *)
(* written to a detached tenantState, and no two checks of one tenant      *)
(* decide at once.                                                         *)
THEOREM NoChargeIsLost == Spec => []NoWriteLost
  <1>1. MutexInv => NoWriteLost
    BY Zenon DEF MutexInv, Holds, NoWriteLost
  <1> QED BY <1>1, MutexStarts, MutexStep, PTL DEF Spec

-----------------------------------------------------------------------------
(* The key count.  First what sets of pairs count.                         *)
Block(p, a, d) == {p} \X ((a + 1)..(a + d))

LEMMA BlockSize ==
    ASSUME NEW p, NEW a \in Nat, NEW d \in Nat
    PROVE  IsFiniteSet(Block(p, a, d)) /\ Cardinality(Block(p, a, d)) = d
  <1> DEFINE I == (a + 1)..(a + d)
  <1>1. IsFiniteSet(I) /\ Cardinality(I) = d
    <2>1. a + 1 \in Int /\ a + d \in Int
      OBVIOUS
    <2>2. IsFiniteSet(I) /\ Cardinality(I) = IF a + 1 > a + d THEN 0 ELSE (a + d) - (a + 1) + 1
      BY Zenon, <2>1, FS_Interval
    <2> HIDE DEF I
    <2> QED BY <2>2
  <1>2. IsFiniteSet({p}) /\ Cardinality({p}) = 1
    BY Zenon, FS_Singleton
  <1> HIDE DEF I
  <1>3. IsFiniteSet({p} \X I) /\ Cardinality({p} \X I) = 1 * d
    BY Zenon, <1>1, <1>2, FS_Product
  <1> QED BY <1>3 DEF I, Block

LEMMA Apart ==
    ASSUME NEW S, IsFiniteSet(S), NEW T, IsFiniteSet(T), S \cap T = {}
    PROVE  /\ IsFiniteSet(S \cup T)
           /\ Cardinality(S \cup T) = Cardinality(S) + Cardinality(T)
  <1>1. Cardinality(S \cup T) = Cardinality(S) + Cardinality(T) - Cardinality(S \cap T)
        /\ IsFiniteSet(S \cup T)
    BY Zenon, FS_Union
  <1>2. Cardinality(S \cap T) = 0
    BY Zenon, FS_EmptySet
  <1>3. Cardinality(S) \in Nat /\ Cardinality(T) \in Nat
    BY Zenon, FS_CardinalityType
  <1> QED BY <1>1, <1>2, <1>3

LEMMA AtMostBoth ==
    ASSUME NEW S, IsFiniteSet(S), NEW T, IsFiniteSet(T)
    PROVE  /\ IsFiniteSet(S \cup T)
           /\ Cardinality(S \cup T) <= Cardinality(S) + Cardinality(T)
           /\ Cardinality(S \cup T) \in Nat
  <1>1. Cardinality(S \cup T) = Cardinality(S) + Cardinality(T) - Cardinality(S \cap T)
        /\ IsFiniteSet(S \cup T)
    BY Zenon, FS_Union
  <1>2. IsFiniteSet(S \cap T)
    BY Zenon, FS_Intersection
  <1>3. Cardinality(S) \in Nat /\ Cardinality(T) \in Nat /\ Cardinality(S \cap T) \in Nat
    BY Zenon, <1>2, FS_CardinalityType
  <1> QED BY <1>1, <1>3, FS_CardinalityType

(* What sweeps owe the count, r[p] each.                                   *)
Owed(P, r) == UNION {{p} \X (1..r[p]) : p \in P}

LEMMA OwedMore ==
    ASSUME NEW P, NEW r \in [P -> Nat], NEW s \in [P -> Nat], NEW p \in P, NEW d \in Nat,
           s[p] = r[p] + d, \A q \in P : q # p => s[q] = r[q], IsFiniteSet(Owed(P, r))
    PROVE  IsFiniteSet(Owed(P, s)) /\ Cardinality(Owed(P, s)) = Cardinality(Owed(P, r)) + d
  <1> DEFINE a == r[p]
             B == Block(p, a, d)
  <1>1. a \in Nat
    BY Zenon
  <1>2. IsFiniteSet(B) /\ Cardinality(B) = d
    BY Zenon, <1>1, BlockSize
  <1>3. \A x : x \in Owed(P, r) <=> \E q \in P : x \in {q} \X (1..r[q])
    BY Zenon DEF Owed
  <1>4. \A x : x \in Owed(P, s) <=> \E q \in P : x \in {q} \X (1..s[q])
    BY Zenon DEF Owed
  <1>5. 1..s[p] = (1..r[p]) \cup ((a + 1)..(a + d)) /\ (1..r[p]) \cap ((a + 1)..(a + d)) = {}
    BY <1>1
  <1>6. Owed(P, s) = Owed(P, r) \cup B
    <2>1. ASSUME NEW x \in Owed(P, s) PROVE x \in Owed(P, r) \cup B
      <3>1. PICK q \in P : x \in {q} \X (1..s[q])
        BY Zenon, <1>4
      <3>2. CASE q # p
        BY Zenon, <1>3, <3>1, <3>2
      <3>3. CASE q = p
        <4>1. x \in {p} \X (1..r[p]) \/ x \in B
          BY Zenon, <1>5, <3>1, <3>3 DEF Block
        <4> QED BY Zenon, <1>3, <4>1
      <3> QED BY Zenon, <3>2, <3>3
    <2>2. ASSUME NEW x \in Owed(P, r) PROVE x \in Owed(P, s)
      <3>1. PICK q \in P : x \in {q} \X (1..r[q])
        BY Zenon, <1>3
      <3>2. {q} \X (1..r[q]) \subseteq {q} \X (1..s[q])
        BY Zenon, <1>5
      <3> QED BY Zenon, <1>4, <3>1, <3>2
    <2>3. ASSUME NEW x \in B PROVE x \in Owed(P, s)
      <3>1. x \in {p} \X (1..s[p])
        BY Zenon, <1>5 DEF Block
      <3> QED BY Zenon, <1>4, <3>1
    <2> QED BY Zenon, <2>1, <2>2, <2>3
  <1>7. Owed(P, r) \cap B = {}
    BY <1>3, <1>5 DEF Block
  <1> HIDE DEF B
  <1> QED BY <1>2, <1>6, <1>7, Apart

LEMMA OwedNothing ==
    ASSUME NEW P, NEW r \in [P -> Nat], NEW s \in [P -> Nat], NEW p \in P,
           s[p] = 0, \A q \in P : q # p => s[q] = r[q], IsFiniteSet(Owed(P, r))
    PROVE  IsFiniteSet(Owed(P, s)) /\ Cardinality(Owed(P, r)) = Cardinality(Owed(P, s)) + r[p]
  <1>1. Owed(P, s) \subseteq Owed(P, r)
    BY DEF Owed
  <1>2. IsFiniteSet(Owed(P, s))
    BY Zenon, <1>1, FS_Subset
  <1>3. r[p] = s[p] + r[p] /\ r[p] \in Nat
    OBVIOUS
  <1> QED BY Zenon, <1>2, <1>3, OwedMore

-----------------------------------------------------------------------------
(* What a goroutine has in hand.  A check keeps the clock reading it took  *)
(* until it is over; only a sweep owes the count anything.                 *)
Hand == {"lookup", "lock", "locked", "commit"}

ShapeOf(p, h) ==
    /\ h.at <= now
    /\ h.pc \notin {"shard", "tenants"} => h.removed = 0
    /\ p \in Checker /\ h.pc # "idle" => h.cost # 0 /\ h.lims \in LimitSets

ShapeInv ==
    /\ MutexInv
    /\ tat \in [Tenant -> Nat] /\ log \in [Tenant -> Seq(Nat)]
    /\ \A p \in Proc : ShapeOf(p, proc[p])

(* Most steps move one goroutine on and leave the counters alone.          *)
Quiet(p, h) ==
    /\ proc' = [proc EXCEPT ![p] = h]
    /\ now' = now /\ tat' = tat /\ log' = log /\ keys' = keys
    /\ admitted' = admitted /\ overtaken' = overtaken
    /\ h.removed = proc[p].removed
    /\ proc[p].pc # "commit" /\ h.pc # "commit"
    /\ ShapeOf(p, h)
    /\ h.pc \in Hand => \/ h.at = now
                        \/ proc[p].pc \in Hand /\ h.at = proc[p].at /\ h.tenant = proc[p].tenant

QuietStep == \E p \in Proc : \E h \in ProcState : Quiet(p, h)

LEMMA BeginQuiet ==
    ASSUME ShapeInv, NEW p \in Checker, NEW t \in Tenant, NEW lims \in LimitSets,
           NEW c \in Costs(lims), Begin(p, t, lims, c)
    PROVE  QuietStep
  <1> DEFINE pc == IF keys + Cardinality(lims) > MaxKeys THEN "sweep" ELSE "clock"
             h == [Idle EXCEPT !.pc = pc, !.tenant = t, !.lims = lims, !.cost = c]
  <1>0. p \in Proc
    BY Zenon DEF Proc
  <1>1. pc \in {"sweep", "clock"} /\ lims \in SUBSET Limits /\ c \in Nat /\ c # 0
    BY MemoryAssumption DEF Costs
  <1>2. /\ proc' = [proc EXCEPT ![p] = h] /\ proc[p].pc = "idle"
        /\ UNCHANGED <<now, tat, log, keys, admitted, overtaken>>
    BY Zenon DEF Begin
  <1> HIDE DEF pc
  <1>3. /\ h \in ProcState /\ h.pc = pc /\ h.at = 0 /\ h.removed = 0 /\ h.cost = c
        /\ h.lims = lims
    BY Zenon, <1>1, IdleState DEF ProcState, Idle
  <1> HIDE DEF h
  <1>4. proc[p].removed = 0 /\ now \in Nat
    BY Zenon, <1>0, <1>2 DEF ShapeInv, ShapeOf, MutexInv, MemType
  <1>5. ShapeOf(p, h)
    BY <1>1, <1>3, <1>4 DEF ShapeOf
  <1>6. Quiet(p, h)
    BY Zenon, <1>1, <1>2, <1>3, <1>4, <1>5 DEF Quiet, Hand
  <1> QED BY Zenon, <1>0, <1>3, <1>6 DEF QuietStep

LEMMA ReadClockQuiet ==
    ASSUME ShapeInv, NEW p \in Checker, ReadClock(p)
    PROVE  QuietStep
  <1> DEFINE h == [proc[p] EXCEPT !.pc = "lookup", !.at = now]
  <1>0. p \in Proc
    BY Zenon DEF Proc
  <1>1. proc[p] \in ProcState /\ now \in Nat /\ ShapeOf(p, proc[p])
    BY Zenon, <1>0 DEF ShapeInv, MutexInv, MemType
  <1>2. /\ proc' = [proc EXCEPT ![p] = h] /\ proc[p].pc = "clock"
        /\ UNCHANGED <<now, tat, log, keys, admitted, overtaken>>
    BY Zenon DEF ReadClock
  <1>3. /\ h \in ProcState /\ h.pc = "lookup" /\ h.at = now /\ h.removed = proc[p].removed
        /\ h.cost = proc[p].cost /\ h.lims = proc[p].lims
    BY Zenon, <1>1 DEF ProcState
  <1> HIDE DEF h
  <1>4. ShapeOf(p, h)
    BY <1>1, <1>2, <1>3 DEF ShapeOf
  <1>5. Quiet(p, h)
    BY Zenon, <1>2, <1>3, <1>4 DEF Quiet
  <1> QED BY Zenon, <1>0, <1>3, <1>5 DEF QuietStep

(* A check that moves on with what it has in hand.                         *)
LEMMA MovesOn ==
    ASSUME ShapeInv, NEW p \in Checker, NEW h \in ProcState, proc' = [proc EXCEPT ![p] = h],
           UNCHANGED <<now, tat, log, keys, admitted, overtaken>>,
           proc[p].pc \in {"lookup", "lock"}, h.pc \in {"lookup", "lock", "locked"},
           h.at = proc[p].at, h.tenant = proc[p].tenant, h.removed = proc[p].removed,
           h.cost = proc[p].cost, h.lims = proc[p].lims
    PROVE  QuietStep
  <1>0. p \in Proc
    BY Zenon DEF Proc
  <1>1. ShapeOf(p, proc[p])
    BY Zenon, <1>0 DEF ShapeInv
  <1>2. ShapeOf(p, h)
    BY Zenon, <1>1 DEF ShapeOf
  <1>3. Quiet(p, h)
    BY Zenon, <1>2 DEF Quiet, Hand
  <1> QED BY Zenon, <1>0, <1>3 DEF QuietStep

LEMMA LookUpQuiet ==
    ASSUME ShapeInv, NEW p \in Checker, LookUp(p)
    PROVE  QuietStep
  <1> DEFINE t == proc[p].tenant
             i == IF obj[t] = 0 THEN Unheld(t) ELSE obj[t]
             h == [proc[p] EXCEPT !.pc = "lock", !.ptr = i]
  <1>1. proc[p] \in ProcState /\ t \in Tenant /\ obj \in [Tenant -> Nat]
    BY Zenon DEF ShapeInv, MutexInv, MemType, Holds, LookUp, Proc
  <1>2. i \in Nat
    BY Zenon, <1>1, SomeNumberIsFree
  <1>3. obj' = [obj EXCEPT ![t] = i]
    BY Zenon DEF LookUp
  <1>4. proc' = [proc EXCEPT ![p] = h] /\ proc[p].pc = "lookup"
        /\ UNCHANGED <<now, tat, log, keys, admitted, overtaken>>
    BY Zenon, <1>1, <1>3 DEF LookUp
  <1> HIDE DEF i
  <1>5. /\ h \in ProcState /\ h.pc = "lock" /\ h.at = proc[p].at /\ h.tenant = t
        /\ h.removed = proc[p].removed /\ h.cost = proc[p].cost /\ h.lims = proc[p].lims
    BY Zenon, <1>1, <1>2 DEF ProcState
  <1> HIDE DEF h
  <1> QED BY Zenon, <1>4, <1>5, MovesOn

LEMMA LockTenantQuiet ==
    ASSUME ShapeInv, NEW p \in Checker, LockTenant(p)
    PROVE  QuietStep
  <1> DEFINE t == proc[p].tenant
             g == [proc[p] EXCEPT !.pc = "locked"]
             h == [proc[p] EXCEPT !.pc = "lookup", !.ptr = 0]
  <1>1. proc[p] \in ProcState /\ proc[p].pc = "lock"
    BY Zenon DEF ShapeInv, MutexInv, MemType, LockTenant, Proc
  <1>2. /\ proc' = [proc EXCEPT ![p] = g] \/ proc' = [proc EXCEPT ![p] = h]
        /\ UNCHANGED <<now, tat, log, keys, admitted, overtaken>>
    BY Zenon DEF LockTenant
  <1>3. /\ g \in ProcState /\ g.pc = "locked" /\ g.at = proc[p].at /\ g.tenant = t
        /\ g.removed = proc[p].removed /\ g.cost = proc[p].cost /\ g.lims = proc[p].lims
    BY Zenon, <1>1 DEF ProcState
  <1>4. /\ h \in ProcState /\ h.pc = "lookup" /\ h.at = proc[p].at /\ h.tenant = t
        /\ h.removed = proc[p].removed /\ h.cost = proc[p].cost /\ h.lims = proc[p].lims
    BY Zenon, <1>1 DEF ProcState
  <1> HIDE DEF g, h
  <1> QED BY Zenon, <1>1, <1>2, <1>3, <1>4, MovesOn

LEMMA RefuseQuiet ==
    ASSUME ShapeInv, NEW p \in Checker, Refuse(p)
    PROVE  QuietStep
  <1>0. p \in Proc
    BY Zenon DEF Proc
  <1>1. now \in Nat /\ ShapeOf(p, proc[p]) /\ proc[p].pc = "locked"
    BY Zenon, <1>0 DEF ShapeInv, MutexInv, MemType, Refuse
  <1>2. proc' = [proc EXCEPT ![p] = Idle]
        /\ UNCHANGED <<now, tat, log, keys, admitted, overtaken>>
    BY Zenon DEF Refuse, Unlock
  <1>3. Idle \in ProcState /\ Idle.pc = "idle" /\ Idle.at = 0 /\ Idle.removed = 0
    BY Zenon, IdleState DEF Idle
  <1>4. ShapeOf(p, Idle) /\ Idle.removed = proc[p].removed
    BY <1>1, <1>3 DEF ShapeOf
  <1>5. Quiet(p, Idle)
    BY Zenon, <1>1, <1>2, <1>3, <1>4 DEF Quiet, Hand
  <1> QED BY Zenon, <1>0, <1>3, <1>5 DEF QuietStep

LEMMA SweepFromQuiet ==
    ASSUME ShapeInv, NEW p \in Proc, SweepFrom(p), proc[p].pc = "sweep" \/ p = Sweeper,
           proc[p].pc \in {"idle", "sweep"}
    PROVE  QuietStep
  <1> DEFINE h == [proc[p] EXCEPT !.pc = "shard", !.at = now, !.shard = 1]
  <1>1. proc[p] \in ProcState /\ now \in Nat /\ ShapeOf(p, proc[p])
    BY Zenon DEF ShapeInv, MutexInv, MemType
  <1>2. /\ proc' = [proc EXCEPT ![p] = h]
        /\ UNCHANGED <<now, tat, log, keys, admitted, overtaken>>
    BY Zenon DEF SweepFrom
  <1>3. /\ h \in ProcState /\ h.pc = "shard" /\ h.at = now /\ h.removed = proc[p].removed
        /\ h.cost = proc[p].cost /\ h.lims = proc[p].lims
    BY Zenon, <1>1 DEF ProcState
  <1> HIDE DEF h
  <1>4. p = Sweeper => p \notin Checker
    BY Zenon, MemoryAssumption
  <1>5. ShapeOf(p, h)
    BY <1>1, <1>3, <1>4 DEF ShapeOf
  <1>6. Quiet(p, h)
    BY Zenon, <1>1, <1>2, <1>3, <1>5 DEF Quiet, Hand
  <1> QED BY Zenon, <1>3, <1>6 DEF QuietStep

(* A sweep that moves on with what it owes.                                *)
LEMMA SweepsOn ==
    ASSUME ShapeInv, NEW p \in Proc, NEW h \in ProcState, proc' = [proc EXCEPT ![p] = h],
           UNCHANGED <<now, tat, log, keys, admitted, overtaken>>,
           proc[p].pc \in {"shard", "tenants"}, h.pc \in {"shard", "tenants"},
           h.at = proc[p].at, h.removed = proc[p].removed, h.cost = proc[p].cost,
           h.lims = proc[p].lims
    PROVE  QuietStep
  <1>1. ShapeOf(p, proc[p])
    BY Zenon DEF ShapeInv
  <1>2. ShapeOf(p, h)
    BY Zenon, <1>1 DEF ShapeOf
  <1>3. Quiet(p, h)
    BY Zenon, <1>2 DEF Quiet, Hand
  <1> QED BY Zenon, <1>3 DEF QuietStep

LEMMA SweepShardQuiet ==
    ASSUME ShapeInv, NEW p \in Proc, SweepShard(p)
    PROVE  QuietStep
  <1> DEFINE todo == {t \in Tenant : Shard[t] = proc[p].shard /\ obj[t] # 0}
             h == [proc[p] EXCEPT !.pc = "tenants", !.todo = todo]
  <1>1. proc[p] \in ProcState /\ proc[p].pc = "shard" /\ todo \in SUBSET Tenant
    BY Zenon DEF ShapeInv, MutexInv, MemType, SweepShard
  <1>2. /\ proc' = [proc EXCEPT ![p] = h]
        /\ UNCHANGED <<now, tat, log, keys, admitted, overtaken>>
    BY Zenon DEF SweepShard
  <1> HIDE DEF todo
  <1>3. /\ h \in ProcState /\ h.pc = "tenants" /\ h.at = proc[p].at
        /\ h.removed = proc[p].removed /\ h.cost = proc[p].cost /\ h.lims = proc[p].lims
    BY Zenon, <1>1 DEF ProcState
  <1> HIDE DEF h
  <1> QED BY Zenon, <1>1, <1>2, <1>3, SweepsOn

LEMMA SweepNextQuiet ==
    ASSUME ShapeInv, NEW p \in Proc, SweepNext(p)
    PROVE  QuietStep
  <1> DEFINE s == proc[p].shard + 1
             h == [proc[p] EXCEPT !.pc = "shard", !.shard = s]
  <1>1. proc[p] \in ProcState /\ proc[p].pc = "tenants" /\ s \in Nat
    BY DEF ShapeInv, MutexInv, MemType, SweepNext, ProcState
  <1>2. /\ proc' = [proc EXCEPT ![p] = h]
        /\ UNCHANGED <<now, tat, log, keys, admitted, overtaken>>
    BY Zenon DEF SweepNext
  <1> HIDE DEF s
  <1>3. /\ h \in ProcState /\ h.pc = "shard" /\ h.at = proc[p].at
        /\ h.removed = proc[p].removed /\ h.cost = proc[p].cost /\ h.lims = proc[p].lims
    BY Zenon, <1>1 DEF ProcState
  <1> HIDE DEF h
  <1> QED BY Zenon, <1>1, <1>2, <1>3, SweepsOn

(* The others are these.                                                   *)
LEMMA StepKinds ==
    ASSUME ShapeInv, [Next]_vars
    PROVE  \/ Tick \/ QuietStep \/ UNCHANGED vars
           \/ \E p \in Checker : Grant(p) \/ Commit(p)
           \/ \E p \in Proc : SweepEnd(p) \/ \E t \in Tenant : SweepTenant(p, t)
  <1>1. CASE SweepTimer
    BY Zenon, <1>1, SweepFromQuiet DEF SweepTimer, Proc
  <1>2. ASSUME NEW p \in Proc, SweepStep(p)
        PROVE  QuietStep \/ SweepEnd(p) \/ \E t \in Tenant : SweepTenant(p, t)
    <2>1. CASE SweepForRoom(p)
      BY Zenon, <2>1, SweepFromQuiet DEF SweepForRoom
    <2> QED BY Zenon, <1>2, <2>1, SweepShardQuiet, SweepNextQuiet DEF SweepStep
  <1>3. ASSUME NEW p \in Checker, CheckStep(p)
        PROVE  QuietStep \/ Grant(p) \/ Commit(p)
    BY Zenon, <1>3, ReadClockQuiet, LookUpQuiet, LockTenantQuiet, RefuseQuiet DEF CheckStep
  <1>4. ASSUME NEW p \in Checker, NEW t \in Tenant, NEW lims \in LimitSets,
               NEW c \in Costs(lims), Begin(p, t, lims, c)
        PROVE  QuietStep
    BY Zenon, <1>4, BeginQuiet
  <1> QED BY Zenon, <1>1, <1>2, <1>3, <1>4 DEF Next

(* windowCheck drops entries that have aged out, only from the front and   *)
(* up to the first that has not.                                           *)
LEMMA Pruned ==
    ASSUME NEW l \in Seq(Nat), NEW t \in Nat
    PROVE  \E k \in 1..(Len(l) + 1) : /\ Prune(l, t) = SubSeq(l, k, Len(l))
                                      /\ \A i \in 1..(k - 1) : l[i] <= t - Period
                                      /\ k <= Len(l) => l[k] > t - Period
  <1> DEFINE n == Len(l)
             live == {i \in DOMAIN l : l[i] > t - Period}
  <1>1. n \in Nat /\ DOMAIN l = 1..n /\ \A i \in 1..n : l[i] \in Nat
    OBVIOUS
  <1>2. Period \in Nat
    BY Zenon, MemoryAssumption
  <1>3. CASE live = {}
    <2>1. Prune(l, t) = <<>>
      BY Zenon, <1>3 DEF Prune
    <2>2. SubSeq(l, n + 1, n) = <<>>
      BY <1>1
    <2>3. \A i \in 1..((n + 1) - 1) : l[i] <= t - Period
      BY <1>1, <1>2, <1>3
    <2>4. n + 1 \in 1..(n + 1) /\ ~(n + 1 <= n)
      BY <1>1
    <2> QED BY Zenon, <2>1, <2>2, <2>3, <2>4
  <1>4. CASE live # {}
    <2> DEFINE k == Least(live)
    <2>1. live \subseteq Nat
      BY <1>1
    <2>3. k \in live /\ \A y \in live : k <= y
      BY Zenon, <1>4, <2>1, LeastIsIn
    <2>4. Prune(l, t) = SubSeq(l, k, n)
      BY Zenon, <1>4 DEF Prune
    <2> HIDE DEF k
    <2>5. k \in 1..n /\ k \in 1..(n + 1)
      BY <1>1, <2>3
    <2>6. ASSUME NEW i \in 1..(k - 1) PROVE l[i] <= t - Period
      <3>1. i \in 1..n /\ ~(k <= i)
        BY <1>1, <2>5
      <3>2. i \notin live
        BY Zenon, <2>3, <3>1
      <3>3. ~(l[i] > t - Period) /\ l[i] \in Nat
        BY Zenon, <1>1, <3>1, <3>2
      <3> QED BY <1>2, <3>3
    <2>7. l[k] > t - Period
      BY Zenon, <2>3
    <2> QED BY Zenon, <2>4, <2>5, <2>6, <2>7
  <1> QED BY Zenon, <1>3, <1>4

(* What the four others do to the goroutine that takes them.               *)
LEMMA GrantMoves ==
    ASSUME ShapeInv, NEW p \in Checker, Grant(p)
    PROVE  \E h \in ProcState :
             /\ proc' = [proc EXCEPT ![p] = h] /\ proc[p].pc = "locked" /\ h.pc = "commit"
             /\ h.at = proc[p].at /\ h.tenant = proc[p].tenant /\ h.removed = proc[p].removed
             /\ h.cost = proc[p].cost /\ h.lims = proc[p].lims
             /\ UNCHANGED <<now, tat, log, keys, admitted, overtaken>>
  <1> DEFINE h == [proc[p] EXCEPT !.pc = "commit"]
  <1>1. proc[p] \in ProcState /\ proc[p].pc = "locked"
    BY Zenon DEF ShapeInv, MutexInv, MemType, Grant, Proc
  <1>2. /\ h \in ProcState /\ h.pc = "commit" /\ h.at = proc[p].at /\ h.tenant = proc[p].tenant
        /\ h.removed = proc[p].removed /\ h.cost = proc[p].cost /\ h.lims = proc[p].lims
    BY Zenon, <1>1 DEF ProcState
  <1>3. proc' = [proc EXCEPT ![p] = h] /\ UNCHANGED <<now, tat, log, keys, admitted, overtaken>>
    BY Zenon DEF Grant
  <1> HIDE DEF h
  <1> QED BY Zenon, <1>1, <1>2, <1>3

LEMMA FewLimits ==
    ASSUME NEW S \in SUBSET Limits
    PROVE  IsFiniteSet(S) /\ Cardinality(S) \in Nat /\ Cardinality(S) <= 2
  <1>1. IsFiniteSet({"bucket"}) /\ Cardinality({"bucket"}) = 1
    BY Zenon, FS_Singleton
  <1>2. /\ IsFiniteSet({"bucket"} \cup {"window"})
        /\ Cardinality({"bucket"} \cup {"window"}) = 2
    BY <1>1, FS_AddElement
  <1>3. Limits = {"bucket"} \cup {"window"}
    BY Zenon DEF Limits
  <1> QED BY Zenon, <1>2, <1>3, FS_Subset, FS_CardinalityType

LEMMA SweepTenantMoves ==
    ASSUME ShapeInv, NEW p \in Proc, NEW t \in Tenant, SweepTenant(p, t)
    PROVE  \E h \in ProcState :
             /\ proc' = [proc EXCEPT ![p] = h] /\ proc[p].pc = "tenants" /\ h.pc = "tenants"
             /\ h.at = proc[p].at /\ h.removed = proc[p].removed + Cardinality(Expired(p, t))
             /\ h.cost = proc[p].cost /\ h.lims = proc[p].lims
             /\ now' = now /\ keys' = keys
  <1> DEFINE gone == Cardinality(Expired(p, t))
             with(rest, sum) == [proc[p] EXCEPT !.todo = rest, !.removed = sum]
             h == with(proc[p].todo \ {t}, proc[p].removed + gone)
  <1>1. proc[p] \in ProcState /\ proc[p].pc = "tenants"
    BY Zenon DEF ShapeInv, MutexInv, MemType, SweepTenant
  <1>2. gone \in Nat
    <2>1. Expired(p, t) \in SUBSET Limits
      BY Zenon DEF Expired
    <2> QED BY Zenon, <2>1, FewLimits
  <1>3. proc[p].todo \ {t} \in SUBSET Tenant /\ proc[p].removed + gone \in Nat
    BY <1>1, <1>2 DEF ProcState
  <1>4. proc' = [proc EXCEPT ![p] = h]
    BY Zenon DEF SweepTenant
  <1>5. now' = now /\ keys' = keys
    BY Zenon DEF SweepTenant
  <1>6. /\ h \in ProcState /\ h.pc = "tenants" /\ h.at = proc[p].at
        /\ h.removed = proc[p].removed + gone /\ h.cost = proc[p].cost /\ h.lims = proc[p].lims
    <2>1. \A rest \in SUBSET Tenant, sum \in Nat :
              /\ with(rest, sum) \in ProcState /\ with(rest, sum).pc = "tenants"
              /\ with(rest, sum).at = proc[p].at /\ with(rest, sum).removed = sum
              /\ with(rest, sum).cost = proc[p].cost /\ with(rest, sum).lims = proc[p].lims
      BY Zenon, <1>1 DEF ProcState
    <2> HIDE DEF with, gone
    <2> QED BY Zenon, <1>3, <2>1
  <1> HIDE DEF h
  <1> QED BY Zenon, <1>1, <1>4, <1>5, <1>6

LEMMA SweepEndMoves ==
    ASSUME ShapeInv, NEW p \in Proc, SweepEnd(p)
    PROVE  \E h \in ProcState :
             /\ proc' = [proc EXCEPT ![p] = h] /\ proc[p].pc = "shard"
             /\ h.pc \in {"idle", "clock"} /\ h.at = 0 /\ h.removed = 0
             /\ p \in Checker => h.cost = proc[p].cost /\ h.lims = proc[p].lims
             /\ keys' = keys - proc[p].removed
             /\ UNCHANGED <<now, tat, log, admitted, overtaken>>
  <1>1. proc[p] \in ProcState /\ proc[p].pc = "shard" /\ keys' = keys - proc[p].removed
        /\ UNCHANGED <<now, tat, log, admitted, overtaken>>
    BY Zenon DEF ShapeInv, MutexInv, MemType, SweepEnd
  <1>2. CASE p = Sweeper
    <2>1. Idle \in ProcState /\ Idle.pc = "idle" /\ Idle.at = 0 /\ Idle.removed = 0
      BY Zenon, IdleState DEF Idle
    <2>2. proc' = [proc EXCEPT ![p] = Idle] /\ p \notin Checker
      BY Zenon, <1>2, MemoryAssumption DEF SweepEnd
    <2> QED BY Zenon, <1>1, <2>1, <2>2
  <1>3. CASE p # Sweeper
    <2> DEFINE h == [proc[p] EXCEPT !.pc = "clock", !.at = 0, !.shard = 0, !.removed = 0]
    <2>1. /\ h \in ProcState /\ h.pc = "clock" /\ h.at = 0 /\ h.removed = 0
          /\ h.cost = proc[p].cost /\ h.lims = proc[p].lims
      BY Zenon, <1>1 DEF ProcState
    <2>2. proc' = [proc EXCEPT ![p] = h]
      BY Zenon, <1>3 DEF SweepEnd
    <2> HIDE DEF h
    <2> QED BY Zenon, <1>1, <2>1, <2>2
  <1> QED BY Zenon, <1>2, <1>3

LEMMA CommitMoves ==
    ASSUME ShapeInv, NEW p \in Checker, Commit(p)
    PROVE  /\ proc' = [proc EXCEPT ![p] = Idle] /\ proc[p].pc = "commit" /\ now' = now
           /\ keys' = keys + Fresh(proc[p].tenant, proc[p].lims)
           /\ proc[p].tenant \in Tenant /\ proc[p].lims \in LimitSets
           /\ proc[p].lims \in SUBSET Limits
           /\ proc[p].cost \in Nat /\ proc[p].cost # 0 /\ proc[p].at \in Nat
  <1>0. p \in Proc
    BY Zenon DEF Proc
  <1>1. proc[p] \in ProcState /\ ShapeOf(p, proc[p]) /\ Holds(p)
    BY Zenon, <1>0 DEF ShapeInv, MutexInv, MemType
  <1>2. /\ proc[p].pc = "commit" /\ now' = now /\ Unlock(p)
        /\ keys' = keys + Fresh(proc[p].tenant, proc[p].lims)
    BY DEF Commit
  <1>3. proc' = [proc EXCEPT ![p] = Idle]
    BY Zenon, <1>2 DEF Unlock
  <1>4. /\ proc[p].tenant \in Tenant /\ proc[p].lims \in LimitSets /\ proc[p].cost # 0
    BY Zenon, <1>1, <1>2 DEF ShapeOf, Holds
  <1>5. proc[p].cost \in Nat /\ proc[p].at \in Nat /\ proc[p].lims \in SUBSET Limits
    BY Zenon, <1>1 DEF ProcState
  <1> QED BY Zenon, <1>2, <1>3, <1>4, <1>5

(* Copies of one reading at the end of a log.                              *)
LEMMA Extended ==
    ASSUME NEW l \in Seq(Nat), NEW t \in Nat, NEW c \in Nat
    PROVE  LET m == l \o [i \in 1..c |-> t]
           IN  /\ m \in Seq(Nat) /\ Len(m) = Len(l) + c /\ DOMAIN m = 1..(Len(l) + c)
               /\ \A i \in 1..Len(l) : m[i] = l[i]
               /\ \A i \in (Len(l) + 1)..(Len(l) + c) : m[i] = t
  <1> DEFINE a == [i \in 1..c |-> t]
             m == l \o a
  <1>1. a \in Seq(Nat) /\ Len(a) = c /\ \A i \in 1..c : a[i] = t
    OBVIOUS
  <1> HIDE DEF a
  <1>2. m \in Seq(Nat) /\ Len(m) = Len(l) + c
    BY <1>1
  <1>3. ASSUME NEW i \in 1..Len(l) PROVE m[i] = l[i]
    BY <1>1
  <1>4. ASSUME NEW i \in (Len(l) + 1)..(Len(l) + c) PROVE m[i] = t
    <2>1. i - Len(l) \in 1..c /\ m[i] = a[i - Len(l)]
      BY <1>1
    <2> QED BY Zenon, <1>1, <2>1
  <1> HIDE DEF m
  <1>5. DOMAIN m = 1..(Len(l) + c)
    BY <1>2
  <1> QED BY Zenon, <1>2, <1>3, <1>4, <1>5 DEF m, a

LEMMA Charged ==
    ASSUME NEW l \in Seq(Nat), NEW t \in Nat, NEW c \in Nat, c # 0
    PROVE  LET m == WindowNext(l, t, c)
           IN  m \in Seq(Nat) /\ m # <<>> /\ Len(m) = Len(Prune(l, t)) + c /\ m[Len(m)] = t
  <1> DEFINE k == Prune(l, t)
             m == k \o [i \in 1..c |-> t]
  <1>1. k \in Seq(Nat)
    <2>1. PICK j \in 1..(Len(l) + 1) : k = SubSeq(l, j, Len(l))
      BY Zenon, Pruned
    <2>2. SubSeq(l, j, Len(l)) \in Seq(Nat)
      OBVIOUS
    <2> QED BY Zenon, <2>1, <2>2
  <1> HIDE DEF k
  <1>2. /\ m \in Seq(Nat) /\ Len(m) = Len(k) + c
        /\ \A i \in (Len(k) + 1)..(Len(k) + c) : m[i] = t
    BY <1>1, Extended
  <1> HIDE DEF m
  <1>3. Len(k) \in Nat
    BY <1>1
  <1>4. Len(m) \in (Len(k) + 1)..(Len(k) + c) /\ Len(m) # 0
    BY <1>2, <1>3
  <1>5. m # <<>>
    BY <1>4
  <1>6. m = WindowNext(l, t, c)
    BY Zenon DEF m, k, WindowNext
  <1> QED BY Zenon, <1>2, <1>4, <1>5, <1>6 DEF k

LEMMA CommitCharges ==
    ASSUME ShapeInv, NEW p \in Checker, Commit(p)
    PROVE  LET t == proc[p].tenant
               at == proc[p].at
               c == proc[p].cost
               lims == proc[p].lims
           IN  /\ tat' \in [Tenant -> Nat] /\ log' \in [Tenant -> Seq(Nat)]
               /\ \A u \in Tenant : u # t => tat'[u] = tat[u] /\ log'[u] = log[u]
               /\ "bucket" \in lims => tat'[t] = BucketNext(tat[t], at, c) /\ tat'[t] # 0
               /\ "bucket" \notin lims => tat'[t] = tat[t]
               /\ "window" \in lims => log'[t] = WindowNext(log[t], at, c) /\ log'[t] # <<>>
               /\ "window" \notin lims => log'[t] = log[t]
  <1> DEFINE t == proc[p].tenant
             at == proc[p].at
             c == proc[p].cost
             lims == proc[p].lims
             a == BucketNext(tat[t], at, c)
             m == WindowNext(log[t], at, c)
  <1>1. t \in Tenant /\ at \in Nat /\ c \in Nat /\ c # 0
    BY Zenon, CommitMoves
  <1>2. tat \in [Tenant -> Nat] /\ log \in [Tenant -> Seq(Nat)]
    BY Zenon DEF ShapeInv
  <1>3. tat' = IF "bucket" \in lims THEN [tat EXCEPT ![t] = a] ELSE tat
    BY Zenon DEF Commit
  <1>4. log' = IF "window" \in lims THEN [log EXCEPT ![t] = m] ELSE log
    BY DEF Commit
  <1> HIDE DEF t, at, c, lims
  <1>5. a \in Nat /\ a # 0
    <2>1. tat[t] \in Nat /\ Emission \in Nat /\ Emission # 0
      BY Zenon, <1>1, <1>2, MemoryAssumption
    <2>2. Emission * c \in Nat /\ Emission * c # 0
      BY <1>1, <2>1
    <2>3. Greatest(tat[t], at) \in Nat
      BY Zenon, <1>1, <2>1 DEF Greatest
    <2> QED BY <2>2, <2>3 DEF BucketNext
  <1>6. m \in Seq(Nat) /\ m # <<>>
    BY Zenon, <1>1, <1>2, Charged
  <1> HIDE DEF a, m
  <1>7. /\ tat' \in [Tenant -> Nat] /\ \A u \in Tenant : u # t => tat'[u] = tat[u]
        /\ "bucket" \in lims => tat'[t] = a
        /\ "bucket" \notin lims => tat'[t] = tat[t]
    BY Zenon, <1>1, <1>2, <1>3, <1>5
  <1>8. /\ log' \in [Tenant -> Seq(Nat)] /\ \A u \in Tenant : u # t => log'[u] = log[u]
        /\ "window" \in lims => log'[t] = m
        /\ "window" \notin lims => log'[t] = log[t]
    BY Zenon, <1>1, <1>2, <1>4, <1>6
  <1> QED BY Zenon, <1>5, <1>6, <1>7, <1>8 DEF t, at, c, lims, a, m

LEMMA SweepTenantDrops ==
    ASSUME ShapeInv, NEW p \in Proc, NEW t \in Tenant, SweepTenant(p, t)
    PROVE  LET dead == Expired(p, t)
           IN  /\ tat' \in [Tenant -> Nat] /\ log' \in [Tenant -> Seq(Nat)]
               /\ \A u \in Tenant : u # t => tat'[u] = tat[u] /\ log'[u] = log[u]
               /\ tat'[t] = IF "bucket" \in dead THEN 0 ELSE tat[t]
               /\ log'[t] = IF "window" \in dead THEN <<>> ELSE log[t]
  <1> DEFINE dead == Expired(p, t)
  <1>2. tat \in [Tenant -> Nat] /\ log \in [Tenant -> Seq(Nat)]
    BY Zenon DEF ShapeInv
  <1>3. tat' = [tat EXCEPT ![t] = IF "bucket" \in dead THEN 0 ELSE tat[t]]
    BY Zenon DEF SweepTenant
  <1>4. log' = [log EXCEPT ![t] = IF "window" \in dead THEN <<>> ELSE log[t]]
    BY Zenon DEF SweepTenant
  <1> HIDE DEF dead
  <1>5. /\ tat' \in [Tenant -> Nat] /\ \A u \in Tenant : u # t => tat'[u] = tat[u]
        /\ tat'[t] = IF "bucket" \in dead THEN 0 ELSE tat[t]
    BY Zenon, <1>2, <1>3
  <1>6. /\ log' \in [Tenant -> Seq(Nat)] /\ \A u \in Tenant : u # t => log'[u] = log[u]
        /\ log'[t] = IF "window" \in dead THEN <<>> ELSE log[t]
    BY <1>2, <1>4
  <1> QED BY Zenon, <1>5, <1>6 DEF dead

LEMMA ShapeStarts == Init => ShapeInv
  <1> SUFFICES ASSUME Init PROVE ShapeInv
    BY Zenon
  <1>1. MutexInv
    BY Zenon, MutexStarts
  <1>2. tat \in [Tenant -> Nat] /\ log \in [Tenant -> Seq(Nat)]
    BY DEF Init
  <1>3. Idle.pc = "idle" /\ Idle.at = 0 /\ Idle.removed = 0
    BY Zenon DEF Idle
  <1>4. ASSUME NEW p \in Proc PROVE ShapeOf(p, proc[p])
    <2>1. proc[p] = Idle /\ now = 1
      BY Zenon DEF Init
    <2> QED BY <1>3, <2>1 DEF ShapeOf
  <1> QED BY Zenon, <1>1, <1>2, <1>4 DEF ShapeInv

(* The shape of the others does not depend on what p does.                 *)
LEMMA ShapeOfOne ==
    ASSUME ShapeInv, MutexInv', NEW p \in Proc, NEW h \in ProcState, now' = now,
           proc' = [proc EXCEPT ![p] = h], ShapeOf(p, h),
           tat' \in [Tenant -> Nat], log' \in [Tenant -> Seq(Nat)]
    PROVE  ShapeInv'
  <1>1. ASSUME NEW q \in Proc PROVE ShapeOf(q, proc[q])'
    <2>1. proc \in [Proc -> ProcState]
      BY Zenon DEF ShapeInv, MutexInv, MemType
    <2>2. proc'[q] = IF q = p THEN h ELSE proc[q]
      BY Zenon, <2>1
    <2>3. ShapeOf(q, proc[q])
      BY Zenon DEF ShapeInv
    <2> QED BY Zenon, <2>2, <2>3 DEF ShapeOf
  <1> QED BY Zenon, <1>1 DEF ShapeInv

LEMMA ShapeStep == ShapeInv /\ [Next]_vars => ShapeInv'
  <1> SUFFICES ASSUME ShapeInv, [Next]_vars PROVE ShapeInv'
    BY Zenon
  <1>0. MutexInv' /\ tat \in [Tenant -> Nat] /\ log \in [Tenant -> Seq(Nat)]
    BY Zenon, MutexStep DEF ShapeInv
  <1>1. CASE Tick
    <2>1. now' = now + 1 /\ now \in Nat /\ proc' = proc /\ tat' = tat /\ log' = log
      BY Zenon, <1>1 DEF Tick, ShapeInv, MutexInv, MemType
    <2>2. ASSUME NEW q \in Proc PROVE ShapeOf(q, proc[q])'
      <3>1. ShapeOf(q, proc[q]) /\ proc[q] \in ProcState
        BY Zenon DEF ShapeInv, MutexInv, MemType
      <3>2. proc[q].at \in Nat
        BY Zenon, <3>1 DEF ProcState
      <3> QED BY <2>1, <3>1, <3>2 DEF ShapeOf
    <2> QED BY Zenon, <1>0, <2>1, <2>2 DEF ShapeInv
  <1>2. CASE QuietStep
    <2>1. PICK p \in Proc, h \in ProcState : Quiet(p, h)
      BY Zenon, <1>2 DEF QuietStep
    <2>2. /\ proc' = [proc EXCEPT ![p] = h] /\ now' = now /\ tat' = tat /\ log' = log
          /\ ShapeOf(p, h)
      BY Zenon, <2>1 DEF Quiet
    <2> QED BY Zenon, <1>0, <2>2, ShapeOfOne
  <1>3. CASE UNCHANGED vars
    <2>1. now' = now /\ proc' = proc /\ tat' = tat /\ log' = log
      BY Zenon, <1>3 DEF vars
    <2>2. ASSUME NEW q \in Proc PROVE ShapeOf(q, proc[q])'
      <3>1. ShapeOf(q, proc[q])
        BY Zenon DEF ShapeInv
      <3> QED BY Zenon, <2>1, <3>1 DEF ShapeOf
    <2> QED BY Zenon, <1>0, <2>1, <2>2 DEF ShapeInv
  <1>4. ASSUME NEW p \in Checker, Grant(p) PROVE ShapeInv'
    <2>1. PICK h \in ProcState :
            /\ proc' = [proc EXCEPT ![p] = h] /\ proc[p].pc = "locked" /\ h.pc = "commit"
            /\ h.at = proc[p].at /\ h.removed = proc[p].removed
            /\ h.cost = proc[p].cost /\ h.lims = proc[p].lims
            /\ now' = now /\ tat' = tat /\ log' = log
      BY Zenon, <1>4, GrantMoves
    <2>2. p \in Proc /\ ShapeOf(p, proc[p])
      BY Zenon DEF ShapeInv, Proc
    <2>3. ShapeOf(p, h)
      BY Zenon, <2>1, <2>2 DEF ShapeOf
    <2> QED BY Zenon, <1>0, <2>1, <2>2, <2>3, ShapeOfOne
  <1>5. ASSUME NEW p \in Checker, Commit(p) PROVE ShapeInv'
    <2>1. proc' = [proc EXCEPT ![p] = Idle] /\ now' = now
      BY Zenon, <1>5, CommitMoves
    <2>2. tat' \in [Tenant -> Nat] /\ log' \in [Tenant -> Seq(Nat)]
      BY Zenon, <1>5, CommitCharges
    <2>3. Idle \in ProcState /\ Idle.pc = "idle" /\ Idle.at = 0 /\ Idle.removed = 0
      BY Zenon, IdleState DEF Idle
    <2>4. p \in Proc /\ now \in Nat
      BY Zenon DEF ShapeInv, MutexInv, MemType, Proc
    <2>5. ShapeOf(p, Idle)
      BY <2>3, <2>4 DEF ShapeOf
    <2> QED BY Zenon, <1>0, <2>1, <2>2, <2>3, <2>4, <2>5, ShapeOfOne
  <1>6. ASSUME NEW p \in Proc, SweepEnd(p) PROVE ShapeInv'
    <2>1. PICK h \in ProcState :
            /\ proc' = [proc EXCEPT ![p] = h] /\ proc[p].pc = "shard"
            /\ h.pc \in {"idle", "clock"} /\ h.at = 0 /\ h.removed = 0
            /\ p \in Checker => h.cost = proc[p].cost /\ h.lims = proc[p].lims
            /\ now' = now /\ tat' = tat /\ log' = log
      BY Zenon, <1>6, SweepEndMoves
    <2>2. ShapeOf(p, proc[p]) /\ now \in Nat
      BY Zenon DEF ShapeInv, MutexInv, MemType
    <2>3. ShapeOf(p, h)
      BY <2>1, <2>2 DEF ShapeOf
    <2> QED BY Zenon, <1>0, <2>1, <2>2, <2>3, ShapeOfOne
  <1>7. ASSUME NEW p \in Proc, NEW t \in Tenant, SweepTenant(p, t) PROVE ShapeInv'
    <2>1. PICK h \in ProcState :
            /\ proc' = [proc EXCEPT ![p] = h] /\ proc[p].pc = "tenants" /\ h.pc = "tenants"
            /\ h.at = proc[p].at /\ h.cost = proc[p].cost /\ h.lims = proc[p].lims
            /\ now' = now
      BY Zenon, <1>7, SweepTenantMoves
    <2>2. ShapeOf(p, proc[p])
      BY Zenon DEF ShapeInv
    <2>3. ShapeOf(p, h)
      BY Zenon, <2>1, <2>2 DEF ShapeOf
    <2>4. tat' \in [Tenant -> Nat] /\ log' \in [Tenant -> Seq(Nat)]
      BY Zenon, <1>7, SweepTenantDrops
    <2> QED BY Zenon, <1>0, <2>1, <2>3, <2>4, ShapeOfOne
  <1> QED BY Zenon, <1>1, <1>2, <1>3, <1>4, <1>5, <1>6, <1>7, StepKinds

-----------------------------------------------------------------------------
(* Exactness, limit by limit: A is what has been admitted.  A bucket that  *)
(* is full at h and has the arrival time a owes what was admitted since    *)
(* any instant.                                                            *)
Later(A, s) == {u \in A : u[1] >= s}
Within(A, s, e) == {u \in A : s <= u[1] /\ u[1] <= e}
BucketFits(A, a, h) ==
    \A s \in Nat : Emission * Cardinality(Later(A, s)) <= Greatest(0, Greatest(a, h) - s)
BucketHeld(A) ==
    \A s, e \in Nat : s <= e =>
        Emission * Cardinality(Within(A, s, e)) <= Tolerance + (e - s)

(* Taking less from a set, and adding a block to it.                       *)
LEMMA Fewer ==
    ASSUME NEW S, IsFiniteSet(S), NEW T, T \subseteq S
    PROVE  /\ IsFiniteSet(T) /\ Cardinality(T) <= Cardinality(S)
           /\ Cardinality(T) \in Nat /\ Cardinality(S) \in Nat
  BY Zenon, FS_Subset, FS_CardinalityType

LEMMA OneBlockMore ==
    ASSUME NEW S, IsFiniteSet(S), NEW x, NEW n \in Nat, NEW c \in Nat, NEW T,
           T \subseteq S \cup Block(x, n, c)
    PROVE  /\ IsFiniteSet(T) /\ Cardinality(T) <= Cardinality(S) + c
           /\ Cardinality(T) \in Nat /\ Cardinality(S) \in Nat
  <1>1. IsFiniteSet(Block(x, n, c)) /\ Cardinality(Block(x, n, c)) = c
    BY Zenon, BlockSize
  <1> DEFINE U == S \cup Block(x, n, c)
  <1>2. IsFiniteSet(U) /\ Cardinality(U) <= Cardinality(S) + c /\ Cardinality(U) \in Nat
    BY Zenon, <1>1, AtMostBoth
  <1>3. T \subseteq U
    BY Zenon
  <1> HIDE DEF U
  <1>4. IsFiniteSet(T) /\ Cardinality(T) <= Cardinality(U) /\ Cardinality(T) \in Nat
    BY Zenon, <1>2, <1>3, Fewer
  <1>5. Cardinality(S) \in Nat
    BY Zenon, FS_CardinalityType
  <1> QED BY <1>2, <1>4, <1>5

LEMMA InBlock ==
    ASSUME NEW x, NEW n \in Nat, NEW c \in Nat, NEW u \in Block(x, n, c)
    PROVE  u[1] = x
  BY Zenon DEF Block

(* A product keeps the order.                                              *)
LEMMA Scaled ==
    ASSUME NEW e \in Nat, NEW m \in Nat, NEW n \in Nat, NEW c \in Nat, m <= n + c
    PROVE  e * m <= e * n + e * c /\ e * m \in Nat /\ e * n \in Nat /\ e * c \in Nat
  <1>1. PICK d \in Nat : n + c = m + d
    BY n + c - m \in Nat
  <1>2. e * (n + c) = e * n + e * c /\ e * (m + d) = e * m + e * d
    OBVIOUS
  <1>3. e * m \in Nat /\ e * n \in Nat /\ e * c \in Nat /\ e * d \in Nat
    OBVIOUS
  <1> QED BY <1>1, <1>2, <1>3

(* Charging a bucket from an instant that is not before h.                 *)
LEMMA BucketChargeFits ==
    ASSUME NEW A \in SUBSET (Nat \X Nat), IsFiniteSet(A), NEW a \in Nat, NEW h \in Nat,
           NEW x \in Nat, NEW c \in Nat, NEW n \in Nat, h <= x, BucketFits(A, a, h)
    PROVE  BucketFits(A \cup Block(x, n, c), BucketNext(a, x, c), h)
  <1> DEFINE B == A \cup Block(x, n, c)
             g == Greatest(a, x)
             k == BucketNext(a, x, c)
  <1>1. Emission \in Nat /\ g \in Int /\ g >= a /\ g >= x
    <2>1. Emission \in Nat
      BY Zenon, MemoryAssumption
    <2>2. g \in Int /\ g >= a /\ g >= x
      BY DEF Greatest
    <2> QED BY Zenon, <2>1, <2>2
  <1>2. k = g + Emission * c /\ Emission * c \in Nat
    BY <1>1 DEF BucketNext
  <1> HIDE DEF g, k
  <1>3. k >= g /\ k \in Int
    BY <1>1, <1>2
  <1>4. Greatest(k, h) = k
    BY <1>1, <1>3 DEF Greatest
  <1>5. Greatest(a, h) <= g /\ Greatest(a, h) \in Int
    BY <1>1 DEF Greatest
  <1>6. ASSUME NEW s \in Nat
        PROVE  Emission * Cardinality(Later(B, s)) <= Greatest(0, k - s)
    <2> DEFINE old == Cardinality(Later(A, s))
               new == Cardinality(Later(B, s))
    <2>1. IsFiniteSet(Later(A, s)) /\ old \in Nat
      BY Zenon, Fewer DEF Later
    <2>2. Emission * old <= Greatest(0, Greatest(a, h) - s)
      BY Zenon DEF BucketFits
    <2>3. CASE s > x
      <3>1. Later(B, s) \subseteq Later(A, s)
        BY <2>3, InBlock DEF Later
      <3>2. new = old
        <4>1. Later(A, s) \subseteq Later(B, s)
          BY Zenon DEF Later
        <4> QED BY <3>1, <4>1
      <3> HIDE DEF new, old
      <3>3. Emission * new <= Greatest(0, Greatest(a, h) - s)
        BY Zenon, <2>2, <3>2
      <3>4. Greatest(0, Greatest(a, h) - s) <= Greatest(0, k - s)
        BY <1>1, <1>3, <1>5 DEF Greatest
      <3>5. Greatest(0, Greatest(a, h) - s) \in Int /\ Greatest(0, k - s) \in Int
        BY <1>3, <1>5 DEF Greatest
      <3>6. Emission * new \in Int
        BY <1>1, <2>1, <3>2
      <3> QED BY <3>3, <3>4, <3>5, <3>6 DEF new
    <2>4. CASE s <= x
      <3>1. Later(B, s) \subseteq Later(A, s) \cup Block(x, n, c)
        BY Zenon DEF Later
      <3>2. new <= old + c /\ new \in Nat
        BY Zenon, <2>1, <3>1, OneBlockMore
      <3> HIDE DEF new, old
      <3>3. Emission * new <= Emission * old + Emission * c /\ Emission * new \in Nat
            /\ Emission * old \in Nat
        BY Zenon, <1>1, <2>1, <3>2, Scaled
      <3>4. Greatest(0, Greatest(a, h) - s) <= g - s
        BY <1>1, <1>5, <2>4 DEF Greatest
      <3>5. Greatest(0, k - s) = k - s
        BY <1>1, <1>3, <2>4 DEF Greatest
      <3>6. Greatest(0, Greatest(a, h) - s) \in Int
        BY <1>5 DEF Greatest
      <3> DEFINE eo == Emission * old
                 en == Emission * new
                 ec == Emission * c
                 r == Greatest(0, Greatest(a, h) - s)
      <3>7. en <= eo + ec /\ en \in Nat /\ eo \in Nat /\ eo <= r /\ r <= g - s /\ r \in Int
            /\ k = g + ec /\ ec \in Nat /\ Greatest(0, k - s) = k - s
        BY Zenon, <1>2, <2>2, <3>3, <3>4, <3>5, <3>6
      <3> HIDE DEF eo, en, ec, r
      <3>8. en <= k - s
        BY <1>1, <3>7
      <3> QED BY Zenon, <3>7, <3>8 DEF en, new
    <2> QED BY <1>1, <2>3, <2>4
  <1> QED BY Zenon, <1>4, <1>6 DEF BucketFits, k

LEMMA BucketChargeHolds ==
    ASSUME NEW A \in SUBSET (Nat \X Nat), IsFiniteSet(A), NEW a \in Nat, NEW h \in Nat,
           NEW x \in Nat, NEW c \in Nat, NEW n \in Nat, h <= x, BucketFits(A, a, h),
           BucketHeld(A), BucketAllows(a, x, c)
    PROVE  BucketHeld(A \cup Block(x, n, c))
  <1> DEFINE B == A \cup Block(x, n, c)
             k == BucketNext(a, x, c)
  <1>1. BucketFits(B, k, h)
    BY Zenon, BucketChargeFits
  <1>2. Emission \in Nat /\ Tolerance \in Nat
    BY MemoryAssumption DEF Tolerance
  <1>3. k \in Nat /\ k >= x
    <2>1. Greatest(a, x) \in Nat /\ Greatest(a, x) >= x
      BY DEF Greatest
    <2>2. Emission * c \in Nat
      BY <1>2
    <2> QED BY <2>1, <2>2 DEF BucketNext
  <1>4. k - Tolerance <= x
    BY Zenon DEF BucketAllows
  <1>5. IsFiniteSet(B)
    BY Zenon, OneBlockMore
  <1> HIDE DEF k
  <1>6. ASSUME NEW s \in Nat, NEW e \in Nat, s <= e
        PROVE  Emission * Cardinality(Within(B, s, e)) <= Tolerance + (e - s)
    <2>1. CASE s <= x /\ x <= e
      <3> DEFINE w == Cardinality(Within(B, s, e))
                 m == Cardinality(Later(B, s))
      <3>1. Within(B, s, e) \subseteq Later(B, s) /\ Later(B, s) \subseteq B
        BY Zenon DEF Within, Later
      <3>2. w <= m /\ w \in Nat /\ m \in Nat
        BY Zenon, <1>5, <3>1, Fewer
      <3>3. Emission * m <= Greatest(0, Greatest(k, h) - s)
        BY Zenon, <1>1 DEF BucketFits
      <3>4. Greatest(0, Greatest(k, h) - s) = k - s
        BY <1>3, <2>1 DEF Greatest
      <3> HIDE DEF w, m
      <3>5. Emission * w <= Emission * m /\ Emission * w \in Nat /\ Emission * m \in Nat
        <4>1. w <= m + 0
          BY <3>2
        <4>2. Emission * w <= Emission * m + Emission * 0 /\ Emission * m \in Nat
              /\ Emission * w \in Nat
          BY Zenon, <1>2, <3>2, <4>1, Scaled
        <4>3. Emission * 0 = 0
          BY <1>2
        <4> QED BY <4>2, <4>3
      <3> DEFINE ew == Emission * w
                 em == Emission * m
      <3>6. ew <= em /\ ew \in Nat /\ em \in Nat /\ em <= k - s
        BY Zenon, <3>3, <3>4, <3>5
      <3> HIDE DEF ew, em
      <3>7. ew <= Tolerance + (e - s)
        BY <1>2, <1>3, <1>4, <2>1, <3>6
      <3> QED BY Zenon, <3>7 DEF ew, w
    <2>2. CASE ~(s <= x /\ x <= e)
      <3>1. Within(B, s, e) = Within(A, s, e)
        BY <2>2, InBlock DEF Within
      <3> QED BY Zenon, <1>6, <3>1 DEF BucketHeld
    <2> QED BY Zenon, <2>1, <2>2
  <1> QED BY Zenon, <1>6 DEF BucketHeld

(* An arrival time that is past at x says no more than a full bucket then. *)
LEMMA BucketForgotten ==
    ASSUME NEW A, IsFiniteSet(A), NEW a \in Nat, NEW h \in Nat, NEW x \in Nat, a <= x,
           BucketFits(A, a, h)
    PROVE  BucketFits(A, 0, Greatest(h, x)) /\ Greatest(h, x) \in Nat
           /\ h <= Greatest(h, x) /\ x <= Greatest(h, x)
  <1> DEFINE k == Greatest(h, x)
  <1>1. k \in Nat /\ h <= k /\ x <= k
    BY DEF Greatest
  <1> HIDE DEF k
  <1>2. ASSUME NEW s \in Nat
        PROVE  Emission * Cardinality(Later(A, s)) <= Greatest(0, Greatest(0, k) - s)
    <2>1. Emission * Cardinality(Later(A, s)) <= Greatest(0, Greatest(a, h) - s)
      BY Zenon DEF BucketFits
    <2> DEFINE old == Greatest(0, Greatest(a, h) - s)
               new == Greatest(0, Greatest(0, k) - s)
               e == Emission * Cardinality(Later(A, s))
    <2>2. old <= new /\ old \in Int /\ new \in Int
      BY <1>1 DEF Greatest
    <2>3. Cardinality(Later(A, s)) \in Nat /\ Emission \in Nat
      BY Zenon, Fewer, MemoryAssumption DEF Later
    <2>4. e \in Nat
      BY <2>3
    <2>5. e <= old
      BY Zenon, <2>1
    <2> HIDE DEF old, new, e
    <2>6. e <= new
      BY <2>2, <2>4, <2>5
    <2> QED BY Zenon, <2>6 DEF e, new
  <1> QED BY Zenon, <1>1, <1>2 DEF BucketFits, k

(* A window whose log has lost no entry that counts at h or later.         *)
Ahead(l, y) == {i \in DOMAIN l : l[i] > y}
Since(A, y) == {u \in A : u[1] > y}
Last(l) == l[Len(l)]
InOrder(l) == \A i, j \in DOMAIN l : i <= j => l[i] <= l[j]
Reached(A, l, h) == \A u \in A : u[1] <= h \/ (l # <<>> /\ u[1] <= Last(l))
WindowFits(A, l, h) ==
    \A x \in Nat : h <= x =>
        Cardinality(Since(A, x - Period)) <= Cardinality(Ahead(l, x - Period))
WindowHeld(A) == \A s \in Nat : Cardinality(Within(A, s, s + Period - 1)) <= Count

LEMMA AheadFinite ==
    ASSUME NEW l \in Seq(Nat), NEW y
    PROVE  IsFiniteSet(Ahead(l, y)) /\ Cardinality(Ahead(l, y)) \in Nat
  <1>1. Len(l) \in Nat /\ Ahead(l, y) \subseteq 1..Len(l)
    BY DEF Ahead
  <1>2. IsFiniteSet(1..Len(l))
    BY <1>1, FS_Interval
  <1> QED BY Zenon, <1>1, <1>2, Fewer

(* What an interval counts.                                                *)
LEMMA Stretch ==
    ASSUME NEW d \in Nat, NEW c \in Nat
    PROVE  IsFiniteSet((d + 1)..(d + c)) /\ Cardinality((d + 1)..(d + c)) = c
  <1>1. d + 1 \in Int /\ d + c \in Int
    OBVIOUS
  <1>2. IsFiniteSet((d + 1)..(d + c))
        /\ Cardinality((d + 1)..(d + c)) = IF d + 1 > d + c THEN 0 ELSE (d + c) - (d + 1) + 1
    BY Zenon, <1>1, FS_Interval
  <1> QED BY <1>2

(* The log a charge leaves: the entries from the k-th on, and c new ones.  *)
Recharged(l, t, c, m, k) ==
    /\ k \in 1..(Len(l) + 1) /\ m \in Seq(Nat)
    /\ Len(Prune(l, t)) = Len(l) + 1 - k
    /\ Len(m) = (Len(l) + 1 - k) + c
    /\ \A i \in 1..(k - 1) : l[i] <= t - Period
    /\ \A i \in k..Len(l) : m[i + 1 - k] = l[i]
    /\ \A j \in 1..(Len(l) + 1 - k) : m[j] = l[j + k - 1]
    /\ \A j \in ((Len(l) + 1 - k) + 1)..((Len(l) + 1 - k) + c) : m[j] = t

LEMMA NextIs ==
    ASSUME NEW l \in Seq(Nat), NEW t \in Nat, NEW c \in Nat
    PROVE  \E k \in Nat : Recharged(l, t, c, WindowNext(l, t, c), k)
  <1>1. PICK k \in 1..(Len(l) + 1) : /\ Prune(l, t) = SubSeq(l, k, Len(l))
                                     /\ \A i \in 1..(k - 1) : l[i] <= t - Period
    BY Zenon, Pruned
  <1> DEFINE r == SubSeq(l, k, Len(l))
             d == Len(l) + 1 - k
             m == r \o [i \in 1..c |-> t]
  <1>2. Len(l) \in Nat /\ k \in Nat /\ d \in Nat /\ k >= 1
    OBVIOUS
  <1>3. r \in Seq(Nat) /\ Len(r) = d /\ \A j \in 1..d : r[j] = l[j + k - 1]
    BY <1>2
  <1> HIDE DEF r
  <1>4. /\ m \in Seq(Nat) /\ Len(m) = Len(r) + c
        /\ \A i \in 1..Len(r) : m[i] = r[i]
        /\ \A i \in (Len(r) + 1)..(Len(r) + c) : m[i] = t
    <2>1. r \in Seq(Nat)
      BY Zenon, <1>3
    <2> QED BY <2>1, Extended
  <1>5. m = WindowNext(l, t, c)
    BY Zenon, <1>1 DEF WindowNext, r
  <1> HIDE DEF m
  <1>6. \A j \in 1..d : m[j] = l[j + k - 1]
    BY Zenon, <1>3, <1>4
  <1>7. ASSUME NEW i \in k..Len(l) PROVE m[i + 1 - k] = l[i]
    <2>1. i + 1 - k \in 1..d /\ (i + 1 - k) + k - 1 = i
      BY <1>2
    <2> QED BY Zenon, <1>6, <2>1
  <1>8. Len(Prune(l, t)) = d
    BY Zenon, <1>1, <1>3 DEF r
  <1>9. Recharged(l, t, c, m, k)
    BY Zenon, <1>1, <1>3, <1>4, <1>6, <1>7, <1>8 DEF Recharged
  <1> QED BY Zenon, <1>2, <1>5, <1>9

(* What has aged out is all that pruning drops ...                         *)
LEMMA PruneKeeps ==
    ASSUME NEW l \in Seq(Nat), NEW t \in Nat
    PROVE  /\ Cardinality(Ahead(l, t - Period)) <= Len(Prune(l, t))
           /\ Len(Prune(l, t)) \in Nat
  <1>1. PICK k \in Nat : Recharged(l, t, 0, WindowNext(l, t, 0), k)
    BY Zenon, NextIs
  <1> DEFINE d == Len(l) + 1 - k
             e == k - 1
  <1>2. k \in 1..(Len(l) + 1) /\ Len(Prune(l, t)) = d /\ \A i \in 1..e : l[i] <= t - Period
    BY Zenon, <1>1 DEF Recharged
  <1>3. Len(l) \in Nat /\ d \in Nat /\ e \in Nat /\ e + d = Len(l) /\ Period \in Nat
    BY <1>2, MemoryAssumption
  <1>4. Ahead(l, t - Period) \subseteq (e + 1)..(e + d)
    <2>1. ASSUME NEW i \in 1..Len(l), l[i] > t - Period PROVE i \in (e + 1)..(e + d)
      <3>1. l[i] \in Nat
        OBVIOUS
      <3>2. i \notin 1..e
        BY <1>2, <1>3, <2>1, <3>1
      <3> QED BY <1>3, <3>2
    <2> QED BY <2>1 DEF Ahead
  <1>5. IsFiniteSet((e + 1)..(e + d)) /\ Cardinality((e + 1)..(e + d)) = d
    BY Zenon, <1>3, Stretch
  <1>6. Cardinality(Ahead(l, t - Period)) <= d
    BY Zenon, <1>4, <1>5, Fewer
  <1> QED BY Zenon, <1>2, <1>3, <1>6

(* ... and a charge adds its c entries to the ones that still count.       *)
LEMMA NextCounts ==
    ASSUME NEW l \in Seq(Nat), NEW t \in Nat, NEW c \in Nat, NEW y \in Int,
           t - Period <= y, y < t
    PROVE  Cardinality(Ahead(l, y)) + c <= Cardinality(Ahead(WindowNext(l, t, c), y))
  <1> DEFINE m == WindowNext(l, t, c)
  <1>1. PICK k \in Nat : Recharged(l, t, c, m, k)
    BY Zenon, NextIs
  <1> HIDE DEF m
  <1> DEFINE d == Len(l) + 1 - k
             new == (d + 1)..(d + c)
             old == Ahead(m, y) \ new
  <1>2. /\ k \in 1..(Len(l) + 1) /\ m \in Seq(Nat) /\ Len(m) = d + c
        /\ \A i \in 1..(k - 1) : l[i] <= t - Period
        /\ \A i \in k..Len(l) : m[i + 1 - k] = l[i]
        /\ \A j \in new : m[j] = t
    BY Zenon, <1>1 DEF Recharged
  <1>3. Len(l) \in Nat /\ d \in Nat /\ Period \in Nat /\ DOMAIN m = 1..(d + c)
    BY <1>2, MemoryAssumption
  <1>4. IsFiniteSet(new) /\ Cardinality(new) = c
    BY Zenon, <1>3, Stretch
  <1>5. new \subseteq Ahead(m, y)
    <2> HIDE DEF d
    <2>1. ASSUME NEW j \in new PROVE j \in DOMAIN m /\ m[j] > y
      <3>1. j \in 1..(d + c)
        BY <1>3
      <3>2. m[j] = t
        BY Zenon, <1>2
      <3> QED BY Zenon, <1>3, <3>1, <3>2
    <2> QED BY Zenon, <2>1 DEF Ahead
  <1>6. IsFiniteSet(Ahead(m, y)) /\ Cardinality(Ahead(m, y)) \in Nat
    BY Zenon, <1>2, AheadFinite
  <1>7. IsFiniteSet(old) /\ Cardinality(old) \in Nat
    BY Zenon, <1>6, Fewer
  <1>8. old \cup new = Ahead(m, y) /\ old \cap new = {}
    BY Zenon, <1>5
  <1>9. Cardinality(Ahead(m, y)) = Cardinality(old) + c
    BY Zenon, <1>4, <1>7, <1>8, Apart
  <1> DEFINE f == [i \in Ahead(l, y) |-> i + 1 - k]
  <1>10. ASSUME NEW i \in Ahead(l, y) PROVE i \in Nat /\ f[i] = i + 1 - k /\ f[i] \in old
    <2>1. i \in 1..Len(l) /\ l[i] > y /\ l[i] \in Nat
      BY DEF Ahead
    <2>2. i \notin 1..(k - 1)
      BY <1>2, <1>3, <2>1
    <2>3. i \in k..Len(l) /\ i + 1 - k \in 1..d
      BY <1>2, <1>3, <2>1, <2>2
    <2>4. m[i + 1 - k] > y
      BY Zenon, <1>2, <2>1, <2>3
    <2>5. i + 1 - k \in Ahead(m, y) /\ i + 1 - k \notin new
      BY <1>3, <2>3, <2>4 DEF Ahead
    <2> QED BY <2>1, <2>5
  <1> HIDE DEF f, old, new
  <1>11. f \in Injection(Ahead(l, y), old)
    <2>1. f \in [Ahead(l, y) -> old]
      BY Zenon, <1>10 DEF f
    <2>2. ASSUME NEW i \in Ahead(l, y), NEW j \in Ahead(l, y), f[i] = f[j] PROVE i = j
      BY <1>10, <2>2
    <2> QED BY Zenon, <2>1, <2>2 DEF Injection, IsInjective
  <1>12. Cardinality(Ahead(l, y)) <= Cardinality(old)
    BY Zenon, <1>7, <1>11, FS_Injection
  <1>13. Cardinality(Ahead(l, y)) \in Nat
    BY Zenon, AheadFinite
  <1> QED BY <1>7, <1>9, <1>12, <1>13 DEF m

(* No entry of a log in order is later than its last.                      *)
LEMMA LastIsLatest ==
    ASSUME NEW l \in Seq(Nat), InOrder(l), NEW i \in 1..Len(l)
    PROVE  l # <<>> /\ Last(l) \in Nat /\ l[i] \in Nat /\ l[i] <= Last(l)
  <1>1. Len(l) \in Nat /\ DOMAIN l = 1..Len(l) /\ Len(l) \in 1..Len(l) /\ i <= Len(l)
    OBVIOUS
  <1>2. l[i] <= l[Len(l)]
    BY Zenon, <1>1 DEF InOrder
  <1>3. l[i] \in Nat /\ l[Len(l)] \in Nat
    BY <1>1
  <1>4. l # <<>>
    BY <1>1
  <1> QED BY Zenon, <1>2, <1>3, <1>4 DEF Last

LEMMA NextInOrder ==
    ASSUME NEW l \in Seq(Nat), NEW t \in Nat, NEW c \in Nat, InOrder(l),
           l # <<>> => Last(l) <= t
    PROVE  InOrder(WindowNext(l, t, c))
  <1> DEFINE m == WindowNext(l, t, c)
  <1>1. PICK k \in Nat : Recharged(l, t, c, m, k)
    BY Zenon, NextIs
  <1> HIDE DEF m
  <1> DEFINE d == Len(l) + 1 - k
  <1>2. /\ k \in 1..(Len(l) + 1) /\ m \in Seq(Nat) /\ Len(m) = d + c
        /\ \A j \in 1..d : m[j] = l[j + k - 1]
        /\ \A j \in (d + 1)..(d + c) : m[j] = t
    BY Zenon, <1>1 DEF Recharged
  <1>3. Len(l) \in Nat /\ d \in Nat /\ DOMAIN m = 1..(d + c) /\ DOMAIN l = 1..Len(l)
    BY <1>2
  <1>4. ASSUME NEW j \in 1..d PROVE j + k - 1 \in 1..Len(l) /\ m[j] \in Nat /\ m[j] <= t
    <2>1. j + k - 1 \in 1..Len(l)
      BY <1>2, <1>3
    <2>2. l[j + k - 1] <= Last(l) /\ Last(l) \in Nat /\ l # <<>> /\ l[j + k - 1] \in Nat
      BY Zenon, <2>1, LastIsLatest
    <2>3. m[j] = l[j + k - 1]
      BY Zenon, <1>2
    <2>4. Last(l) <= t
      BY Zenon, <2>2
    <2> DEFINE e == l[j + k - 1]
    <2> HIDE DEF e
    <2>5. e <= Last(l) /\ Last(l) \in Nat /\ e \in Nat /\ m[j] = e
      BY Zenon, <2>2, <2>3 DEF e
    <2> QED BY <2>1, <2>4, <2>5
  <1>5. ASSUME NEW i \in DOMAIN m, NEW j \in DOMAIN m, i <= j PROVE m[i] <= m[j]
    <2>1. CASE j <= d
      <3>1. i \in 1..d /\ j \in 1..d
        BY <1>3, <1>5, <2>1
      <3>2. i + k - 1 \in DOMAIN l /\ j + k - 1 \in DOMAIN l
        BY Zenon, <1>3, <1>4, <3>1
      <3>3. i + k - 1 <= j + k - 1
        BY <1>5, <3>1
      <3>4. l[i + k - 1] <= l[j + k - 1]
        BY Zenon, <3>2, <3>3 DEF InOrder
      <3> QED BY Zenon, <1>2, <3>1, <3>4
    <2>2. CASE j > d
      <3> HIDE DEF d
      <3>1. j \in (d + 1)..(d + c)
        BY <1>3, <2>2
      <3>2. m[j] = t
        BY Zenon, <1>2, <3>1
      <3>3. i \in 1..d \/ i \in (d + 1)..(d + c)
        BY <1>3
      <3>4. m[i] <= t
        BY <1>2, <1>4, <3>3
      <3> QED BY Zenon, <3>2, <3>4
    <2> QED BY <1>3, <2>1, <2>2
  <1> QED BY Zenon, <1>5 DEF InOrder, m

(* A window that a charge at x may still be written to.                    *)
Open(A, l, h, x) ==
    /\ h <= x /\ (l # <<>> => Last(l) <= x)
    /\ InOrder(l) /\ Reached(A, l, h) /\ WindowFits(A, l, h)

LEMMA AllBefore ==
    ASSUME NEW A \in SUBSET (Nat \X Nat), NEW l \in Seq(Nat), NEW h \in Nat, NEW x \in Nat,
           NEW c \in Nat, NEW n \in Nat, Open(A, l, h, x), NEW u \in A \cup Block(x, n, c)
    PROVE  u[1] \in Nat /\ u[1] <= x
  <1>1. CASE u \in Block(x, n, c)
    BY <1>1, InBlock
  <1>2. CASE u \in A
    <2>1. u[1] \in Nat
      BY Zenon, <1>2
    <2>2. u[1] <= h \/ (l # <<>> /\ u[1] <= Last(l))
      BY Zenon, <1>2 DEF Open, Reached
    <2>3. CASE u[1] <= h
      BY <2>1, <2>3 DEF Open
    <2>4. CASE l # <<>> /\ u[1] <= Last(l)
      <3>1. Last(l) \in Nat
        BY <2>4 DEF Last
      <3> QED BY <2>1, <2>4, <3>1 DEF Open
    <2> QED BY Zenon, <2>1, <2>2, <2>3, <2>4
  <1> QED BY Zenon, <1>1, <1>2

LEMMA WindowChargeFits ==
    ASSUME NEW A \in SUBSET (Nat \X Nat), IsFiniteSet(A), NEW l \in Seq(Nat), NEW h \in Nat,
           NEW x \in Nat, NEW c \in Nat, NEW n \in Nat, Open(A, l, h, x)
    PROVE  /\ Reached(A \cup Block(x, n, c), WindowNext(l, x, c), x)
           /\ WindowFits(A \cup Block(x, n, c), WindowNext(l, x, c), x)
  <1> DEFINE B == A \cup Block(x, n, c)
             m == WindowNext(l, x, c)
  <1>1. \A u \in B : u[1] \in Nat /\ u[1] <= x
    BY Zenon, AllBefore
  <1>2. IsFiniteSet(B)
    BY Zenon, OneBlockMore
  <1>3. m \in Seq(Nat)
    BY Zenon, NextIs DEF Recharged
  <1>4. ASSUME NEW z \in Nat, x <= z
        PROVE  Cardinality(Since(B, z - Period)) <= Cardinality(Ahead(m, z - Period))
    <2> DEFINE y == z - Period
               old == Cardinality(Since(A, y))
               new == Cardinality(Since(B, y))
    <2>1. y \in Int /\ Period \in Nat
      BY MemoryAssumption
    <2>2. Cardinality(Ahead(m, y)) \in Nat
      BY Zenon, <1>3, AheadFinite
    <2>3. CASE y >= x
      <3> HIDE DEF y, B
      <3>1. Since(B, y) = {}
        BY <1>1, <2>1, <2>3 DEF Since
      <3>2. new = 0
        BY Zenon, <3>1, FS_EmptySet
      <3> QED BY <2>2, <3>2 DEF y
    <2>4. CASE y < x
      <3>1. old <= Cardinality(Ahead(l, y))
        BY <1>4 DEF Open, WindowFits
      <3>2. IsFiniteSet(Since(A, y)) /\ old \in Nat
        BY Zenon, Fewer DEF Since
      <3>3. Since(B, y) \subseteq Since(A, y) \cup Block(x, n, c)
        BY Zenon DEF Since
      <3>4. new <= old + c /\ new \in Nat
        BY Zenon, <3>2, <3>3, OneBlockMore
      <3>5. x - Period <= y
        BY <1>4, <2>1
      <3>6. Cardinality(Ahead(l, y)) + c <= Cardinality(Ahead(m, y))
        BY Zenon, <2>1, <2>4, <3>5, NextCounts
      <3>7. Cardinality(Ahead(l, y)) \in Nat
        BY Zenon, AheadFinite
      <3> HIDE DEF y, old, new
      <3>8. new <= Cardinality(Ahead(m, y))
        BY <2>2, <3>1, <3>2, <3>4, <3>6, <3>7
      <3> QED BY Zenon, <3>8 DEF y, new
    <2> QED BY <2>1, <2>3, <2>4
  <1> HIDE DEF B, m
  <1>5. Reached(B, m, x)
    BY Zenon, <1>1 DEF Reached
  <1>6. WindowFits(B, m, x)
    BY Zenon, <1>4 DEF WindowFits
  <1> QED BY Zenon, <1>5, <1>6 DEF B, m

LEMMA WindowChargeHolds ==
    ASSUME NEW A \in SUBSET (Nat \X Nat), IsFiniteSet(A), NEW l \in Seq(Nat), NEW h \in Nat,
           NEW x \in Nat, NEW c \in Nat, NEW n \in Nat, Open(A, l, h, x),
           WindowHeld(A), WindowAllows(l, x, c)
    PROVE  WindowHeld(A \cup Block(x, n, c))
  <1> DEFINE B == A \cup Block(x, n, c)
  <1>1. \A u \in B : u[1] \in Nat /\ u[1] <= x
    BY Zenon, AllBefore
  <1>2. Period \in Nat /\ Period >= 1 /\ Count \in Nat
    BY MemoryAssumption
  <1>3. ASSUME NEW s \in Nat PROVE Cardinality(Within(B, s, s + Period - 1)) <= Count
    <2> DEFINE e == s + Period - 1
               y == x - Period
    <2>1. e \in Nat /\ y \in Int
      BY <1>2
    <2>2. CASE s <= x /\ x <= e
      <3>1. Within(B, s, e) \subseteq Since(A, y) \cup Block(x, n, c)
        <4>1. y < s
          BY <1>2, <2>2
        <4>2. ASSUME NEW u \in A, s <= u[1] PROVE u \in Since(A, y)
          <5>1. u[1] \in Nat
            BY Zenon
          <5>2. u[1] > y
            BY <2>1, <4>1, <4>2, <5>1
          <5> QED BY Zenon, <5>2 DEF Since
        <4> QED BY Zenon, <4>2 DEF Within
      <3>2. IsFiniteSet(Since(A, y))
        BY Zenon, Fewer DEF Since
      <3>3. /\ Cardinality(Within(B, s, e)) <= Cardinality(Since(A, y)) + c
            /\ Cardinality(Within(B, s, e)) \in Nat /\ Cardinality(Since(A, y)) \in Nat
        <4> DEFINE w == Within(B, s, e)
                   o == Since(A, y)
        <4> HIDE DEF w, o
        <4>1. IsFiniteSet(o) /\ w \subseteq o \cup Block(x, n, c)
          BY Zenon, <3>1, <3>2 DEF w, o
        <4>2. Cardinality(w) <= Cardinality(o) + c /\ Cardinality(w) \in Nat /\ Cardinality(o) \in Nat
          BY Zenon, <4>1, OneBlockMore
        <4> QED BY Zenon, <4>2 DEF w, o
      <3>4. Cardinality(Since(A, y)) <= Cardinality(Ahead(l, y))
        BY Zenon DEF Open, WindowFits
      <3>5. Cardinality(Ahead(l, y)) <= Len(Prune(l, x)) /\ Len(Prune(l, x)) \in Nat
        BY Zenon, PruneKeeps
      <3>6. Len(Prune(l, x)) + c <= Count
        BY Zenon DEF WindowAllows
      <3>7. Cardinality(Ahead(l, y)) \in Nat
        BY Zenon, AheadFinite
      <3> HIDE DEF y, e, B
      <3>8. Cardinality(Within(B, s, e)) <= Count
        BY <1>2, <3>3, <3>4, <3>5, <3>6, <3>7
      <3> QED BY Zenon, <3>8 DEF e
    <2>3. CASE ~(s <= x /\ x <= e)
      <3>1. Within(B, s, e) = Within(A, s, e)
        BY <2>3, InBlock DEF Within
      <3>2. Cardinality(Within(A, s, e)) <= Count
        BY Zenon DEF WindowHeld
      <3> QED BY Zenon, <3>1, <3>2
    <2> QED BY Zenon, <2>2, <2>3
  <1> QED BY Zenon, <1>3 DEF WindowHeld

(* A window whose last entry has aged out at x counts nothing from then on. *)
LEMMA WindowForgotten ==
    ASSUME NEW A \in SUBSET (Nat \X Nat), IsFiniteSet(A), NEW l \in Seq(Nat), NEW h \in Nat,
           NEW x \in Nat, l # <<>>, Last(l) + Period <= x,
           InOrder(l), Reached(A, l, h), WindowFits(A, l, h)
    PROVE  LET k == Greatest(h, x)
           IN  /\ k \in Nat /\ h <= k /\ x <= k /\ InOrder(<<>>)
               /\ Reached(A, <<>>, k) /\ WindowFits(A, <<>>, k)
  <1> DEFINE k == Greatest(h, x)
  <1>1. k \in Nat /\ h <= k /\ x <= k
    BY DEF Greatest
  <1>2. Period \in Nat /\ Last(l) \in Nat
    BY MemoryAssumption DEF Last
  <1> HIDE DEF k
  <1>3. InOrder(<<>>)
    BY DEF InOrder
  <1>4. ASSUME NEW u \in A PROVE u[1] <= k
    <2>1. u[1] \in Nat
      BY Zenon
    <2>2. u[1] <= h \/ u[1] <= Last(l)
      BY Zenon DEF Reached
    <2> QED BY <1>1, <1>2, <2>1, <2>2
  <1>5. Reached(A, <<>>, k)
    BY Zenon, <1>4 DEF Reached
  <1>6. ASSUME NEW z \in Nat, k <= z
        PROVE  Cardinality(Since(A, z - Period)) <= Cardinality(Ahead(<<>>, z - Period))
    <2> DEFINE y == z - Period
    <2>1. h <= z /\ Last(l) <= y /\ y \in Int
      BY <1>1, <1>2, <1>6
    <2>2. Cardinality(Since(A, y)) <= Cardinality(Ahead(l, y))
      BY Zenon, <2>1 DEF WindowFits
    <2> HIDE DEF y
    <2>3. Ahead(l, y) = {}
      <3>1. ASSUME NEW i \in 1..Len(l) PROVE ~(l[i] > y)
        <4>1. l[i] <= Last(l) /\ l[i] \in Nat
          BY Zenon, LastIsLatest
        <4> QED BY <1>2, <2>1, <4>1
      <3> QED BY <3>1 DEF Ahead
    <2>4. Ahead(<<>>, y) = {}
      BY DEF Ahead
    <2> QED BY Zenon, <2>2, <2>3, <2>4 DEF y
  <1>7. WindowFits(A, <<>>, k)
    BY Zenon, <1>6 DEF WindowFits
  <1> QED BY Zenon, <1>1, <1>3, <1>5, <1>7 DEF k

-----------------------------------------------------------------------------
(* Two checks that hold a mutex hold it of different tenants.              *)
LEMMA CommittersApart ==
    ASSUME ShapeInv, NEW p \in Checker, NEW q \in Checker, p # q,
           proc[p].pc \in {"locked", "commit"}, proc[q].pc \in {"locked", "commit"}
    PROVE  proc[p].tenant # proc[q].tenant
  <1>1. mu[proc[p].tenant] = p /\ mu[proc[q].tenant] = q
    BY Zenon DEF ShapeInv, MutexInv, Holds
  <1> QED BY Zenon, <1>1

(* A sweep has the tenant's mutex: nobody is about to commit on it.        *)
LEMMA NobodyCommits ==
    ASSUME ShapeInv, NEW p \in Proc, NEW t \in Tenant, SweepTenant(p, t), NEW q \in Checker,
           proc[q].pc \in {"locked", "commit"}
    PROVE  proc[q].tenant \in Tenant /\ proc[q].tenant # t
  <1>1. mu[proc[q].tenant] = q /\ proc[q].tenant \in Tenant
    BY Zenon DEF ShapeInv, MutexInv, Holds
  <1>2. mu[t] = Nobody /\ Nobody \notin Checker
    BY Zenon, MemoryAssumption DEF SweepTenant
  <1> QED BY Zenon, <1>1, <1>2
=============================================================================
