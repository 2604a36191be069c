-------------------------- MODULE MemoryKeysProofs --------------------------
(***************************************************************************)
(* The keys that the in-memory limiter counts, for any number of           *)
(* goroutines, tenants, shards and sweeps: the count is what exists and    *)
(* what sweeps owe (AccountInv), and the budget is overrun by no more than *)
(* what the others have in hand (BudgetInv).                               *)
(***************************************************************************)
EXTENDS MemoryProofs

(* The accounts: the counters there are, and what sweeps owe.              *)
Standing == {x \in Tenant \X Limits : Has(x[1], x[2])}
Owing == [p \in Proc |-> proc[p].removed]

AccountInv == IsFiniteSet(Standing) /\ IsFiniteSet(Unreturned) /\ KeysAccounted

LEMMA UnreturnedIsOwed ==
    ASSUME ShapeInv
    PROVE  Owing \in [Proc -> Nat] /\ Unreturned = Owed(Proc, Owing)
  <1>1. \A p \in Proc : proc[p].removed \in Nat
    BY Zenon DEF ShapeInv, MutexInv, MemType, ProcState
  <1>2. \A p \in Proc : Owing[p] = proc[p].removed
    BY Zenon DEF Owing
  <1>3. Unreturned = Owed(Proc, Owing)
    BY Zenon, <1>2 DEF Unreturned, Owed
  <1> QED BY Zenon, <1>1, <1>3 DEF Owing

(* The same after a step.                                                  *)
LEMMA UnreturnedIsOwedNext ==
    ASSUME ShapeInv'
    PROVE  Owing' \in [Proc -> Nat] /\ Unreturned' = Owed(Proc, Owing')
  <1>1. \A p \in Proc : proc'[p].removed \in Nat
    BY Zenon DEF ShapeInv, MutexInv, MemType, ProcState
  <1>2. \A p \in Proc : Owing'[p] = proc'[p].removed
    BY Zenon DEF Owing
  <1>3. Unreturned' = Owed(Proc, Owing')
    BY Zenon, <1>2 DEF Unreturned, Owed
  <1> QED BY Zenon, <1>1, <1>3 DEF Owing

LEMMA OwingOf ==
    ASSUME ShapeInv, NEW p \in Proc, NEW h, proc' = [proc EXCEPT ![p] = h]
    PROVE  /\ Owing[p] = proc[p].removed /\ Owing'[p] = h.removed
           /\ \A q \in Proc : q # p => Owing'[q] = Owing[q]
  BY Zenon DEF ShapeInv, MutexInv, MemType, Owing

LEMMA SameStanding ==
    ASSUME tat' = tat, log' = log
    PROVE  Standing' = Standing /\ Counters' = Counters
           /\ \A t, l : Has(t, l)' = Has(t, l)
  BY Zenon DEF Standing, Counters, Has

(* A step that owes as before and has as many counters as before.          *)
LEMMA SameAccounts ==
    ASSUME ShapeInv, ShapeInv', AccountInv, NEW p \in Proc, NEW h,
           proc' = [proc EXCEPT ![p] = h], h.removed = proc[p].removed,
           tat' = tat, log' = log, keys' = keys
    PROVE  AccountInv'
  <1>1. Owing' = Owing
    <2>1. \A q \in Proc : Owing'[q] = Owing[q]
      BY Zenon, OwingOf
    <2>2. Owing \in [Proc -> Nat] /\ Owing' \in [Proc -> Nat]
      BY Zenon, UnreturnedIsOwed, UnreturnedIsOwedNext
    <2> QED BY <2>1, <2>2
  <1>2. Unreturned' = Unreturned
    BY Zenon, <1>1, UnreturnedIsOwed, UnreturnedIsOwedNext
  <1>3. Standing' = Standing /\ Counters' = Counters
    BY Zenon, SameStanding
  <1> QED BY Zenon, <1>2, <1>3 DEF AccountInv, KeysAccounted

LEMMA Times ==
    ASSUME NEW t, NEW F \in SUBSET Limits
    PROVE  IsFiniteSet({t} \X F) /\ Cardinality({t} \X F) = Cardinality(F)
  <1>1. IsFiniteSet({t}) /\ Cardinality({t}) = 1
    BY Zenon, FS_Singleton
  <1>2. IsFiniteSet(F) /\ Cardinality(F) \in Nat
    BY Zenon, FewLimits
  <1>3. IsFiniteSet({t} \X F) /\ Cardinality({t} \X F) = 1 * Cardinality(F)
    BY Zenon, <1>1, <1>2, FS_Product
  <1> QED BY <1>2, <1>3

(* A commit adds the counters it found missing.                            *)
LEMMA CommitAdds ==
    ASSUME ShapeInv, NEW p \in Checker, Commit(p)
    PROVE  LET F == {l \in proc[p].lims : ~Has(proc[p].tenant, l)}
           IN  /\ F \in SUBSET Limits
               /\ Standing' = Standing \cup ({proc[p].tenant} \X F)
               /\ Standing \cap ({proc[p].tenant} \X F) = {}
  <1>0. PICK t \in Tenant, lims \in SUBSET Limits : t = proc[p].tenant /\ lims = proc[p].lims
    BY Zenon, CommitMoves
  <1> DEFINE F == {l \in lims : ~Has(t, l)}
  <1>1. t \in Tenant /\ lims \in SUBSET Limits
    BY Zenon
  <1>2. /\ \A u \in Tenant : u # t => tat'[u] = tat[u] /\ log'[u] = log[u]
        /\ "bucket" \in lims => tat'[t] # 0
        /\ "bucket" \notin lims => tat'[t] = tat[t]
        /\ "window" \in lims => log'[t] # <<>>
        /\ "window" \notin lims => log'[t] = log[t]
    BY Zenon, <1>0, CommitCharges
  <1>3. \A u \in Tenant, l \in Limits : u # t => (Has(u, l)' <=> Has(u, l))
    BY Zenon, <1>2 DEF Has
  <1>4. \A l \in Limits : Has(t, l)' <=> Has(t, l) \/ l \in lims
    BY Zenon, <1>1, <1>2 DEF Has, Limits
  <1>5. \A u \in Tenant, l \in Limits : <<u, l>> \in Standing <=> Has(u, l)
    BY Zenon DEF Standing
  <1>6. \A u \in Tenant, l \in Limits : <<u, l>> \in Standing' <=> Has(u, l)'
    BY Zenon DEF Standing
  <1>7. Standing \subseteq Tenant \X Limits /\ Standing' \subseteq Tenant \X Limits
    BY Zenon DEF Standing
  <1>8. \A l \in Limits : l \in F <=> l \in lims /\ ~Has(t, l)
    BY Zenon
  <1>9. F \in SUBSET Limits
    BY Zenon, <1>1
  <1> HIDE DEF F
  <1>10. Standing' = Standing \cup ({t} \X F)
    <2>1. ASSUME NEW u \in Tenant, NEW l \in Limits
          PROVE  <<u, l>> \in Standing' <=> <<u, l>> \in Standing \cup ({t} \X F)
      BY Zenon, <1>3, <1>4, <1>5, <1>6, <1>8
    <2>2. {t} \X F \subseteq Tenant \X Limits
      BY Zenon, <1>1, <1>9
    <2> QED BY <1>7, <2>1, <2>2
  <1>11. Standing \cap ({t} \X F) = {}
    BY <1>1, <1>5, <1>8, <1>9
  <1> QED BY Zenon, <1>0, <1>9, <1>10, <1>11 DEF F

(* A sweep takes away the counters that have expired.                      *)
LEMMA SweepTenantTakes ==
    ASSUME ShapeInv, NEW p \in Proc, NEW t \in Tenant, SweepTenant(p, t)
    PROVE  LET dead == Expired(p, t)
           IN  /\ dead \in SUBSET Limits
               /\ Standing = Standing' \cup ({t} \X dead)
               /\ Standing' \cap ({t} \X dead) = {}
  <1> DEFINE dead == Expired(p, t)
  <1>1. dead \in SUBSET Limits /\ \A l \in dead : Has(t, l)
    BY Zenon DEF Expired
  <1>2. /\ \A u \in Tenant : u # t => tat'[u] = tat[u] /\ log'[u] = log[u]
        /\ tat'[t] = IF "bucket" \in dead THEN 0 ELSE tat[t]
        /\ log'[t] = IF "window" \in dead THEN <<>> ELSE log[t]
    BY Zenon, SweepTenantDrops
  <1> HIDE DEF dead
  <1>3. \A u \in Tenant, l \in Limits : u # t => (Has(u, l)' <=> Has(u, l))
    BY Zenon, <1>2 DEF Has
  <1>4. \A l \in Limits : Has(t, l)' <=> Has(t, l) /\ l \notin dead
    BY Zenon, <1>2 DEF Has, Limits
  <1>5. \A u \in Tenant, l \in Limits : <<u, l>> \in Standing <=> Has(u, l)
    BY Zenon DEF Standing
  <1>6. \A u \in Tenant, l \in Limits : <<u, l>> \in Standing' <=> Has(u, l)'
    BY Zenon DEF Standing
  <1>7. Standing \subseteq Tenant \X Limits /\ Standing' \subseteq Tenant \X Limits
    BY Zenon DEF Standing
  <1>8. Standing = Standing' \cup ({t} \X dead)
    <2>1. ASSUME NEW u \in Tenant, NEW l \in Limits
          PROVE  <<u, l>> \in Standing <=> <<u, l>> \in Standing' \cup ({t} \X dead)
      BY Zenon, <1>1, <1>3, <1>4, <1>5, <1>6
    <2>2. {t} \X dead \subseteq Tenant \X Limits
      BY Zenon, <1>1
    <2> QED BY <1>7, <2>1, <2>2
  <1>9. Standing' \cap ({t} \X dead) = {}
    BY <1>1, <1>4, <1>6
  <1> QED BY Zenon, <1>1, <1>8, <1>9 DEF dead

LEMMA AccountTick ==
    ASSUME AccountInv, Tick \/ UNCHANGED vars
    PROVE  AccountInv'
  <1>1. tat' = tat /\ log' = log /\ keys' = keys /\ proc' = proc
    BY Zenon DEF Tick, vars
  <1>2. Standing' = Standing /\ Counters' = Counters
    BY Zenon, <1>1, SameStanding
  <1>3. Unreturned' = Unreturned
    BY Zenon, <1>1 DEF Unreturned
  <1> QED BY Zenon, <1>1, <1>2, <1>3 DEF AccountInv, KeysAccounted

LEMMA AccountCommit ==
    ASSUME ShapeInv, ShapeInv', AccountInv, NEW p \in Checker, Commit(p)
    PROVE  AccountInv'
  <1> DEFINE t == proc[p].tenant
             F == {l \in proc[p].lims : ~Has(t, l)}
             n == Cardinality(F)
  <1>1. p \in Proc
    BY Zenon DEF Proc
  <1>2. proc[p].removed = 0
    <2>1. ShapeOf(p, proc[p]) /\ proc[p].pc = "commit"
      BY Zenon, <1>1, CommitMoves DEF ShapeInv
    <2> QED BY Zenon, <2>1 DEF ShapeOf
  <1>3. proc' = [proc EXCEPT ![p] = Idle] /\ keys' = keys + n
    BY Zenon, CommitMoves DEF Fresh
  <1>4. Idle.removed = 0
    BY Zenon DEF Idle
  <1>5. Owing' = Owing
    <2>1. \A q \in Proc : Owing'[q] = Owing[q]
      BY Zenon, <1>1, <1>2, <1>3, <1>4, OwingOf
    <2>2. Owing \in [Proc -> Nat] /\ Owing' \in [Proc -> Nat]
      BY Zenon, UnreturnedIsOwed, UnreturnedIsOwedNext
    <2> QED BY <2>1, <2>2
  <1>6. Unreturned' = Unreturned
    BY Zenon, <1>5, UnreturnedIsOwed, UnreturnedIsOwedNext
  <1>7. /\ F \in SUBSET Limits
        /\ Standing' = Standing \cup ({t} \X F) /\ Standing \cap ({t} \X F) = {}
    BY Zenon, CommitAdds
  <1>8. n \in Nat
    BY Zenon, <1>7, FewLimits
  <1>9. IsFiniteSet({t} \X F) /\ Cardinality({t} \X F) = n
    BY Zenon, <1>7, Times
  <1>10. IsFiniteSet(Standing) /\ Cardinality(Standing) = Counters
    BY Zenon DEF AccountInv, Standing, Counters
  <1>11. Cardinality(Standing)' = Counters'
    BY Zenon DEF Standing, Counters
  <1> HIDE DEF t, F, n
  <1>12. IsFiniteSet(Standing') /\ Cardinality(Standing') = Counters + n
    BY Zenon, <1>7, <1>9, <1>10, Apart
  <1>13. Counters \in Nat /\ Cardinality(Unreturned) \in Nat
    BY Zenon, <1>10, FS_CardinalityType DEF AccountInv
  <1>14. keys' = Counters + n + Cardinality(Unreturned)
    BY <1>3, <1>8, <1>13 DEF AccountInv, KeysAccounted
  <1>15. keys' = Counters' + Cardinality(Unreturned')
    BY Zenon, <1>6, <1>11, <1>12, <1>14
  <1> QED BY Zenon, <1>6, <1>12, <1>15 DEF AccountInv, KeysAccounted

LEMMA AccountSweepTenant ==
    ASSUME ShapeInv, ShapeInv', AccountInv, NEW p \in Proc, NEW t \in Tenant, SweepTenant(p, t)
    PROVE  AccountInv'
  <1> DEFINE F == Expired(p, t)
             n == Cardinality(F)
  <1>1. PICK h \in ProcState : /\ proc' = [proc EXCEPT ![p] = h]
                               /\ h.removed = proc[p].removed + n /\ keys' = keys
    BY Zenon, SweepTenantMoves
  <1>2. /\ F \in SUBSET Limits
        /\ Standing = Standing' \cup ({t} \X F) /\ Standing' \cap ({t} \X F) = {}
    BY Zenon, SweepTenantTakes
  <1>3. n \in Nat
    BY Zenon, <1>2, FewLimits
  <1>4. IsFiniteSet({t} \X F) /\ Cardinality({t} \X F) = n
    BY Zenon, <1>2, Times
  <1>5. Owing'[p] = Owing[p] + n /\ \A q \in Proc : q # p => Owing'[q] = Owing[q]
    BY Zenon, <1>1, OwingOf
  <1>6. Owing \in [Proc -> Nat] /\ Unreturned = Owed(Proc, Owing)
    BY Zenon, UnreturnedIsOwed
  <1>7. Owing' \in [Proc -> Nat] /\ Unreturned' = Owed(Proc, Owing')
    BY Zenon, UnreturnedIsOwedNext
  <1>8. IsFiniteSet(Standing) /\ Cardinality(Standing) = Counters /\ IsFiniteSet(Unreturned)
    BY Zenon DEF AccountInv, Standing, Counters
  <1>9. Cardinality(Standing)' = Counters'
    BY Zenon DEF Standing, Counters
  <1> HIDE DEF F, n
  <1>10. IsFiniteSet(Unreturned') /\ Cardinality(Unreturned') = Cardinality(Unreturned) + n
    BY Zenon, <1>3, <1>5, <1>6, <1>7, <1>8, OwedMore
  <1>11. IsFiniteSet(Standing')
    <2>1. Standing' \subseteq Standing
      BY Zenon, <1>2
    <2> QED BY Zenon, <1>8, <2>1, FS_Subset
  <1>12. Counters = Cardinality(Standing') + n
    BY Zenon, <1>2, <1>4, <1>8, <1>11, Apart
  <1>13. Cardinality(Standing') \in Nat /\ Cardinality(Unreturned) \in Nat
    BY Zenon, <1>8, <1>11, FS_CardinalityType
  <1>14. keys = Counters + Cardinality(Unreturned)
    BY Zenon DEF AccountInv, KeysAccounted
  <1>15. keys' = Counters' + Cardinality(Unreturned')
    BY <1>1, <1>3, <1>9, <1>10, <1>12, <1>13, <1>14
  <1> QED BY Zenon, <1>10, <1>11, <1>15 DEF AccountInv, KeysAccounted

LEMMA AccountSweepEnd ==
    ASSUME ShapeInv, ShapeInv', AccountInv, NEW p \in Proc, SweepEnd(p)
    PROVE  AccountInv'
  <1> DEFINE n == proc[p].removed
  <1>1. PICK h \in ProcState : /\ proc' = [proc EXCEPT ![p] = h] /\ h.removed = 0
                               /\ keys' = keys - n /\ tat' = tat /\ log' = log
    BY Zenon, SweepEndMoves
  <1>2. Owing[p] = n /\ Owing'[p] = 0 /\ \A q \in Proc : q # p => Owing'[q] = Owing[q]
    BY Zenon, <1>1, OwingOf
  <1>3. Owing \in [Proc -> Nat] /\ Unreturned = Owed(Proc, Owing)
    BY Zenon, UnreturnedIsOwed
  <1>4. Owing' \in [Proc -> Nat] /\ Unreturned' = Owed(Proc, Owing')
    BY Zenon, UnreturnedIsOwedNext
  <1>5. Standing' = Standing /\ Counters' = Counters
    BY Zenon, <1>1, SameStanding
  <1>6. IsFiniteSet(Standing) /\ Cardinality(Standing) = Counters /\ IsFiniteSet(Unreturned)
    BY Zenon DEF AccountInv, Standing, Counters
  <1>7. IsFiniteSet(Unreturned') /\ Cardinality(Unreturned) = Cardinality(Unreturned') + Owing[p]
    BY Zenon, <1>2, <1>3, <1>4, <1>6, OwedNothing
  <1>8. n \in Nat
    BY Zenon, <1>2, <1>3
  <1> HIDE DEF n
  <1>9. Counters \in Nat /\ Cardinality(Unreturned') \in Nat
    BY Zenon, <1>6, <1>7, FS_CardinalityType
  <1>10. keys = Counters + Cardinality(Unreturned)
    BY Zenon DEF AccountInv, KeysAccounted
  <1>11. keys' = Counters' + Cardinality(Unreturned')
    BY <1>1, <1>2, <1>5, <1>7, <1>8, <1>9, <1>10
  <1> QED BY Zenon, <1>5, <1>6, <1>7, <1>11 DEF AccountInv, KeysAccounted

LEMMA AccountStarts == Init => AccountInv
  <1> SUFFICES ASSUME Init PROVE AccountInv
    BY Zenon
  <1>1. Standing = {}
    BY Zenon DEF Init, Standing, Has, Limits
  <1>2. Unreturned = {}
    BY DEF Init, Unreturned, Idle
  <1>3. Counters = 0 /\ Cardinality(Unreturned) = 0
    BY Zenon, <1>1, <1>2, FS_EmptySet DEF Standing, Counters
  <1>4. keys = 0
    BY Zenon DEF Init
  <1> QED BY <1>1, <1>2, <1>3, <1>4, FS_EmptySet DEF AccountInv, KeysAccounted

LEMMA AccountStep ==
    ShapeInv /\ ShapeInv' /\ AccountInv /\ [Next]_vars => AccountInv'
  <1> SUFFICES ASSUME ShapeInv, ShapeInv', AccountInv, [Next]_vars PROVE AccountInv'
    BY Zenon
  <1>1. CASE QuietStep
    <2>1. PICK p \in Proc, h \in ProcState : Quiet(p, h)
      BY Zenon, <1>1 DEF QuietStep
    <2> QED BY Zenon, <2>1, SameAccounts DEF Quiet
  <1>2. ASSUME NEW p \in Checker, Grant(p) PROVE AccountInv'
    <2>1. p \in Proc
      BY Zenon DEF Proc
    <2> QED BY <1>2, <2>1, GrantMoves, SameAccounts
  <1> QED BY Zenon, <1>1, <1>2, StepKinds, AccountTick, AccountCommit, AccountSweepTenant,
             AccountSweepEnd

(* For any number of goroutines, tenants, shards and sweeps the key count  *)
(* is what exists plus what sweeps have removed and not yet given back     *)
(* (memory.go, keys): no interleaving of commits and sweeps makes it lose  *)
(* a counter or count one twice.                                           *)
THEOREM EveryKeyIsCounted == Spec => []KeysAccounted
  <1>1. AccountInv => KeysAccounted
    BY Zenon DEF AccountInv
  <1> QED BY <1>1, ShapeStarts, ShapeStep, AccountStarts, AccountStep, PTL DEF Spec

-----------------------------------------------------------------------------
(* The budget: what has been granted and is not counted yet.               *)
Holding(q, l) ==
    proc[q].pc = "commit" /\ l \in proc[q].lims /\ ~Has(proc[q].tenant, l)
InHand == {x \in Checker \X Limits : Holding(x[1], x[2])}

(* A set of limits that no request's exceeds.                              *)
Widest == IF Limits \in LimitSets THEN Limits ELSE CHOOSE w \in LimitSets : TRUE
Excess == (Cardinality(Checker) - 1) * Cardinality(Widest)

BudgetInv == keys + Cardinality(InHand) <= MaxKeys + Excess

LEMMA InHandFinite == IsFiniteSet(InHand) /\ Cardinality(InHand) \in Nat
  <1>1. IsFiniteSet(Checker) /\ IsFiniteSet(Limits)
    BY Zenon, MemoryAssumption, FewLimits
  <1>2. IsFiniteSet(Checker \X Limits)
    BY Zenon, <1>1, FS_Product
  <1>3. InHand \subseteq Checker \X Limits
    BY Zenon DEF InHand
  <1> QED BY Zenon, <1>2, <1>3, FS_Subset, FS_CardinalityType

LEMMA WidestIsOne ==
    /\ Widest \in LimitSets /\ Cardinality(Widest) \in Nat /\ Cardinality(Widest) >= 1
    /\ Limits \in LimitSets => Widest = Limits
    /\ Excess \in Nat /\ Cardinality(Checker) - 1 \in Nat
  <1>1. Widest \in LimitSets /\ (Limits \in LimitSets => Widest = Limits)
    BY Zenon, MemoryAssumption DEF Widest
  <1>2. Widest \in SUBSET Limits /\ Widest # {}
    BY Zenon, <1>1, MemoryAssumption
  <1>3. IsFiniteSet(Widest) /\ Cardinality(Widest) \in Nat
    BY Zenon, <1>2, FewLimits
  <1>4. Cardinality(Widest) # 0
    BY Zenon, <1>2, <1>3, FS_EmptySet
  <1>5. Cardinality(Checker) \in Nat /\ Cardinality(Checker) # 0
    BY Zenon, MemoryAssumption, FS_EmptySet, FS_CardinalityType
  <1>6. Cardinality(Checker) - 1 \in Nat
    BY <1>5
  <1>7. Excess \in Nat
    BY <1>3, <1>6 DEF Excess
  <1> QED BY <1>1, <1>3, <1>4, <1>6, <1>7

(* What all goroutines but one can have in hand.                           *)
LEMMA OthersHand ==
    ASSUME ShapeInv, NEW p \in Checker, \A l \in Limits : ~Holding(p, l)
    PROVE  Cardinality(InHand) <= Excess
  <1> DEFINE Others == Checker \ {p}
             n == Cardinality(Checker)
  <1>1. IsFiniteSet(Others) /\ Cardinality(Others) = n - 1
    BY Zenon, MemoryAssumption, FS_RemoveElement
  <1>2. n - 1 \in Nat
    BY Zenon, WidestIsOne
  <1>3. InHand \subseteq Others \X Limits
    BY Zenon DEF InHand
  <1>4. CASE Limits \in LimitSets
    <2>1. IsFiniteSet(Limits)
      BY Zenon, FewLimits
    <2>2. /\ IsFiniteSet(Others \X Limits)
          /\ Cardinality(Others \X Limits) = Cardinality(Others) * Cardinality(Limits)
      BY Zenon, <1>1, <2>1, FS_Product
    <2>3. Cardinality(InHand) <= Cardinality(Others \X Limits)
      BY Zenon, <1>3, <2>2, FS_Subset
    <2>4. Widest = Limits
      BY Zenon, <1>4, WidestIsOne
    <2> HIDE DEF Others, n
    <2> QED BY Zenon, <1>1, <2>2, <2>3, <2>4 DEF Excess, n
  <1>5. CASE Limits \notin LimitSets
    <2>1. \A x, y \in InHand : x[1] = y[1] => x = y
      <3>1. SUFFICES ASSUME NEW x \in InHand, NEW y \in InHand, x[1] = y[1] PROVE x = y
        BY Zenon
      <3>2. PICK q \in Checker, a \in Limits, b \in Limits : x = <<q, a>> /\ y = <<q, b>>
        BY <3>1 DEF InHand
      <3>3. Holding(q, a) /\ Holding(q, b)
        BY Zenon, <3>2 DEF InHand
      <3>4. a \in proc[q].lims /\ b \in proc[q].lims /\ proc[q].pc = "commit"
        BY Zenon, <3>3 DEF Holding
      <3>5. proc[q].lims \in LimitSets
        <4>1. q \in Proc
          BY Zenon DEF Proc
        <4>2. ShapeOf(q, proc[q])
          BY Zenon, <4>1 DEF ShapeInv
        <4> QED BY Zenon, <3>4, <4>2 DEF ShapeOf
      <3>6. proc[q].lims \subseteq Limits /\ proc[q].lims # Limits
        BY Zenon, <1>5, <3>5, MemoryAssumption
      <3>7. a = b
        BY Zenon, <3>4, <3>6 DEF Limits
      <3> QED BY Zenon, <3>2, <3>7
    <2> DEFINE f == [x \in InHand |-> x[1]]
    <2>2. f \in Injection(InHand, Others)
      <3>1. \A x \in InHand : f[x] \in Others
        BY Zenon, <1>3
      <3>2. f \in [InHand -> Others]
        BY Zenon, <3>1
      <3>3. \A x, y \in InHand : f[x] = f[y] => x = y
        BY Zenon, <2>1
      <3> HIDE DEF f
      <3> QED BY Zenon, <3>2, <3>3 DEF Injection, IsInjective
    <2>3. Cardinality(InHand) <= Cardinality(Others)
      BY Zenon, <1>1, <2>2, FS_Injection
    <2>4. n - 1 <= Excess
      <3> DEFINE w == Cardinality(Widest)
      <3>1. w \in Nat /\ w >= 1 /\ Excess = (n - 1) * w
        BY Zenon, WidestIsOne DEF Excess
      <3> DEFINE m == n - 1
      <3>2. m \in Nat
        BY Zenon, <1>2
      <3> HIDE DEF w, m
      <3>3. m <= m * w
        BY <3>1, <3>2
      <3> QED BY Zenon, <3>1, <3>3 DEF m
    <2> HIDE DEF Others, n
    <2>5. Cardinality(InHand) \in Nat /\ Excess \in Nat
      BY Zenon, InHandFinite, WidestIsOne
    <2> QED BY <1>1, <1>2, <2>3, <2>4, <2>5
  <1> QED BY Zenon, <1>4, <1>5

LEMMA SameHand ==
    ASSUME \A q \in Checker, l \in Limits : Holding(q, l)' <=> Holding(q, l)
    PROVE  InHand' = InHand
  <1>1. \A x \in Checker \X Limits : x \in InHand' <=> x \in InHand
    BY Zenon DEF InHand
  <1>2. InHand \subseteq Checker \X Limits /\ InHand' \subseteq Checker \X Limits
    BY Zenon DEF InHand
  <1> QED BY Zenon, <1>1, <1>2

(* A step of a goroutine that is not about to commit.                      *)
LEMMA HandUntouched ==
    ASSUME ShapeInv, NEW p \in Proc, NEW h, proc' = [proc EXCEPT ![p] = h],
           proc[p].pc # "commit", h.pc # "commit", tat' = tat, log' = log
    PROVE  InHand' = InHand
  <1>1. ASSUME NEW q \in Checker, NEW l \in Limits PROVE Holding(q, l)' <=> Holding(q, l)
    <2>1. q \in Proc /\ proc \in [Proc -> ProcState]
      BY Zenon DEF Proc, ShapeInv, MutexInv, MemType
    <2>2. CASE q = p
      <3>1. proc'[q].pc # "commit" /\ proc[q].pc # "commit"
        BY Zenon, <2>1, <2>2
      <3> QED BY Zenon, <3>1 DEF Holding
    <2>3. CASE q # p
      <3>1. proc'[q] = proc[q]
        BY Zenon, <2>1, <2>3
      <3> QED BY Zenon, <3>1 DEF Holding, Has
    <2> QED BY Zenon, <2>2, <2>3
  <1> QED BY Zenon, <1>1, SameHand

LEMMA BudgetGrant ==
    ASSUME ShapeInv, AccountInv, BudgetInv, NEW p \in Checker, Grant(p)
    PROVE  BudgetInv'
  <1> DEFINE t == proc[p].tenant
             F == {l \in proc[p].lims : ~Has(t, l)}
             n == Cardinality(F)
  <1>1. PICK h \in ProcState :
          /\ proc' = [proc EXCEPT ![p] = h] /\ proc[p].pc = "locked" /\ h.pc = "commit"
          /\ h.tenant = t /\ h.lims = proc[p].lims
          /\ tat' = tat /\ log' = log /\ keys' = keys
    BY Zenon, GrantMoves
  <1>2. p \in Proc /\ proc \in [Proc -> ProcState]
    BY Zenon DEF Proc, ShapeInv, MutexInv, MemType
  <1>3. F \in SUBSET Limits
    BY Zenon, <1>2 DEF ProcState
  <1>4. IsFiniteSet({p} \X F) /\ Cardinality({p} \X F) = n /\ n \in Nat
    BY Zenon, <1>3, Times, FewLimits
  <1>5. \A l \in Limits : ~Holding(p, l)
    BY Zenon, <1>1 DEF Holding
  <1>6. Cardinality(InHand) <= Excess
    BY Zenon, <1>5, OthersHand
  <1>7. n > 0 => keys + n <= MaxKeys
    BY Zenon DEF Grant, Room, Fresh
  <1>8. InHand' = InHand \cup ({p} \X F)
    <2>1. ASSUME NEW q \in Checker, NEW l \in Limits, q # p
          PROVE  Holding(q, l)' <=> Holding(q, l)
      <3>1. proc'[q] = proc[q]
        BY Zenon, <1>1, <1>2, <2>1 DEF Proc
      <3> QED BY Zenon, <1>1, <3>1 DEF Holding, Has
    <2>2. ASSUME NEW l \in Limits PROVE Holding(p, l)' <=> l \in F
      <3>1. proc'[p] = h
        BY Zenon, <1>1, <1>2
      <3>2. proc'[p].pc = "commit" /\ proc'[p].tenant = t /\ proc'[p].lims = proc[p].lims
        BY Zenon, <1>1, <3>1
      <3>3. Has(proc[p].tenant, l)' <=> Has(t, l)
        BY Zenon, <1>1, <3>2 DEF Has
      <3> QED BY Zenon, <3>2, <3>3 DEF Holding
    <2> HIDE DEF F
    <2>3. ASSUME NEW q \in Checker, NEW l \in Limits
          PROVE  <<q, l>> \in InHand' <=> <<q, l>> \in InHand \cup ({p} \X F)
      BY Zenon, <1>5, <2>1, <2>2 DEF InHand
    <2>4. /\ InHand \subseteq Checker \X Limits /\ InHand' \subseteq Checker \X Limits
          /\ {p} \X F \subseteq Checker \X Limits
      BY Zenon, <1>3 DEF InHand
    <2> QED BY <2>3, <2>4
  <1>9. InHand \cap ({p} \X F) = {}
    BY Zenon, <1>5 DEF InHand
  <1>10. IsFiniteSet(InHand) /\ Cardinality(InHand) \in Nat
    BY Zenon, InHandFinite
  <1> HIDE DEF t, F, n
  <1>11. Cardinality(InHand') = Cardinality(InHand) + n
    BY Zenon, <1>4, <1>8, <1>9, <1>10, Apart
  <1>12. keys \in Nat
    BY FS_CardinalityType DEF AccountInv, KeysAccounted, Standing, Counters
  <1>13. MaxKeys \in Nat /\ Excess \in Nat /\ n \in Nat
    BY Zenon, <1>4, MemoryAssumption, WidestIsOne
  <1>14. keys + Cardinality(InHand) <= MaxKeys + Excess
    BY Zenon DEF BudgetInv
  <1>15. keys + (Cardinality(InHand) + n) <= MaxKeys + Excess
    BY <1>6, <1>7, <1>10, <1>12, <1>13, <1>14
  <1> QED BY Zenon, <1>1, <1>11, <1>15 DEF BudgetInv, Excess

LEMMA BudgetCommit ==
    ASSUME ShapeInv, AccountInv, BudgetInv, NEW p \in Checker, Commit(p)
    PROVE  BudgetInv'
  <1> DEFINE t == proc[p].tenant
             F == {l \in proc[p].lims : ~Has(t, l)}
             n == Cardinality(F)
  <1>1. /\ proc' = [proc EXCEPT ![p] = Idle] /\ proc[p].pc = "commit" /\ keys' = keys + n
        /\ t \in Tenant
    BY Zenon, CommitMoves DEF Fresh
  <1>2. p \in Proc /\ proc \in [Proc -> ProcState]
    BY Zenon DEF Proc, ShapeInv, MutexInv, MemType
  <1>3. F \in SUBSET Limits
    BY Zenon, <1>2 DEF ProcState
  <1>4. IsFiniteSet({p} \X F) /\ Cardinality({p} \X F) = n /\ n \in Nat
    BY Zenon, <1>3, Times, FewLimits
  <1>5. \A u \in Tenant : u # t => tat'[u] = tat[u] /\ log'[u] = log[u]
    BY Zenon, CommitCharges
  <1>6. ASSUME NEW q \in Checker, NEW l \in Limits, q # p
        PROVE  Holding(q, l)' <=> Holding(q, l)
    <2>1. proc'[q] = proc[q]
      BY Zenon, <1>1, <1>2, <1>6 DEF Proc
    <2>2. CASE proc[q].pc = "commit"
      <3>1. proc[q].tenant # t
        BY Zenon, <1>1, <1>6, <2>2, CommittersApart
      <3>2. proc[q].tenant \in Tenant
        BY Zenon, <2>2 DEF ShapeInv, MutexInv, Holds
      <3>3. tat'[proc[q].tenant] = tat[proc[q].tenant] /\ log'[proc[q].tenant] = log[proc[q].tenant]
        BY Zenon, <1>5, <3>1, <3>2
      <3> QED BY Zenon, <2>1, <3>3 DEF Holding, Has
    <2>3. CASE proc[q].pc # "commit"
      BY Zenon, <2>1, <2>3 DEF Holding
    <2> QED BY Zenon, <2>2, <2>3
  <1>7. ASSUME NEW l \in Limits PROVE ~Holding(p, l)' /\ (Holding(p, l) <=> l \in F)
    <2>1. proc'[p].pc = "idle"
      BY Zenon, <1>1, <1>2 DEF Idle
    <2> QED BY Zenon, <1>1, <2>1 DEF Holding
  <1> HIDE DEF F
  <1>8. InHand = InHand' \cup ({p} \X F)
    <2>1. ASSUME NEW q \in Checker, NEW l \in Limits
          PROVE  <<q, l>> \in InHand <=> <<q, l>> \in InHand' \cup ({p} \X F)
      BY Zenon, <1>6, <1>7 DEF InHand
    <2>2. /\ InHand \subseteq Checker \X Limits /\ InHand' \subseteq Checker \X Limits
          /\ {p} \X F \subseteq Checker \X Limits
      BY Zenon, <1>3 DEF InHand
    <2> QED BY <2>1, <2>2
  <1>9. InHand' \cap ({p} \X F) = {}
    BY Zenon, <1>3, <1>7 DEF InHand
  <1>10. IsFiniteSet(InHand')
    <2>1. InHand' \subseteq InHand
      BY Zenon, <1>8
    <2> QED BY Zenon, <2>1, InHandFinite, FS_Subset
  <1> HIDE DEF t, n
  <1>11. Cardinality(InHand) = Cardinality(InHand') + n
    BY Zenon, <1>4, <1>8, <1>9, <1>10, Apart
  <1>12. keys \in Nat
    BY FS_CardinalityType DEF AccountInv, KeysAccounted, Standing, Counters
  <1>13. Cardinality(InHand') \in Nat /\ MaxKeys \in Nat /\ Excess \in Nat
    BY Zenon, <1>10, FS_CardinalityType, MemoryAssumption, WidestIsOne
  <1>14. keys + Cardinality(InHand) <= MaxKeys + Excess
    BY Zenon DEF BudgetInv
  <1>15. (keys + n) + Cardinality(InHand') <= MaxKeys + Excess
    BY <1>4, <1>11, <1>12, <1>13, <1>14
  <1> QED BY Zenon, <1>1, <1>15 DEF BudgetInv, Excess

LEMMA BudgetSweepTenant ==
    ASSUME ShapeInv, BudgetInv, NEW p \in Proc, NEW t \in Tenant, SweepTenant(p, t)
    PROVE  BudgetInv'
  <1>1. PICK h \in ProcState :
          /\ proc' = [proc EXCEPT ![p] = h] /\ proc[p].pc = "tenants" /\ h.pc = "tenants"
          /\ keys' = keys
    BY Zenon, SweepTenantMoves
  <1>2. proc \in [Proc -> ProcState]
    BY Zenon DEF ShapeInv, MutexInv, MemType
  <1>3. \A u \in Tenant : u # t => tat'[u] = tat[u] /\ log'[u] = log[u]
    BY Zenon, SweepTenantDrops
  <1>4. ASSUME NEW q \in Checker, NEW l \in Limits PROVE Holding(q, l)' <=> Holding(q, l)
    <2>1. q \in Proc
      BY Zenon DEF Proc
    <2>2. CASE proc[q].pc = "commit"
      <3>1. proc'[q] = proc[q]
        BY Zenon, <1>1, <1>2, <2>1, <2>2
      <3>2. proc[q].tenant \in Tenant /\ proc[q].tenant # t
        BY Zenon, <2>2, NobodyCommits
      <3>3. tat'[proc[q].tenant] = tat[proc[q].tenant] /\ log'[proc[q].tenant] = log[proc[q].tenant]
        BY Zenon, <1>3, <3>2
      <3> QED BY Zenon, <3>1, <3>3 DEF Holding, Has
    <2>3. CASE proc[q].pc # "commit"
      <3>1. proc'[q].pc # "commit"
        BY Zenon, <1>1, <1>2, <2>1, <2>3
      <3> QED BY Zenon, <2>3, <3>1 DEF Holding
    <2> QED BY Zenon, <2>2, <2>3
  <1>5. InHand' = InHand
    BY Zenon, <1>4, SameHand
  <1> QED BY Zenon, <1>1, <1>5 DEF BudgetInv, Excess

LEMMA BudgetSweepEnd ==
    ASSUME ShapeInv, AccountInv, BudgetInv, NEW p \in Proc, SweepEnd(p)
    PROVE  BudgetInv'
  <1>1. PICK h \in ProcState :
          /\ proc' = [proc EXCEPT ![p] = h] /\ proc[p].pc = "shard" /\ h.pc \in {"idle", "clock"}
          /\ keys' = keys - proc[p].removed /\ tat' = tat /\ log' = log
    BY Zenon, SweepEndMoves
  <1>2. InHand' = InHand
    BY Zenon, <1>1, HandUntouched
  <1>3. proc[p].removed \in Nat
    BY Zenon DEF ShapeInv, MutexInv, MemType, ProcState
  <1>4. keys \in Nat
    BY FS_CardinalityType DEF AccountInv, KeysAccounted, Standing, Counters
  <1>5. Cardinality(InHand) \in Nat /\ MaxKeys \in Nat /\ Excess \in Nat
    BY Zenon, InHandFinite, MemoryAssumption, WidestIsOne
  <1>6. keys + Cardinality(InHand) <= MaxKeys + Excess
    BY Zenon DEF BudgetInv
  <1>7. keys - proc[p].removed + Cardinality(InHand) <= MaxKeys + Excess
    BY <1>3, <1>4, <1>5, <1>6
  <1> QED BY Zenon, <1>1, <1>2, <1>7 DEF BudgetInv, Excess

LEMMA BudgetStarts == Init => BudgetInv
  <1> SUFFICES ASSUME Init PROVE BudgetInv
    BY Zenon
  <1>1. InHand = {}
    BY Zenon DEF Init, InHand, Holding, Idle, Proc
  <1>2. Cardinality(InHand) = 0 /\ keys = 0
    BY Zenon, <1>1, FS_EmptySet DEF Init
  <1> QED BY <1>2, MemoryAssumption, WidestIsOne DEF BudgetInv

LEMMA BudgetStep ==
    ShapeInv /\ AccountInv /\ BudgetInv /\ [Next]_vars => BudgetInv'
  <1> SUFFICES ASSUME ShapeInv, AccountInv, BudgetInv, [Next]_vars PROVE BudgetInv'
    BY Zenon
  <1>1. CASE QuietStep
    <2>1. PICK p \in Proc, h \in ProcState : Quiet(p, h)
      BY Zenon, <1>1 DEF QuietStep
    <2>2. InHand' = InHand /\ keys' = keys
      BY Zenon, <2>1, HandUntouched DEF Quiet
    <2> QED BY Zenon, <2>2 DEF BudgetInv, Excess
  <1>2. CASE Tick \/ UNCHANGED vars
    <2>1. tat' = tat /\ log' = log /\ proc' = proc /\ keys' = keys
      BY Zenon, <1>2 DEF Tick, vars
    <2>2. InHand' = InHand
      BY Zenon, <2>1 DEF InHand, Holding, Has
    <2> QED BY Zenon, <2>1, <2>2 DEF BudgetInv, Excess
  <1> QED BY Zenon, <1>1, <1>2, StepKinds, BudgetGrant, BudgetCommit, BudgetSweepTenant, BudgetSweepEnd

(* The budget of counters (memory.go, WithMaxKeys) is overrun by no more   *)
(* than what every other goroutine can have granted before any of them     *)
(* adds it to the count, for any number of goroutines, tenants and shards. *)
THEOREM BudgetIsNearlyKept == Spec => []BudgetNearlyHolds
  <1>1. AccountInv /\ BudgetInv => BudgetNearlyHolds
    <2> SUFFICES ASSUME AccountInv, BudgetInv PROVE BudgetNearlyHolds
      BY Zenon
    <2>1. keys = Counters + Cardinality(Unreturned)
      BY Zenon DEF AccountInv, KeysAccounted
    <2>2. Counters \in Nat /\ Cardinality(Unreturned) \in Nat
      BY Zenon, FS_CardinalityType DEF AccountInv, Standing, Counters
    <2>3. Cardinality(InHand) \in Nat /\ MaxKeys \in Nat /\ Excess \in Nat
      BY Zenon, InHandFinite, MemoryAssumption, WidestIsOne
    <2>4. Counters <= MaxKeys + Excess
      BY <2>1, <2>2, <2>3 DEF BudgetInv
    <2>5. Widest \in LimitSets
      BY Zenon, WidestIsOne
    <2> QED BY Zenon, <2>4, <2>5 DEF Excess, BudgetNearlyHolds
  <1> QED BY <1>1, ShapeStarts, ShapeStep, AccountStarts, AccountStep, BudgetStarts,
             BudgetStep, PTL DEF Spec
=============================================================================
