-------------------------- MODULE MemoryExactProofs -------------------------
(***************************************************************************)
(* What the in-memory limiter admits, for any number of goroutines,        *)
(* tenants, shards and sweeps and for any limits: what is admitted, and    *)
(* how long a refused caller is told to wait, is exact until a check is    *)
(* overtaken (ExactInv).                                                   *)
(***************************************************************************)
EXTENDS MemoryProofs

(* Exactness of the limiter: what a counter has forgotten is older than    *)
(* every reading that a check of the tenant has in hand.                   *)
Waits(q, t) == proc[q].pc \in Hand /\ proc[q].tenant = t
Behind(q, t) == log[t] # <<>> /\ Last(log[t]) > proc[q].at

BucketAt(t, h) ==
    /\ h <= now /\ \A q \in Checker : Waits(q, t) => h <= proc[q].at
    /\ BucketFits(admitted[t]["bucket"], tat[t], h)
BucketExact(t) ==
    /\ IsFiniteSet(admitted[t]["bucket"]) /\ BucketHeld(admitted[t]["bucket"])
    /\ \E h \in Nat : BucketAt(t, h)

WindowAt(t, h) ==
    /\ h <= now /\ \A q \in Checker : Waits(q, t) => h <= proc[q].at \/ Behind(q, t)
    /\ Reached(admitted[t]["window"], log[t], h)
    /\ WindowFits(admitted[t]["window"], log[t], h)
WindowExact(t) ==
    /\ IsFiniteSet(admitted[t]["window"]) /\ WindowHeld(admitted[t]["window"])
    /\ InOrder(log[t])
    /\ \E h \in Nat : WindowAt(t, h)

(* What was decided under the lock still holds when it is written.         *)
Granted(q) ==
    proc[q].pc = "commit" =>
        Allows(proc[q].tenant, proc[q].lims, proc[q].at, proc[q].cost)

ExactInv ==
    /\ admitted \in [Tenant -> [Limits -> SUBSET (Nat \X Nat)]]
    /\ overtaken \in [Tenant -> BOOLEAN]
    /\ \A q \in Checker : Granted(q)
    /\ \A t \in Tenant : ~overtaken[t] => BucketExact(t) /\ WindowExact(t)

(* A step after which a check of t has the reading it had, or a new one.   *)
Onward(t) ==
    \A q \in Checker : Waits(q, t)' =>
        proc'[q].at = now \/ (Waits(q, t) /\ proc'[q].at = proc[q].at)

LEMMA BucketStays ==
    ASSUME NEW t \in Tenant, BucketExact(t), Onward(t), now \in Nat, now' \in Nat, now <= now',
           tat'[t] = tat[t], admitted'[t]["bucket"] = admitted[t]["bucket"]
    PROVE  BucketExact(t)'
  <1>1. PICK h \in Nat : BucketAt(t, h)
    BY Zenon DEF BucketExact
  <1>2. h <= now /\ \A q \in Checker : Waits(q, t) => h <= proc[q].at
    BY Zenon, <1>1 DEF BucketAt
  <1>3. h <= now'
    BY <1>2
  <1>4. ASSUME NEW q \in Checker, Waits(q, t)' PROVE h <= proc'[q].at
    BY Zenon, <1>2, <1>4 DEF Onward
  <1>5. BucketFits(admitted'[t]["bucket"], tat'[t], h)
    BY Zenon, <1>1 DEF BucketAt
  <1>6. BucketAt(t, h)'
    BY Zenon, <1>3, <1>4, <1>5 DEF BucketAt, BucketFits
  <1>7. IsFiniteSet(admitted'[t]["bucket"]) /\ BucketHeld(admitted'[t]["bucket"])
    BY Zenon DEF BucketExact
  <1> QED BY Zenon, <1>6, <1>7 DEF BucketExact, BucketHeld

LEMMA WindowStays ==
    ASSUME NEW t \in Tenant, WindowExact(t), Onward(t), now \in Nat, now' \in Nat, now <= now',
           log'[t] = log[t], admitted'[t]["window"] = admitted[t]["window"]
    PROVE  WindowExact(t)'
  <1>1. PICK h \in Nat : WindowAt(t, h)
    BY Zenon DEF WindowExact
  <1>2. h <= now /\ \A q \in Checker : Waits(q, t) => h <= proc[q].at \/ Behind(q, t)
    BY Zenon, <1>1 DEF WindowAt
  <1>3. h <= now'
    BY <1>2
  <1>4. ASSUME NEW q \in Checker, Waits(q, t)' PROVE h <= proc'[q].at \/ Behind(q, t)'
    <2>1. CASE proc'[q].at = now
      BY Zenon, <1>2, <2>1
    <2>2. CASE Waits(q, t) /\ proc'[q].at = proc[q].at
      BY Zenon, <1>2, <2>2 DEF Behind, Last
    <2> QED BY Zenon, <1>4, <2>1, <2>2 DEF Onward
  <1>5. /\ Reached(admitted'[t]["window"], log'[t], h)
        /\ WindowFits(admitted'[t]["window"], log'[t], h)
    BY Zenon, <1>1 DEF WindowAt
  <1>6. WindowAt(t, h)'
    BY Zenon, <1>3, <1>4, <1>5 DEF WindowAt, Reached, WindowFits
  <1>7. /\ IsFiniteSet(admitted'[t]["window"]) /\ WindowHeld(admitted'[t]["window"])
        /\ InOrder(log'[t])
    BY Zenon DEF WindowExact
  <1> QED BY Zenon, <1>6, <1>7 DEF WindowExact, WindowHeld, InOrder

LEMMA OnwardByOne ==
    ASSUME ShapeInv, NEW p \in Proc, NEW h, proc' = [proc EXCEPT ![p] = h], NEW t,
           h.pc \in Hand => \/ h.at = now
                            \/ /\ proc[p].pc \in Hand /\ h.at = proc[p].at
                               /\ h.tenant = proc[p].tenant
    PROVE  Onward(t)
  <1>1. ASSUME NEW q \in Checker, Waits(q, t)'
        PROVE  proc'[q].at = now \/ (Waits(q, t) /\ proc'[q].at = proc[q].at)
    <2>1. q \in Proc /\ proc \in [Proc -> ProcState]
      BY Zenon DEF Proc, ShapeInv, MutexInv, MemType
    <2>2. proc'[q].pc \in Hand /\ proc'[q].tenant = t
      BY Zenon, <1>1 DEF Waits
    <2>3. proc'[q] = IF q = p THEN h ELSE proc[q]
      BY Zenon, <2>1
    <2> QED BY Zenon, <2>2, <2>3 DEF Waits
  <1> QED BY Zenon, <1>1 DEF Onward

LEMMA GrantedStays ==
    ASSUME NEW q \in Checker, Granted(q), proc'[q] = proc[q],
           proc[q].pc = "commit" => /\ tat'[proc[q].tenant] = tat[proc[q].tenant]
                                    /\ log'[proc[q].tenant] = log[proc[q].tenant]
    PROVE  Granted(q)'
  BY Zenon DEF Granted, Allows

(* Nothing changed but what one goroutine that writes no counter does.     *)
LEMMA ExactQuiet ==
    ASSUME ShapeInv, ExactInv, NEW p \in Proc, NEW h, proc' = [proc EXCEPT ![p] = h],
           h.pc \in Hand => \/ h.at = now
                            \/ /\ proc[p].pc \in Hand /\ h.at = proc[p].at
                               /\ h.tenant = proc[p].tenant,
           p \in Checker => Granted(p)',
           UNCHANGED <<now, tat, log, admitted, overtaken>>
    PROVE  ExactInv'
  <1>1. proc \in [Proc -> ProcState] /\ now \in Nat
    BY Zenon DEF ShapeInv, MutexInv, MemType
  <1>2. \A t : Onward(t)
    BY Zenon, OnwardByOne
  <1>3. ASSUME NEW t \in Tenant, ~overtaken'[t] PROVE BucketExact(t)' /\ WindowExact(t)'
    <2>1. BucketExact(t) /\ WindowExact(t)
      BY Zenon, <1>3 DEF ExactInv
    <2>2. BucketExact(t)'
      BY <1>1, <1>2, <2>1, BucketStays
    <2>3. WindowExact(t)'
      BY <1>1, <1>2, <2>1, WindowStays
    <2> QED BY Zenon, <2>2, <2>3
  <1>4. ASSUME NEW q \in Checker PROVE Granted(q)'
    <2>1. CASE q # p
      <3>1. proc'[q] = proc[q] /\ Granted(q)
        BY Zenon, <1>1, <2>1 DEF Proc, ExactInv
      <3> QED BY Zenon, <3>1, GrantedStays
    <2> QED BY Zenon, <2>1
  <1> QED BY Zenon, <1>3, <1>4 DEF ExactInv

LEMMA UnitsAreABlock ==
    ASSUME NEW S, IsFiniteSet(S), NEW x, NEW c
    PROVE  \E n \in Nat : Units(S, x, c) = Block(x, n, c)
  <1>1. Cardinality({u \in S : u[1] = x}) \in Nat
    BY Zenon, Fewer
  <1> QED BY Zenon, <1>1 DEF Units, Block

(* What a commit records of the tenant it charges, and of the others.      *)
LEMMA CommitRecords ==
    ASSUME ShapeInv, ExactInv, NEW p \in Checker, Commit(p), NEW t \in Tenant,
           t = proc[p].tenant
    PROVE  LET at == proc[p].at
               c == proc[p].cost
               lims == proc[p].lims
           IN  /\ overtaken' \in [Tenant -> BOOLEAN]
               /\ admitted' \in [Tenant -> [Limits -> SUBSET (Nat \X Nat)]]
               /\ \A u \in Tenant : u # t => /\ admitted'[u] = admitted[u]
                                             /\ overtaken'[u] = overtaken[u]
               /\ ~overtaken'[t] =>
                    /\ ~overtaken[t]
                    /\ "window" \in lims => ~(log[t] # <<>> /\ Last(log[t]) > at)
                    /\ \A l \in Limits : \E n \in Nat :
                         admitted'[t][l] = IF l \in lims THEN admitted[t][l] \cup Block(at, n, c)
                                           ELSE admitted[t][l]
  <1> DEFINE at == proc[p].at
             c == proc[p].cost
             lims == proc[p].lims
             o == overtaken[t] \/ ("window" \in lims /\ log[t] # <<>> /\ log[t][Len(log[t])] > at)
             r == [l \in Limits |-> CASE overtaken'[t] -> {}
                     [] ~overtaken'[t] /\ l \in lims ->
                          admitted[t][l] \cup Units(admitted[t][l], at, c)
                     [] OTHER -> admitted[t][l]]
  <1>1. /\ admitted \in [Tenant -> [Limits -> SUBSET (Nat \X Nat)]]
        /\ overtaken \in [Tenant -> BOOLEAN]
    BY Zenon DEF ExactInv
  <1>2. overtaken' = [overtaken EXCEPT ![t] = o]
    BY Zenon DEF Commit
  <1>3. admitted' = [admitted EXCEPT ![t] = r]
    BY Zenon DEF Commit
  <1>4. at \in Nat /\ c \in Nat /\ o \in BOOLEAN
    BY Zenon, CommitMoves
  <1>5. ~o => /\ ~overtaken[t]
              /\ "window" \in lims => ~(log[t] # <<>> /\ Last(log[t]) > at)
    BY Zenon DEF Last
  <1> HIDE DEF o, at, c, lims
  <1>6. overtaken'[t] = o /\ \A u \in Tenant : u # t => overtaken'[u] = overtaken[u]
    BY Zenon, <1>1, <1>2
  <1>7. overtaken' \in [Tenant -> BOOLEAN]
    BY Zenon, <1>1, <1>2, <1>4
  <1>8. ASSUME NEW l \in Limits
        PROVE  /\ r[l] \in SUBSET (Nat \X Nat)
               /\ ~o => \E n \in Nat : r[l] = IF l \in lims THEN admitted[t][l] \cup Block(at, n, c)
                                              ELSE admitted[t][l]
    <2>0. r[l] = CASE overtaken'[t] -> {}
                   [] ~overtaken'[t] /\ l \in lims ->
                        admitted[t][l] \cup Units(admitted[t][l], at, c)
                   [] OTHER -> admitted[t][l]
      BY Zenon
    <2>1. CASE o
      <3>1. r[l] = {}
        BY Zenon, <1>6, <2>0, <2>1
      <3> QED BY Zenon, <2>1, <3>1
    <2>2. CASE ~o
      <3> DEFINE S == admitted[t][l]
      <3>1. IsFiniteSet(S) /\ S \in SUBSET (Nat \X Nat)
        <4>1. ~overtaken[t]
          BY Zenon, <1>5, <2>2
        <4>2. BucketExact(t) /\ WindowExact(t)
          BY Zenon, <4>1 DEF ExactInv
        <4>3. l = "bucket" \/ l = "window"
          BY Zenon DEF Limits
        <4>4. IsFiniteSet(S)
          BY Zenon, <4>2, <4>3 DEF BucketExact, WindowExact
        <4> QED BY <1>1, <4>4
      <3> HIDE DEF S
      <3>2. PICK n \in Nat : Units(S, at, c) = Block(at, n, c)
        BY Zenon, <3>1, UnitsAreABlock
      <3>3. Block(at, n, c) \subseteq Nat \X Nat
        BY <1>4 DEF Block
      <3>4. CASE l \in lims
        <4>1. r[l] = S \cup Units(S, at, c)
          BY Zenon, <1>6, <2>0, <2>2, <3>4 DEF S
        <4> QED BY Zenon, <3>1, <3>2, <3>3, <3>4, <4>1 DEF S
      <3>5. CASE l \notin lims
        <4>1. r[l] = S
          BY Zenon, <1>6, <2>0, <2>2, <3>5 DEF S
        <4> QED BY Zenon, <3>1, <3>5, <4>1 DEF S
      <3> QED BY Zenon, <3>4, <3>5
    <2> QED BY Zenon, <2>1, <2>2
  <1>9. DOMAIN r = Limits /\ r = [l \in Limits |-> r[l]]
    BY Zenon
  <1> HIDE DEF r
  <1>10. r \in [Limits -> SUBSET (Nat \X Nat)]
    BY Zenon, <1>8, <1>9
  <1>11. /\ admitted' \in [Tenant -> [Limits -> SUBSET (Nat \X Nat)]]
         /\ admitted'[t] = r /\ \A u \in Tenant : u # t => admitted'[u] = admitted[u]
    BY Zenon, <1>1, <1>3, <1>10
  <1>12. ~overtaken'[t] => \A l \in Limits : \E n \in Nat :
           admitted'[t][l] = IF l \in lims THEN admitted[t][l] \cup Block(at, n, c)
                             ELSE admitted[t][l]
    BY Zenon, <1>6, <1>8, <1>11
  <1> QED BY Zenon, <1>5, <1>6, <1>7, <1>11, <1>12 DEF at, c, lims

(* The same for a tenant that stays exact, limit by limit.                 *)
LEMMA CommitGrants ==
    ASSUME ShapeInv, ExactInv, NEW p \in Checker, Commit(p), NEW t \in Tenant,
           t = proc[p].tenant, ~overtaken'[t], NEW l \in Limits
    PROVE  \E n \in Nat :
             admitted'[t][l] = IF l \in proc[p].lims
                               THEN admitted[t][l] \cup Block(proc[p].at, n, proc[p].cost)
                               ELSE admitted[t][l]
  <1> DEFINE at == proc[p].at
             c == proc[p].cost
             lims == proc[p].lims
  <1>1. \A k \in Limits : \E n \in Nat :
          admitted'[t][k] = IF k \in lims THEN admitted[t][k] \cup Block(at, n, c)
                            ELSE admitted[t][k]
    BY Zenon, CommitRecords
  <1> HIDE DEF at, c, lims
  <1>2. \E n \in Nat : admitted'[t][l] = IF l \in lims THEN admitted[t][l] \cup Block(at, n, c)
                                         ELSE admitted[t][l]
    BY Zenon, <1>1
  <1> QED BY Zenon, <1>2 DEF at, c, lims

LEMMA CommitFinds ==
    ASSUME ShapeInv, ExactInv, NEW p \in Checker, Commit(p), NEW t \in Tenant,
           t = proc[p].tenant, ~overtaken'[t]
    PROVE  /\ BucketExact(t) /\ WindowExact(t)
           /\ \A l \in Limits : admitted[t][l] \in SUBSET (Nat \X Nat)
           /\ "window" \in proc[p].lims => ~(log[t] # <<>> /\ Last(log[t]) > proc[p].at)
  <1>1. /\ ~overtaken[t]
        /\ "window" \in proc[p].lims => ~(log[t] # <<>> /\ Last(log[t]) > proc[p].at)
    BY Zenon, CommitRecords
  <1>2. BucketExact(t) /\ WindowExact(t)
    BY Zenon, <1>1 DEF ExactInv
  <1>3. admitted \in [Tenant -> [Limits -> SUBSET (Nat \X Nat)]]
    BY Zenon DEF ExactInv
  <1> QED BY Zenon, <1>1, <1>2, <1>3

(* The others that have a reading in hand keep it when p commits.          *)
LEMMA CommitLeaves ==
    ASSUME ShapeInv, NEW p \in Checker, Commit(p), NEW t
    PROVE  /\ Onward(t)
           /\ \A q \in Checker : Waits(q, t)' => Waits(q, t) /\ proc'[q].at = proc[q].at
  <1>1. proc' = [proc EXCEPT ![p] = Idle] /\ p \in Proc
    BY Zenon, CommitMoves DEF Proc
  <1>2. Idle.pc \notin Hand
    BY Zenon DEF Idle, Hand
  <1>3. proc \in [Proc -> ProcState]
    BY Zenon DEF ShapeInv, MutexInv, MemType
  <1>4. ASSUME NEW q \in Checker, Waits(q, t)' PROVE Waits(q, t) /\ proc'[q].at = proc[q].at
    <2>1. proc'[q] = IF q = p THEN Idle ELSE proc[q]
      BY Zenon, <1>1, <1>3 DEF Proc
    <2>2. proc'[q].pc \in Hand /\ proc'[q].tenant = t
      BY Zenon, <1>4 DEF Waits
    <2> QED BY Zenon, <1>2, <2>1, <2>2 DEF Waits
  <1> QED BY Zenon, <1>4 DEF Onward

LEMMA CommitBucket ==
    ASSUME ShapeInv, ExactInv, NEW p \in Checker, Commit(p), NEW t \in Tenant,
           t = proc[p].tenant, ~overtaken'[t]
    PROVE  BucketExact(t)'
  <1> DEFINE at == proc[p].at
             c == proc[p].cost
             lims == proc[p].lims
             A == admitted[t]["bucket"]
             a == tat[t]
  <1>1. /\ at \in Nat /\ c \in Nat /\ proc[p].pc = "commit" /\ now' = now
        /\ "bucket" \in Limits
    BY Zenon, CommitMoves DEF Limits
  <1>2. now \in Nat /\ a \in Nat
    BY Zenon DEF ShapeInv, MutexInv, MemType
  <1>3. PICK n \in Nat :
          admitted'[t]["bucket"] = IF "bucket" \in lims THEN A \cup Block(at, n, c) ELSE A
    BY <1>1, CommitGrants
  <1>4. BucketExact(t) /\ A \in SUBSET (Nat \X Nat)
    BY Zenon, <1>1, CommitFinds
  <1>5. /\ "bucket" \in lims => tat'[t] = BucketNext(a, at, c)
        /\ "bucket" \notin lims => tat'[t] = a
    BY Zenon, CommitCharges
  <1>6. CASE "bucket" \notin lims
    BY <1>1, <1>2, <1>3, <1>4, <1>5, <1>6, CommitLeaves, BucketStays
  <1>7. CASE "bucket" \in lims
    <2> DEFINE B == A \cup Block(at, n, c)
    <2>1. PICK h \in Nat : BucketAt(t, h)
      BY Zenon, <1>4 DEF BucketExact
    <2>2. h <= now /\ (\A q \in Checker : Waits(q, t) => h <= proc[q].at) /\ BucketFits(A, a, h)
      BY Zenon, <2>1 DEF BucketAt
    <2>3. Waits(p, t)
      BY Zenon, <1>1 DEF Waits, Hand
    <2>4. h <= at
      BY Zenon, <2>2, <2>3
    <2>5. BucketAllows(a, at, c)
      BY Zenon, <1>1, <1>7 DEF ExactInv, Granted, Allows
    <2>6. IsFiniteSet(A) /\ BucketHeld(A)
      BY Zenon, <1>4 DEF BucketExact
    <2>7. admitted'[t]["bucket"] = B /\ tat'[t] = BucketNext(a, at, c)
      BY Zenon, <1>3, <1>5, <1>7
    <2> HIDE DEF A, a, at, c, lims
    <2>8. BucketFits(B, BucketNext(a, at, c), h)
      BY Zenon, <1>1, <1>2, <1>4, <2>2, <2>4, <2>6, BucketChargeFits
    <2>9. BucketHeld(B)
      BY Zenon, <1>1, <1>2, <1>4, <2>2, <2>4, <2>5, <2>6, BucketChargeHolds
    <2>10. IsFiniteSet(B)
      BY Zenon, <1>1, <2>6, OneBlockMore
    <2> HIDE DEF B
    <2>11. ASSUME NEW q \in Checker, Waits(q, t)' PROVE h <= proc'[q].at
      BY Zenon, <2>2, <2>11, CommitLeaves
    <2>12. BucketFits(admitted'[t]["bucket"], tat'[t], h)
      BY Zenon, <2>7, <2>8
    <2>13. BucketAt(t, h)'
      BY Zenon, <1>1, <2>2, <2>11, <2>12 DEF BucketAt, BucketFits
    <2>14. IsFiniteSet(admitted'[t]["bucket"]) /\ BucketHeld(admitted'[t]["bucket"])
      BY Zenon, <2>7, <2>9, <2>10
    <2> QED BY Zenon, <2>13, <2>14 DEF BucketExact, BucketHeld
  <1> QED BY Zenon, <1>6, <1>7

LEMMA CommitWindow ==
    ASSUME ShapeInv, ExactInv, NEW p \in Checker, Commit(p), NEW t \in Tenant,
           t = proc[p].tenant, ~overtaken'[t]
    PROVE  WindowExact(t)'
  <1> DEFINE at == proc[p].at
             c == proc[p].cost
             lims == proc[p].lims
             A == admitted[t]["window"]
             l == log[t]
             m == WindowNext(l, at, c)
  <1>1. /\ at \in Nat /\ c \in Nat /\ c # 0 /\ proc[p].pc = "commit" /\ now' = now
        /\ "window" \in Limits
    BY Zenon, CommitMoves DEF Limits
  <1>2. now \in Nat /\ l \in Seq(Nat)
    BY Zenon DEF ShapeInv, MutexInv, MemType
  <1>3. PICK n \in Nat :
          admitted'[t]["window"] = IF "window" \in lims THEN A \cup Block(at, n, c) ELSE A
    BY Zenon, <1>1, CommitGrants
  <1>4. /\ WindowExact(t) /\ A \in SUBSET (Nat \X Nat)
        /\ "window" \in lims => ~(l # <<>> /\ Last(l) > at)
    BY Zenon, <1>1, CommitFinds
  <1>5. "window" \in lims => log'[t] = m
    BY Zenon, CommitCharges
  <1>6. CASE "window" \notin lims
    <2>1. log'[t] = log[t]
      BY Zenon, <1>6, CommitCharges
    <2> QED BY <1>1, <1>2, <1>3, <1>4, <1>6, <2>1, CommitLeaves, WindowStays
  <1>7. CASE "window" \in lims
    <2> DEFINE B == A \cup Block(at, n, c)
    <2>1. PICK h \in Nat : WindowAt(t, h)
      BY Zenon, <1>4 DEF WindowExact
    <2>2. /\ \A q \in Checker : Waits(q, t) => h <= proc[q].at \/ Behind(q, t)
          /\ Reached(A, l, h) /\ WindowFits(A, l, h)
      BY Zenon, <2>1 DEF WindowAt
    <2>3. Waits(p, t) /\ ~Behind(p, t)
      BY Zenon, <1>1, <1>4, <1>7 DEF Waits, Hand, Behind
    <2>4. h <= at
      BY Zenon, <2>2, <2>3
    <2>5. WindowAllows(l, at, c)
      BY Zenon, <1>1, <1>7 DEF ExactInv, Granted, Allows
    <2>6. IsFiniteSet(A) /\ WindowHeld(A) /\ InOrder(l)
      BY Zenon, <1>4 DEF WindowExact
    <2>7. l # <<>> => Last(l) <= at
      <3>1. l # <<>> => Last(l) \in Nat
        BY <1>2 DEF Last
      <3> QED BY <1>1, <1>4, <1>7, <3>1
    <2>8. Open(A, l, h, at)
      BY Zenon, <2>2, <2>4, <2>6, <2>7 DEF Open
    <2>9. admitted'[t]["window"] = B /\ log'[t] = m
      BY Zenon, <1>3, <1>5, <1>7
    <2>10. at <= now
      BY Zenon DEF ShapeInv, ShapeOf, Proc
    <2>11. m # <<>> /\ m[Len(m)] = at
      BY <1>1, <1>2, Charged
    <2> HIDE DEF A, l, c, lims
    <2>12. Reached(B, m, at) /\ WindowFits(B, m, at)
      BY Zenon, <1>1, <1>2, <1>4, <2>6, <2>8, WindowChargeFits
    <2>13. WindowHeld(B)
      BY Zenon, <1>1, <1>2, <1>4, <2>5, <2>6, <2>8, WindowChargeHolds
    <2>14. IsFiniteSet(B)
      BY Zenon, <1>1, <2>6, OneBlockMore
    <2>15. InOrder(m)
      BY Zenon, <1>1, <1>2, <2>6, <2>7, NextInOrder
    <2> HIDE DEF B, m
    <2>16. ASSUME NEW q \in Checker, Waits(q, t)' PROVE at <= proc'[q].at \/ Behind(q, t)'
      <3>1. proc'[q].at = proc[q].at /\ proc[q].at \in Nat
        BY Zenon, <2>16, CommitLeaves DEF ShapeInv, MutexInv, MemType, ProcState, Proc
      <3>2. log'[t] # <<>> /\ Last(log'[t]) = at
        BY Zenon, <2>9, <2>11 DEF Last
      <3>3. CASE proc[q].at < at
        <4>1. Last(log'[t]) > proc'[q].at
          BY Zenon, <1>1, <3>1, <3>2, <3>3
        <4> QED BY Zenon, <3>2, <4>1 DEF Behind, Last
      <3> HIDE DEF at
      <3>4. CASE ~(proc[q].at < at)
        BY <1>1, <3>1, <3>4
      <3> QED BY Zenon, <3>3, <3>4
    <2>17. at <= now'
      BY Zenon, <1>1, <2>10
    <2>18. /\ Reached(admitted'[t]["window"], log'[t], at)
           /\ WindowFits(admitted'[t]["window"], log'[t], at)
      BY Zenon, <2>9, <2>12
    <2>19. /\ IsFiniteSet(admitted'[t]["window"]) /\ WindowHeld(admitted'[t]["window"])
           /\ InOrder(log'[t])
      BY Zenon, <2>9, <2>13, <2>14, <2>15
    <2>20. PICK x \in Nat : x = at
      BY Zenon, <1>1
    <2>21. /\ x <= now' /\ (\A q \in Checker : Waits(q, t)' => x <= proc'[q].at \/ Behind(q, t)')
           /\ Reached(admitted'[t]["window"], log'[t], x)
           /\ WindowFits(admitted'[t]["window"], log'[t], x)
      BY Zenon, <2>16, <2>17, <2>18, <2>20
    <2>22. WindowAt(t, x)'
      BY Zenon, <2>21 DEF WindowAt, Reached, WindowFits
    <2> QED BY Zenon, <2>19, <2>22 DEF WindowExact, WindowHeld, InOrder
  <1> QED BY Zenon, <1>6, <1>7

LEMMA ExactCommit ==
    ASSUME ShapeInv, ExactInv, NEW p \in Checker, Commit(p)
    PROVE  ExactInv'
  <1>1. PICK t \in Tenant : t = proc[p].tenant
    BY Zenon, CommitMoves
  <1>2. /\ overtaken' \in [Tenant -> BOOLEAN]
        /\ admitted' \in [Tenant -> [Limits -> SUBSET (Nat \X Nat)]]
        /\ \A u \in Tenant : u # t => admitted'[u] = admitted[u] /\ overtaken'[u] = overtaken[u]
    BY Zenon, <1>1, CommitRecords
  <1>3. \A u \in Tenant : u # t => tat'[u] = tat[u] /\ log'[u] = log[u]
    BY Zenon, <1>1, CommitCharges
  <1>4. proc' = [proc EXCEPT ![p] = Idle] /\ proc[p].pc = "commit" /\ now' = now
    BY Zenon, CommitMoves
  <1>5. proc \in [Proc -> ProcState] /\ now \in Nat
    BY Zenon DEF ShapeInv, MutexInv, MemType
  <1>6. ASSUME NEW u \in Tenant, ~overtaken'[u] PROVE BucketExact(u)' /\ WindowExact(u)'
    <2>1. CASE u = t
      BY Zenon, <1>1, <1>6, <2>1, CommitBucket, CommitWindow
    <2>2. CASE u # t
      <3>1. BucketExact(u) /\ WindowExact(u)
        BY Zenon, <1>2, <1>6, <2>2 DEF ExactInv
      <3>2. tat'[u] = tat[u] /\ log'[u] = log[u] /\ admitted'[u] = admitted[u]
        BY Zenon, <1>2, <1>3, <2>2
      <3>3. Onward(u)
        BY Zenon, CommitLeaves
      <3>4. BucketExact(u)'
        BY <1>4, <1>5, <3>1, <3>2, <3>3, BucketStays
      <3>5. WindowExact(u)'
        BY <1>4, <1>5, <3>1, <3>2, <3>3, WindowStays
      <3> QED BY Zenon, <3>4, <3>5
    <2> QED BY Zenon, <2>1, <2>2
  <1>7. ASSUME NEW q \in Checker PROVE Granted(q)'
    <2>1. CASE q = p
      <3>1. proc'[q].pc = "idle"
        BY Zenon, <1>4, <1>5, <2>1 DEF Proc, Idle
      <3> QED BY Zenon, <3>1 DEF Granted
    <2>2. CASE q # p
      <3>1. proc'[q] = proc[q] /\ Granted(q)
        BY Zenon, <1>4, <1>5, <2>2 DEF Proc, ExactInv
      <3>2. proc[q].pc = "commit" => proc[q].tenant # t /\ proc[q].tenant \in Tenant
        BY Zenon, <1>1, <1>4, <2>2, CommittersApart DEF ShapeInv, MutexInv, Holds
      <3> QED BY Zenon, <1>3, <3>1, <3>2, GrantedStays
    <2> QED BY Zenon, <2>1, <2>2
  <1> QED BY Zenon, <1>2, <1>6, <1>7 DEF ExactInv

(* What a sweep records: a tenant that loses a counter while a check of it *)
(* has an older reading in hand is overtaken.                              *)
LEMMA SweepRecords ==
    ASSUME ShapeInv, ExactInv, NEW p \in Proc, NEW t \in Tenant, SweepTenant(p, t)
    PROVE  /\ overtaken' \in [Tenant -> BOOLEAN]
           /\ admitted' \in [Tenant -> [Limits -> SUBSET (Nat \X Nat)]]
           /\ \A u \in Tenant : u # t => /\ admitted'[u] = admitted[u]
                                         /\ overtaken'[u] = overtaken[u]
           /\ ~overtaken'[t] => /\ ~overtaken[t] /\ admitted'[t] = admitted[t]
                                /\ Expired(p, t) # {} => ~Overtakes(p, t)
  <1> DEFINE o == overtaken[t] \/ (Expired(p, t) # {} /\ Overtakes(p, t))
             none == [l \in Limits |-> {}]
  <1>1. /\ admitted \in [Tenant -> [Limits -> SUBSET (Nat \X Nat)]]
        /\ overtaken \in [Tenant -> BOOLEAN]
    BY Zenon DEF ExactInv
  <1>2. overtaken' = [overtaken EXCEPT ![t] = o]
    BY Zenon DEF SweepTenant
  <1>3. admitted' = IF overtaken'[t] THEN [admitted EXCEPT ![t] = none] ELSE admitted
    BY Zenon DEF SweepTenant
  <1>4. o \in BOOLEAN /\ (~o => ~overtaken[t] /\ (Expired(p, t) # {} => ~Overtakes(p, t)))
    BY Zenon, <1>1
  <1>5. none \in [Limits -> SUBSET (Nat \X Nat)]
    BY Zenon
  <1> HIDE DEF o, none
  <1>6. /\ overtaken' \in [Tenant -> BOOLEAN] /\ overtaken'[t] = o
        /\ \A u \in Tenant : u # t => overtaken'[u] = overtaken[u]
    BY Zenon, <1>1, <1>2, <1>4
  <1>7. /\ admitted' \in [Tenant -> [Limits -> SUBSET (Nat \X Nat)]]
        /\ \A u \in Tenant : u # t => admitted'[u] = admitted[u]
        /\ ~overtaken'[t] => admitted' = admitted
    BY Zenon, <1>1, <1>3, <1>5
  <1> QED BY Zenon, <1>4, <1>6, <1>7

(* Where nobody is overtaken, whoever has a reading of t in hand read the  *)
(* clock no earlier than the sweep that takes a counter of t away.         *)
LEMMA SweepIsOlder ==
    ASSUME ShapeInv, NEW p \in Proc, NEW t \in Tenant, SweepTenant(p, t), ~Overtakes(p, t),
           NEW q \in Checker, Waits(q, t)
    PROVE  proc[p].at <= proc[q].at
  <1>1. proc[q].pc \in Hand /\ proc[q].tenant = t
    BY Zenon DEF Waits
  <1>2. proc[q].pc \notin {"locked", "commit"}
    BY Zenon, <1>1, NobodyCommits
  <1>3. ~(proc[q].at < proc[p].at)
    BY Zenon, <1>1, <1>2 DEF Overtakes, Hand
  <1>4. proc[q].at \in Nat /\ proc[p].at \in Nat
    BY Zenon DEF ShapeInv, MutexInv, MemType, ProcState, Proc
  <1> QED BY <1>3, <1>4

LEMMA SweepLeaves ==
    ASSUME ShapeInv, NEW p \in Proc, NEW s \in Tenant, SweepTenant(p, s), NEW t
    PROVE  /\ Onward(t) /\ now' = now
           /\ \A q \in Checker : Waits(q, t)' => Waits(q, t) /\ proc'[q].at = proc[q].at
           /\ \A q \in Checker : /\ proc'[q].pc = "commit" => proc'[q] = proc[q]
                                 /\ proc[q].pc = "commit" => proc'[q] = proc[q]
  <1>1. PICK h \in ProcState :
          /\ proc' = [proc EXCEPT ![p] = h] /\ proc[p].pc = "tenants" /\ h.pc = "tenants"
          /\ now' = now
    BY Zenon, SweepTenantMoves
  <1>2. proc \in [Proc -> ProcState]
    BY Zenon DEF ShapeInv, MutexInv, MemType
  <1>3. \A q \in Checker : proc'[q] = IF q = p THEN h ELSE proc[q]
    BY Zenon, <1>1, <1>2 DEF Proc
  <1>4. "tenants" \notin Hand
    BY Zenon DEF Hand
  <1>5. ASSUME NEW q \in Checker, Waits(q, t)' PROVE Waits(q, t) /\ proc'[q].at = proc[q].at
    <2>1. proc'[q].pc \in Hand /\ proc'[q].tenant = t
      BY Zenon, <1>5 DEF Waits
    <2> QED BY Zenon, <1>1, <1>3, <1>4, <2>1 DEF Waits
  <1>6. ASSUME NEW q \in Checker
        PROVE  /\ proc'[q].pc = "commit" => proc'[q] = proc[q]
               /\ proc[q].pc = "commit" => proc'[q] = proc[q]
    BY Zenon, <1>1, <1>3
  <1> QED BY Zenon, <1>1, <1>5, <1>6 DEF Onward

LEMMA SweepBucket ==
    ASSUME ShapeInv, ExactInv, NEW p \in Proc, NEW t \in Tenant, SweepTenant(p, t),
           ~overtaken'[t]
    PROVE  BucketExact(t)'
  <1> DEFINE A == admitted[t]["bucket"]
             a == tat[t]
  <1>1. ~overtaken[t] /\ admitted'[t] = admitted[t] /\ (Expired(p, t) # {} => ~Overtakes(p, t))
    BY Zenon, SweepRecords
  <1>2. BucketExact(t)
    BY Zenon, <1>1 DEF ExactInv
  <1>3. now \in Nat /\ now' = now /\ a \in Nat /\ Onward(t)
    BY Zenon, SweepLeaves DEF ShapeInv, MutexInv, MemType
  <1>4. tat'[t] = IF "bucket" \in Expired(p, t) THEN 0 ELSE a
    BY Zenon, SweepTenantDrops
  <1>5. CASE "bucket" \notin Expired(p, t)
    BY <1>1, <1>2, <1>3, <1>4, <1>5, BucketStays
  <1>6. CASE "bucket" \in Expired(p, t)
    <2>1. PICK x \in Nat : x = proc[p].at /\ x <= now
      BY Zenon DEF ShapeInv, ShapeOf, MutexInv, MemType, ProcState
    <2>2. a <= x
      BY Zenon, <1>6, <2>1 DEF Expired
    <2>3. PICK h \in Nat : BucketAt(t, h)
      BY Zenon, <1>2 DEF BucketExact
    <2>4. h <= now /\ (\A q \in Checker : Waits(q, t) => h <= proc[q].at) /\ BucketFits(A, a, h)
      BY Zenon, <2>3 DEF BucketAt
    <2>5. IsFiniteSet(A) /\ BucketHeld(A)
      BY Zenon, <1>2 DEF BucketExact
    <2>6. tat'[t] = 0 /\ admitted'[t]["bucket"] = A
      BY Zenon, <1>1, <1>4, <1>6
    <2>7. PICK k \in Nat : k = Greatest(h, x)
      BY Zenon DEF Greatest
    <2> HIDE DEF A, a
    <2>8. BucketFits(A, 0, k)
      BY Zenon, <1>3, <2>2, <2>4, <2>5, <2>7, BucketForgotten
    <2>9. k <= now'
      BY Zenon, <1>3, <2>1, <2>4, <2>7 DEF Greatest
    <2>10. ASSUME NEW q \in Checker, Waits(q, t)' PROVE k <= proc'[q].at
      <3>1. Waits(q, t) /\ proc'[q].at = proc[q].at
        BY Zenon, <2>10, SweepLeaves
      <3>2. x <= proc[q].at
        BY Zenon, <1>1, <1>6, <2>1, <3>1, SweepIsOlder
      <3>3. h <= proc[q].at
        BY Zenon, <2>4, <3>1
      <3> QED BY Zenon, <2>7, <3>1, <3>2, <3>3 DEF Greatest
    <2>11. BucketFits(admitted'[t]["bucket"], tat'[t], k)
      BY Zenon, <2>6, <2>8
    <2>12. BucketAt(t, k)'
      BY Zenon, <2>9, <2>10, <2>11 DEF BucketAt, BucketFits
    <2>13. IsFiniteSet(admitted'[t]["bucket"]) /\ BucketHeld(admitted'[t]["bucket"])
      BY Zenon, <2>5, <2>6
    <2> QED BY Zenon, <2>12, <2>13 DEF BucketExact, BucketHeld
  <1> QED BY Zenon, <1>5, <1>6

LEMMA SweepWindow ==
    ASSUME ShapeInv, ExactInv, NEW p \in Proc, NEW t \in Tenant, SweepTenant(p, t),
           ~overtaken'[t]
    PROVE  WindowExact(t)'
  <1> DEFINE A == admitted[t]["window"]
             l == log[t]
  <1>1. ~overtaken[t] /\ admitted'[t] = admitted[t] /\ (Expired(p, t) # {} => ~Overtakes(p, t))
    BY Zenon, SweepRecords
  <1>2. WindowExact(t) /\ A \in SUBSET (Nat \X Nat)
    BY Zenon, <1>1 DEF ExactInv, Limits
  <1>3. now \in Nat /\ now' = now /\ l \in Seq(Nat) /\ Onward(t)
    BY Zenon, SweepLeaves DEF ShapeInv, MutexInv, MemType
  <1>4. log'[t] = IF "window" \in Expired(p, t) THEN <<>> ELSE l
    BY Zenon, SweepTenantDrops
  <1>5. CASE "window" \notin Expired(p, t)
    BY <1>1, <1>2, <1>3, <1>4, <1>5, WindowStays
  <1>6. CASE "window" \in Expired(p, t)
    <2>1. PICK x \in Nat : x = proc[p].at /\ x <= now
      BY Zenon DEF ShapeInv, ShapeOf, MutexInv, MemType, ProcState
    <2>2. l # <<>> /\ Last(l) + Period <= x
      BY Zenon, <1>6, <2>1 DEF Expired, Has, WindowExpiry, Last
    <2>3. PICK h \in Nat : WindowAt(t, h)
      BY Zenon, <1>2 DEF WindowExact
    <2>4. /\ h <= now /\ \A q \in Checker : Waits(q, t) => h <= proc[q].at \/ Behind(q, t)
          /\ Reached(A, l, h) /\ WindowFits(A, l, h)
      BY Zenon, <2>3 DEF WindowAt
    <2>5. IsFiniteSet(A) /\ WindowHeld(A) /\ InOrder(l)
      BY Zenon, <1>2 DEF WindowExact
    <2>6. log'[t] = <<>> /\ admitted'[t]["window"] = A
      BY Zenon, <1>1, <1>4, <1>6
    <2>7. PICK k \in Nat : k = Greatest(h, x)
      BY Zenon DEF Greatest
    <2>8. Period \in Nat /\ Last(l) \in Nat
      BY <1>3, <2>2, MemoryAssumption DEF Last
    <2>9. ASSUME NEW q \in Checker, Waits(q, t)' PROVE k <= proc'[q].at
      <3>1. Waits(q, t) /\ proc'[q].at = proc[q].at
        BY Zenon, <2>9, SweepLeaves
      <3>2. x <= proc[q].at
        BY Zenon, <1>1, <1>6, <2>1, <3>1, SweepIsOlder
      <3>3. proc[q].at \in Nat
        BY Zenon DEF ShapeInv, MutexInv, MemType, ProcState, Proc
      <3>4. ~Behind(q, t)
        <4>1. ~(Last(l) > proc[q].at)
          BY <2>2, <2>8, <3>2, <3>3
        <4> QED BY Zenon, <4>1 DEF Behind
      <3>5. h <= proc[q].at
        BY Zenon, <2>4, <3>1, <3>4
      <3> QED BY Zenon, <2>7, <3>1, <3>2, <3>5 DEF Greatest
    <2> HIDE DEF A, l
    <2>10. InOrder(<<>>) /\ Reached(A, <<>>, k) /\ WindowFits(A, <<>>, k)
      BY Zenon, <1>2, <1>3, <2>2, <2>4, <2>5, <2>7, WindowForgotten
    <2>11. k <= now'
      BY Zenon, <1>3, <2>1, <2>4, <2>7 DEF Greatest
    <2>12. /\ Reached(admitted'[t]["window"], log'[t], k)
           /\ WindowFits(admitted'[t]["window"], log'[t], k)
      BY Zenon, <2>6, <2>10
    <2>13. WindowAt(t, k)'
      BY Zenon, <2>9, <2>11, <2>12 DEF WindowAt, Reached, WindowFits
    <2>14. /\ IsFiniteSet(admitted'[t]["window"]) /\ WindowHeld(admitted'[t]["window"])
           /\ InOrder(log'[t])
      BY Zenon, <2>5, <2>6, <2>10
    <2> QED BY Zenon, <2>13, <2>14 DEF WindowExact, WindowHeld, InOrder
  <1> QED BY Zenon, <1>5, <1>6

LEMMA ExactSweepTenant ==
    ASSUME ShapeInv, ExactInv, NEW p \in Proc, NEW t \in Tenant, SweepTenant(p, t)
    PROVE  ExactInv'
  <1>1. /\ overtaken' \in [Tenant -> BOOLEAN]
        /\ admitted' \in [Tenant -> [Limits -> SUBSET (Nat \X Nat)]]
        /\ \A u \in Tenant : u # t => admitted'[u] = admitted[u] /\ overtaken'[u] = overtaken[u]
    BY Zenon, SweepRecords
  <1>2. \A u \in Tenant : u # t => tat'[u] = tat[u] /\ log'[u] = log[u]
    BY Zenon, SweepTenantDrops
  <1>3. now \in Nat /\ now' = now
    BY Zenon, SweepLeaves DEF ShapeInv, MutexInv, MemType
  <1>4. ASSUME NEW u \in Tenant, ~overtaken'[u] PROVE BucketExact(u)' /\ WindowExact(u)'
    <2>1. CASE u = t
      BY Zenon, <1>4, <2>1, SweepBucket, SweepWindow
    <2>2. CASE u # t
      <3>1. BucketExact(u) /\ WindowExact(u)
        BY Zenon, <1>1, <1>4, <2>2 DEF ExactInv
      <3>2. tat'[u] = tat[u] /\ log'[u] = log[u] /\ admitted'[u] = admitted[u]
        BY Zenon, <1>1, <1>2, <2>2
      <3>3. Onward(u)
        BY Zenon, SweepLeaves
      <3>4. BucketExact(u)'
        BY <1>3, <3>1, <3>2, <3>3, BucketStays
      <3>5. WindowExact(u)'
        BY <1>3, <3>1, <3>2, <3>3, WindowStays
      <3> QED BY Zenon, <3>4, <3>5
    <2> QED BY Zenon, <2>1, <2>2
  <1>5. ASSUME NEW q \in Checker PROVE Granted(q)'
    <2>1. CASE proc'[q].pc = "commit"
      <3>1. proc'[q] = proc[q] /\ proc[q].pc = "commit" /\ Granted(q)
        BY Zenon, <2>1, SweepLeaves DEF ExactInv
      <3>2. proc[q].tenant \in Tenant /\ proc[q].tenant # t
        BY Zenon, <3>1, NobodyCommits
      <3> QED BY Zenon, <1>2, <3>1, <3>2, GrantedStays
    <2>2. CASE proc'[q].pc # "commit"
      BY Zenon, <2>2 DEF Granted
    <2> QED BY Zenon, <2>1, <2>2
  <1> QED BY Zenon, <1>1, <1>4, <1>5 DEF ExactInv

LEMMA ExactStarts == Init => ExactInv
  <1> SUFFICES ASSUME Init PROVE ExactInv
    BY Zenon
  <1>1. Idle.pc = "idle" /\ "idle" \notin Hand
    BY Zenon DEF Idle, Hand
  <1>2. \A q \in Checker : proc[q].pc = "idle" /\ proc[q].pc \notin Hand
    BY Zenon, <1>1 DEF Init, Proc
  <1>3. IsFiniteSet({}) /\ Cardinality({}) = 0
    BY Zenon, FS_EmptySet
  <1>4. Emission \in Nat /\ Tolerance \in Nat /\ Count \in Nat /\ Period \in Nat
    BY MemoryAssumption DEF Tolerance
  <1>5. (\A s : Later({}, s) = {} /\ Since({}, s) = {}) /\ \A s, e : Within({}, s, e) = {}
    BY Zenon DEF Later, Since, Within
  <1>6. ASSUME NEW t \in Tenant PROVE BucketExact(t) /\ WindowExact(t)
    <2>1. admitted[t]["bucket"] = {} /\ admitted[t]["window"] = {} /\ tat[t] = 0
          /\ log[t] = <<>> /\ now = 1
      BY Zenon DEF Init, Limits
    <2>2. \A q \in Checker : ~Waits(q, t)
      BY Zenon, <1>2 DEF Waits
    <2>3. BucketHeld({})
      BY <1>3, <1>4, <1>5 DEF BucketHeld
    <2>4. BucketFits({}, 0, 0)
      BY <1>3, <1>4, <1>5 DEF BucketFits, Greatest
    <2>5. WindowHeld({})
      BY <1>3, <1>4, <1>5 DEF WindowHeld
    <2>6. InOrder(<<>>) /\ Reached({}, <<>>, 0)
      BY DEF InOrder, Reached
    <2>7. WindowFits({}, <<>>, 0)
      <3>1. \A y : Ahead(<<>>, y) = {}
        BY DEF Ahead
      <3>2. ASSUME NEW y PROVE Cardinality(Since({}, y)) <= Cardinality(Ahead(<<>>, y))
        <4>1. Cardinality(Since({}, y)) = 0
          BY Zenon, <1>3, <1>5
        <4>2. Cardinality(Ahead(<<>>, y)) = 0
          BY Zenon, <1>3, <3>1
        <4> QED BY <4>1, <4>2
      <3> QED BY Zenon, <3>2 DEF WindowFits
    <2>8. BucketAt(t, 0) /\ WindowAt(t, 0)
      BY <2>1, <2>2, <2>4, <2>6, <2>7 DEF BucketAt, WindowAt
    <2> QED BY Zenon, <1>3, <2>1, <2>3, <2>5, <2>6, <2>8 DEF BucketExact, WindowExact
  <1>7. \A q \in Checker : Granted(q)
    BY Zenon, <1>2 DEF Granted
  <1>8. /\ admitted \in [Tenant -> [Limits -> SUBSET (Nat \X Nat)]]
        /\ overtaken \in [Tenant -> BOOLEAN]
    BY Zenon DEF Init
  <1> QED BY Zenon, <1>6, <1>7, <1>8 DEF ExactInv

LEMMA ExactStep == ShapeInv /\ ExactInv /\ [Next]_vars => ExactInv'
  <1> SUFFICES ASSUME ShapeInv, ExactInv, [Next]_vars PROVE ExactInv'
    BY Zenon
  <1>0. proc \in [Proc -> ProcState] /\ now \in Nat
    BY Zenon DEF ShapeInv, MutexInv, MemType
  <1>1. CASE QuietStep
    <2>1. PICK p \in Proc, h \in ProcState : Quiet(p, h)
      BY Zenon, <1>1 DEF QuietStep
    <2>2. /\ proc' = [proc EXCEPT ![p] = h] /\ h.pc # "commit"
          /\ UNCHANGED <<now, tat, log, admitted, overtaken>>
          /\ h.pc \in Hand => \/ h.at = now
                              \/ /\ proc[p].pc \in Hand /\ h.at = proc[p].at
                                 /\ h.tenant = proc[p].tenant
      BY Zenon, <2>1 DEF Quiet
    <2>3. Granted(p)'
      BY Zenon, <1>0, <2>2 DEF Granted
    <2> QED BY Zenon, <2>2, <2>3, ExactQuiet
  <1>2. ASSUME NEW p \in Checker, Grant(p) PROVE ExactInv'
    <2>1. PICK h \in ProcState :
            /\ proc' = [proc EXCEPT ![p] = h] /\ proc[p].pc = "locked" /\ h.pc = "commit"
            /\ h.at = proc[p].at /\ h.tenant = proc[p].tenant
            /\ h.cost = proc[p].cost /\ h.lims = proc[p].lims
            /\ UNCHANGED <<now, tat, log, admitted, overtaken>>
      BY Zenon, <1>2, GrantMoves
    <2>2. p \in Proc /\ proc[p].pc \in Hand
      BY Zenon, <2>1 DEF Proc, Hand
    <2>3. Allows(proc[p].tenant, proc[p].lims, proc[p].at, proc[p].cost)
      BY Zenon, <1>2 DEF Grant
    <2>4. proc'[p] = h
      BY Zenon, <1>0, <2>1, <2>2
    <2>5. Granted(p)'
      BY Zenon, <2>1, <2>3, <2>4 DEF Granted, Allows
    <2> QED BY Zenon, <2>1, <2>2, <2>5, ExactQuiet
  <1>3. ASSUME NEW p \in Proc, SweepEnd(p) PROVE ExactInv'
    <2>1. PICK h \in ProcState :
            /\ proc' = [proc EXCEPT ![p] = h] /\ h.pc \in {"idle", "clock"}
            /\ UNCHANGED <<now, tat, log, admitted, overtaken>>
      BY Zenon, <1>3, SweepEndMoves
    <2>2. h.pc \notin Hand /\ h.pc # "commit"
      BY Zenon, <2>1 DEF Hand
    <2>3. Granted(p)'
      BY Zenon, <1>0, <2>1, <2>2 DEF Granted
    <2> QED BY Zenon, <2>1, <2>2, <2>3, ExactQuiet
  <1>4. CASE Tick \/ UNCHANGED vars
    <2>1. /\ UNCHANGED <<proc, tat, log, admitted, overtaken>>
          /\ now' \in Nat /\ now <= now'
      BY <1>0, <1>4 DEF Tick, vars
    <2>2. \A t : Onward(t)
      BY Zenon, <2>1 DEF Onward, Waits
    <2>3. ASSUME NEW t \in Tenant, ~overtaken'[t] PROVE BucketExact(t)' /\ WindowExact(t)'
      <3>1. BucketExact(t) /\ WindowExact(t)
        BY Zenon, <2>1, <2>3 DEF ExactInv
      <3>2. BucketExact(t)'
        BY Zenon, <1>0, <2>1, <2>2, <3>1, BucketStays
      <3>3. WindowExact(t)'
        BY Zenon, <1>0, <2>1, <2>2, <3>1, WindowStays
      <3> QED BY Zenon, <3>2, <3>3
    <2>4. ASSUME NEW q \in Checker PROVE Granted(q)'
      <3>1. Granted(q)
        BY Zenon DEF ExactInv
      <3> QED BY Zenon, <2>1, <3>1, GrantedStays
    <2> QED BY Zenon, <2>1, <2>3, <2>4 DEF ExactInv
  <1> QED BY Zenon, <1>1, <1>2, <1>3, <1>4, StepKinds, ExactCommit, ExactSweepTenant

(* "Within one process it is exact" (memory.go), for any number of         *)
(* goroutines, tenants, shards, sweeps and any limits: as long as no check *)
(* of a tenant is overtaken between its clock and its lock, no window of   *)
(* Period holds more than Count units and no stretch of time more than the *)
(* bucket's capacity and what it regained - whatever counters were dropped *)
(* in between.                                                             *)
THEOREM ExactWithinOneProcess == Spec => []ExactUntilOvertaken
  <1>1. MutexInv /\ ExactInv => ExactUntilOvertaken
    <2> SUFFICES ASSUME ExactInv, now \in Nat, NEW t \in Tenant, ~overtaken[t]
                 PROVE  /\ \A a \in 1..now : Between(t, "window", a, a + Period - 1) <= Count
                        /\ \A a \in 1..now : \A b \in a..now :
                             Emission * Between(t, "bucket", a, b) <= Tolerance + (b - a)
      BY Zenon DEF ExactUntilOvertaken, MutexInv, MemType
    <2>1. BucketHeld(admitted[t]["bucket"]) /\ WindowHeld(admitted[t]["window"])
      BY Zenon DEF ExactInv, BucketExact, WindowExact
    <2>2. \A l, a, b : Between(t, l, a, b) = Cardinality(Within(admitted[t][l], a, b))
      BY Zenon DEF Between, Within
    <2>3. ASSUME NEW a \in 1..now PROVE Between(t, "window", a, a + Period - 1) <= Count
      BY <2>1, <2>2 DEF WindowHeld
    <2>4. ASSUME NEW a \in 1..now, NEW b \in a..now
          PROVE  Emission * Between(t, "bucket", a, b) <= Tolerance + (b - a)
      <3>1. a \in Nat /\ b \in Nat /\ a <= b
        OBVIOUS
      <3> QED BY Zenon, <2>1, <2>2, <3>1 DEF BucketHeld
    <2> QED BY Zenon, <2>3, <2>4
  <1>2. ShapeInv => MutexInv
    BY Zenon DEF ShapeInv
  <1> QED BY <1>1, <1>2, ShapeStarts, ShapeStep, ExactStarts, ExactStep, PTL DEF Spec

-----------------------------------------------------------------------------
(* How long to wait, of a log whose entries are in order: an entry and     *)
(* those before it are gone exactly when it has aged out.                  *)
LEMMA PrunedTo ==
    ASSUME NEW l \in Seq(Nat), NEW t \in Nat
    PROVE  \E k \in 1..(Len(l) + 1), d \in Nat :
             /\ d + k = Len(l) + 1 /\ Len(Prune(l, t)) = d
             /\ \A i \in 1..(k - 1) : l[i] <= t - Period
             /\ k <= Len(l) => l[k] > t - Period
             /\ \A q \in 1..d : Prune(l, t)[q] = l[q + k - 1]
  <1>1. PICK k \in 1..(Len(l) + 1) : /\ Prune(l, t) = SubSeq(l, k, Len(l))
                                     /\ \A i \in 1..(k - 1) : l[i] <= t - Period
                                     /\ k <= Len(l) => l[k] > t - Period
    BY Zenon, Pruned
  <1> DEFINE d == Len(l) + 1 - k
             r == SubSeq(l, k, Len(l))
  <1>2. Len(l) \in Nat /\ k \in Nat /\ d \in Nat /\ k >= 1 /\ d + k = Len(l) + 1
    OBVIOUS
  <1>3. Len(r) = d /\ \A j \in 1..d : r[j] = l[j + k - 1]
    BY <1>2
  <1> HIDE DEF r, d
  <1>4. Prune(l, t) = r
    BY Zenon, <1>1 DEF r
  <1> QED BY <1>1, <1>2, <1>3, <1>4

LEMMA PrunedInOrder ==
    ASSUME NEW l \in Seq(Nat), InOrder(l), NEW t \in Nat, NEW j \in 1..Len(l)
    PROVE  Len(Prune(l, t)) <= Len(l) - j <=> l[j] <= t - Period
  <1>1. PICK n \in Nat : n = Len(l)
    OBVIOUS
  <1>2. PICK k \in 1..(n + 1), d \in Nat :
          /\ d + k = n + 1 /\ Len(Prune(l, t)) = d
          /\ \A i \in 1..(k - 1) : l[i] <= t - Period
          /\ k <= n => l[k] > t - Period
    BY Zenon, <1>1, PrunedTo
  <1>3. Period \in Nat /\ l[j] \in Nat /\ j \in 1..n
    BY <1>1, MemoryAssumption
  <1>4. CASE j < k
    <2>1. l[j] <= t - Period /\ d <= n - j
      BY <1>2, <1>3, <1>4
    <2> QED BY Zenon, <1>1, <1>2, <2>1
  <1>5. CASE k <= j
    <2>1. k \in DOMAIN l /\ j \in DOMAIN l /\ l[k] \in Nat /\ k <= n
      BY <1>1, <1>3, <1>5
    <2>2. l[k] <= l[j]
      BY Zenon, <1>5, <2>1 DEF InOrder
    <2>3. ~(l[j] <= t - Period) /\ ~(d <= n - j)
      BY <1>2, <1>3, <1>5, <2>1, <2>2
    <2> QED BY Zenon, <1>1, <1>2, <2>3
  <1> QED BY <1>3, <1>4, <1>5

(* The window admits a cost from the end of its wait on and not before.    *)
LEMMA WindowWait ==
    ASSUME NEW l \in Seq(Nat), InOrder(l), NEW t \in Nat, NEW c \in Nat, c <= Count,
           ~WindowAllows(l, t, c)
    PROVE  /\ WindowRetry(l, t, c) \in Nat \ {0}
           /\ \A x \in Nat : WindowAllows(l, x, c) <=> t + WindowRetry(l, t, c) <= x
  <1>1. PICK n \in Nat : n = Len(l)
    OBVIOUS
  <1>2. PICK k \in 1..(n + 1), d \in Nat :
          /\ d + k = n + 1 /\ Len(Prune(l, t)) = d
          /\ k <= n => l[k] > t - Period
          /\ \A q \in 1..d : Prune(l, t)[q] = l[q + k - 1]
    BY Zenon, <1>1, PrunedTo
  <1>3. Period \in Nat \ {0} /\ Count \in Nat
    BY Zenon, MemoryAssumption
  <1>4. ~(d + c <= Count)
    BY Zenon, <1>2 DEF WindowAllows
  <1>5. PICK i \in 1..d : i = d + c - Count
    BY <1>3, <1>4
  <1>6. PICK j \in 1..n : j = i + k - 1
    BY <1>2
  <1>7. k \in 1..n /\ k <= j /\ n - j = Count - c
    BY <1>2, <1>3, <1>5, <1>6
  <1>8. l[j] \in Nat /\ l[k] \in Nat /\ k \in DOMAIN l /\ j \in DOMAIN l
    BY <1>1, <1>6, <1>7
  <1>9. Prune(l, t)[i] = l[j]
    BY Zenon, <1>2, <1>5, <1>6
  <1>10. WindowRetry(l, t, c) = l[j] + Period - t
    BY Zenon, <1>2, <1>5, <1>9 DEF WindowRetry
  <1>11. l[k] <= l[j]
    BY Zenon, <1>7, <1>8 DEF InOrder
  <1>12. PICK y \in Nat : y = l[j]
    BY Zenon, <1>8
  <1>13. y + Period - t \in Nat \ {0}
    BY <1>2, <1>3, <1>7, <1>8, <1>11, <1>12
  <1>14. ASSUME NEW x \in Nat
         PROVE  WindowAllows(l, x, c) <=> t + (y + Period - t) <= x
    <2>1. PICK z \in Nat : z = Len(Prune(l, x))
      BY Zenon, PruneKeeps
    <2>2. z <= n - j <=> y <= x - Period
      BY Zenon, <1>1, <1>6, <1>12, <2>1, PrunedInOrder
    <2>3. WindowAllows(l, x, c) <=> z + c <= Count
      BY Zenon, <2>1 DEF WindowAllows
    <2>4. z + c <= Count <=> z <= n - j
      BY <1>3, <1>7
    <2>5. y <= x - Period <=> t + (y + Period - t) <= x
      BY <1>3
    <2> QED BY Zenon, <2>2, <2>3, <2>4, <2>5
  <1> QED BY Zenon, <1>10, <1>12, <1>13, <1>14

(* So does the bucket.                                                     *)
LEMMA BucketWait ==
    ASSUME NEW a \in Nat, NEW t \in Nat, NEW c \in Nat, c <= Capacity, ~BucketAllows(a, t, c)
    PROVE  /\ BucketRetry(a, t, c) \in Nat \ {0}
           /\ \A x \in Nat : t <= x => (BucketAllows(a, x, c) <=> t + BucketRetry(a, t, c) <= x)
  <1>1. PICK e \in Nat : e = Emission * c
    BY MemoryAssumption
  <1>2. Tolerance \in Nat /\ e <= Tolerance
    BY <1>1, MemoryAssumption DEF Tolerance
  <1>3. \A x : BucketAllows(a, x, c) <=> (Greatest(a, x) + e) - Tolerance <= x
    BY Zenon, <1>1 DEF BucketAllows, BucketNext
  <1>4. BucketRetry(a, t, c) = (Greatest(a, t) + e) - Tolerance - t
    BY Zenon, <1>1 DEF BucketRetry, BucketNext
  <1>5. ~((Greatest(a, t) + e) - Tolerance <= t)
    BY Zenon, <1>3
  <1>6. Greatest(a, t) = a /\ t <= a
    BY <1>2, <1>5 DEF Greatest
  <1>7. (a + e) - Tolerance - t \in Nat \ {0}
    BY <1>2, <1>5, <1>6
  <1>8. ASSUME NEW x \in Nat, t <= x
        PROVE  (Greatest(a, x) + e) - Tolerance <= x <=> t + ((a + e) - Tolerance - t) <= x
    BY <1>2, <1>6, <1>8 DEF Greatest
  <1>9. BucketRetry(a, t, c) = (a + e) - Tolerance - t
    BY Zenon, <1>4, <1>6
  <1> QED BY Zenon, <1>3, <1>7, <1>8, <1>9

(* A limit that admits a cost goes on admitting it.                        *)
LEMMA StillAllowed ==
    ASSUME NEW l \in Seq(Nat), InOrder(l), NEW a \in Nat, NEW t \in Nat, NEW x \in Nat, t <= x,
           NEW c \in Nat
    PROVE  /\ BucketAllows(a, t, c) => BucketAllows(a, x, c)
           /\ WindowAllows(l, t, c) => WindowAllows(l, x, c)
  <1>1. PICK e \in Nat : e = Emission * c
    BY MemoryAssumption
  <1>2. Tolerance \in Nat /\ Period \in Nat /\ Count \in Nat
    BY MemoryAssumption DEF Tolerance
  <1>3. \A y : BucketAllows(a, y, c) <=> (Greatest(a, y) + e) - Tolerance <= y
    BY Zenon, <1>1 DEF BucketAllows, BucketNext
  <1>4. (Greatest(a, t) + e) - Tolerance <= t => (Greatest(a, x) + e) - Tolerance <= x
    BY <1>2 DEF Greatest
  <1>5. PICK n \in Nat : n = Len(l)
    OBVIOUS
  <1>6. PICK k \in 1..(n + 1), d \in Nat : /\ d + k = n + 1 /\ Len(Prune(l, x)) = d
                                           /\ k <= n => l[k] > x - Period
    BY Zenon, <1>5, PrunedTo
  <1>7. PICK z \in Nat : z = Len(Prune(l, t))
    BY Zenon, PruneKeeps
  <1>8. d <= z
    <2>1. CASE k <= n
      <3>1. k \in 1..Len(l) /\ l[k] \in Nat
        BY <1>5, <2>1
      <3>2. ~(l[k] <= t - Period)
        BY <1>2, <1>6, <2>1, <3>1
      <3>3. ~(z <= n - k)
        BY Zenon, <1>5, <1>7, <3>1, <3>2, PrunedInOrder
      <3> QED BY <1>6, <3>3
    <2>2. CASE ~(k <= n)
      BY <1>6, <2>2
    <2> QED BY Zenon, <2>1, <2>2
  <1>9. WindowAllows(l, t, c) => WindowAllows(l, x, c)
    BY <1>2, <1>6, <1>7, <1>8 DEF WindowAllows
  <1> QED BY Zenon, <1>3, <1>4, <1>9

(* The wait gcraCheck and windowCheck report and Check takes the longest   *)
(* of: a refused caller is admitted when it is over and not an instant     *)
(* sooner, as long as the tenant's entries are in order.                   *)
THEOREM MemoryWaitsAreExact == Spec => []RetryAfterExact
  <1>1. ShapeInv /\ ExactInv => RetryAfterExact
    <2> SUFFICES ASSUME ShapeInv, ExactInv, NEW t \in Tenant, NEW lims \in LimitSets,
                        NEW c \in Costs(lims), ~overtaken[t], ~Allows(t, lims, now, c)
                 PROVE  /\ RetryAfter(t, lims, now, c) > 0
                        /\ Allows(t, lims, now + RetryAfter(t, lims, now, c), c)
                        /\ ~Allows(t, lims, now + RetryAfter(t, lims, now, c) - 1, c)
      BY Zenon DEF RetryAfterExact
    <2> DEFINE a == tat[t]
               l == log[t]
               noB == "bucket" \in lims /\ ~BucketAllows(a, now, c)
               noW == "window" \in lims /\ ~WindowAllows(l, now, c)
               b == IF noB THEN BucketRetry(a, now, c) ELSE 0
               w == IF noW THEN WindowRetry(l, now, c) ELSE 0
               r == Greatest(b, w)
    <2>1. /\ now \in Nat /\ a \in Nat /\ l \in Seq(Nat) /\ c \in Nat
          /\ "bucket" \in lims => c <= Capacity
          /\ "window" \in lims => c <= Count
      BY DEF ShapeInv, MutexInv, MemType, Costs
    <2>2. InOrder(l)
      BY Zenon DEF ExactInv, WindowExact
    <2>3. RetryAfter(t, lims, now, c) = r
      BY DEF RetryAfter
    <2>4. \A x : Allows(t, lims, x, c) <=> /\ "bucket" \in lims => BucketAllows(a, x, c)
                                           /\ "window" \in lims => WindowAllows(l, x, c)
      BY DEF Allows
    <2> HIDE DEF a, l
    <2>5. /\ b \in Nat /\ (noB => b # 0)
          /\ \A x \in Nat : now <= x =>
               (("bucket" \in lims => BucketAllows(a, x, c)) <=> now + b <= x)
      <3>1. CASE noB
        BY Zenon, <2>1, <3>1, BucketWait
      <3>2. CASE ~noB
        BY <2>1, <2>2, <3>2, StillAllowed
      <3> QED BY Zenon, <3>1, <3>2
    <2>6. /\ w \in Nat /\ (noW => w # 0)
          /\ \A x \in Nat : now <= x =>
               (("window" \in lims => WindowAllows(l, x, c)) <=> now + w <= x)
      <3>1. CASE noW
        BY Zenon, <2>1, <2>2, <3>1, WindowWait
      <3>2. CASE ~noW
        BY <2>1, <2>2, <3>2, StillAllowed
      <3> QED BY Zenon, <3>1, <3>2
    <2>7. noB \/ noW
      BY Zenon, <2>4
    <2> HIDE DEF b, w, noB, noW
    <2>8. r \in Nat /\ r > 0 /\ (\A y \in Nat : r <= y <=> b <= y /\ w <= y)
      BY <2>5, <2>6, <2>7 DEF Greatest
    <2> HIDE DEF r
    <2>9. \A x \in Nat : now <= x => (Allows(t, lims, x, c) <=> now + r <= x)
      <3> SUFFICES ASSUME NEW x \in Nat, now <= x
                   PROVE  Allows(t, lims, x, c) <=> now + r <= x
        BY Zenon
      <3>1. Allows(t, lims, x, c) <=> now + b <= x /\ now + w <= x
        BY Zenon, <2>4, <2>5, <2>6
      <3>2. x - now \in Nat
        BY <2>1
      <3>3. now + r <= x <=> now + b <= x /\ now + w <= x
        <4>1. r <= x - now <=> b <= x - now /\ w <= x - now
          BY Zenon, <2>8, <3>2
        <4> QED BY <2>1, <2>5, <2>6, <2>8, <4>1
      <3> QED BY Zenon, <3>1, <3>3
    <2>10. Allows(t, lims, now + r, c) /\ ~Allows(t, lims, now + r - 1, c)
      <3>1. now + r \in Nat /\ now <= now + r /\ now + r - 1 \in Nat /\ now <= now + r - 1
        BY <2>1, <2>8
      <3>2. now + r <= now + r /\ ~(now + r <= now + r - 1)
        BY <2>1, <2>8
      <3> QED BY Zenon, <2>9, <3>1, <3>2
    <2> QED BY Zenon, <2>3, <2>8, <2>10
  <1> QED BY <1>1, ShapeStarts, ShapeStep, ExactStarts, ExactStep, PTL DEF Spec
=============================================================================
