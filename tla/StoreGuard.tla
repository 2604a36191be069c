----------------------------- MODULE StoreGuard -----------------------------
(***************************************************************************)
(* Naming the counter store.  Redis holds a generation for the lifetime of *)
(* the store (limiter:store:gen) and, per tenant, the generation its       *)
(* counters were first touched under; the Raft log holds the generations   *)
(* the cluster agreed on.  Every node runs the guard                       *)
(* (internal/storegen/guard.go), which probes the store, latches the node  *)
(* shut when the two disagree, mints a name for a store that has none and  *)
(* proposes it; and every decision carries the generation its node applied *)
(* to the fence of check.lua.                                              *)
(***************************************************************************)
EXTENDS Naturals, Sequences

CONSTANTS
    Gateway,     \* gateway processes, each with one guard and one handler
    Tenant,
    MaxWipes,    \* bound on losses of the whole counter store
    MaxMishaps,  \* bound on restarts, elections and lost proposals together
    Calm         \* whether wipes and restarts strike only a settled cluster

ASSUME GuardAssumption ==
    /\ Gateway # {}
    /\ MaxWipes \in Nat /\ MaxMishaps \in Nat /\ Calm \in BOOLEAN

VARIABLES
    key,       \* limiter:store:gen, 0 when absent
    meta,      \* meta[t]: store_gen in the tenant's meta key, 0 when absent
    gens,      \* the generations SetStoreGen committed, in order
    fsm,       \* fsm[n]: how many of them node n's state machine has applied
    carried,   \* carried[n]: how many of them its storeGen atomic reflects
    leader,    \* the node whose proposals commit
    blocked,   \* blocked[n]: the latch
    probe,     \* probe[n]: the Reconcile under way
    call,      \* call[n]: the decision under way
    wipes, mishaps,
    minted,    \* history: the generations storegen.lua installed, in order
    used       \* history: used[t], the generations tenant t was served under
               \* since the store was last wiped

guardVars == <<key, meta, gens, fsm, carried, leader, blocked, probe, call, wipes, mishaps,
          minted, used>>
redis == <<key, meta, minted, used>>
raft == <<gens, fsm, carried, leader>>

-----------------------------------------------------------------------------
Probe == [pc : {"idle", "decide", "mint", "agree", "await"}, seen : Nat, cand : Nat]
IdleProbe == [pc |-> "idle", seen |-> 0, cand |-> 0]
Call == [pc : {"idle", "guard", "carry", "script", "reset"}, tenant : Tenant, gen : Nat]

GuardTypeOK ==
    /\ key \in Nat
    /\ meta \in [Tenant -> Nat]
    /\ gens \in Seq(Nat \ {0})
    /\ fsm \in [Gateway -> Nat]
    /\ carried \in [Gateway -> Nat]
    /\ leader \in Gateway
    /\ blocked \in [Gateway -> BOOLEAN]
    /\ probe \in [Gateway -> Probe]
    /\ call \in [Gateway -> Call]
    /\ wipes \in Nat /\ mishaps \in Nat
    /\ minted \in Seq(Nat \ {0})
    /\ used \in [Tenant -> SUBSET Nat]

(* A fresh deployment: nothing agreed, the store unnamed.                  *)
GuardInit ==
    /\ key = 0
    /\ meta = [t \in Tenant |-> 0]
    /\ gens = <<>>
    /\ fsm = [n \in Gateway |-> 0]
    /\ carried = [n \in Gateway |-> 0]
    /\ leader \in Gateway
    /\ blocked = [n \in Gateway |-> FALSE]
    /\ probe = [n \in Gateway |-> IdleProbe]
    /\ call \in [Gateway -> {[pc |-> "idle", tenant |-> t, gen |-> 0] : t \in Tenant}]
    /\ wipes = 0 /\ mishaps = 0
    /\ minted = <<>>
    /\ used = [t \in Tenant |-> {}]

(* The generation after i entries; 0 is none.                              *)
Gen(i) == IF i = 0 THEN 0 ELSE gens[i]
Committed(n) == Gen(fsm[n])
Newest == Gen(Len(gens))

-----------------------------------------------------------------------------
(* Guard.Reconcile.  A probe that cannot read the store changes nothing.   *)

ProbeRead(n) ==
    /\ probe[n].pc = "idle"
    /\ probe' = [probe EXCEPT ![n] = [pc |-> "decide", seen |-> key, cand |-> 0]]
    /\ UNCHANGED <<redis, raft, blocked, call, wipes, mishaps>>

(* Mutant: the candidate is the committed generation itself. *)
ProbeDecideReuses(n) ==
    LET p == probe[n]
        c == Committed(n)
        agreed == c > 0 /\ p.seen = c
    IN  /\ p.pc = "decide"
        /\ blocked' = [blocked EXCEPT ![n] = IF c = 0 THEN @ ELSE ~agreed]
        /\ probe' = [probe EXCEPT ![n] =
             IF agreed THEN IdleProbe
             ELSE [pc |-> IF p.seen = 0 THEN "mint" ELSE "agree", seen |-> p.seen,
                   cand |-> c]]
        /\ UNCHANGED <<redis, raft, call, wipes, mishaps>>

(* Mutant: nothing agreed yet is treated like a disagreement. *)
ProbeDecideLatchesFresh(n) ==
    LET p == probe[n]
        c == Committed(n)
        agreed == c > 0 /\ p.seen = c
    IN  /\ p.pc = "decide"
        /\ blocked' = [blocked EXCEPT ![n] = ~agreed]
        /\ probe' = [probe EXCEPT ![n] =
             IF agreed THEN IdleProbe
             ELSE [pc |-> IF p.seen = 0 THEN "mint" ELSE "agree", seen |-> p.seen,
                   cand |-> c + 1]]
        /\ UNCHANGED <<redis, raft, call, wipes, mishaps>>

(* Mutant: a probe that finds the store agreed does not open the latch. *)
ProbeDecideKeepsLatch(n) ==
    LET p == probe[n]
        c == Committed(n)
        agreed == c > 0 /\ p.seen = c
    IN  /\ p.pc = "decide"
        /\ blocked' = [blocked EXCEPT ![n] = IF c = 0 \/ agreed THEN @ ELSE TRUE]
        /\ probe' = [probe EXCEPT ![n] =
             IF agreed THEN IdleProbe
             ELSE [pc |-> IF p.seen = 0 THEN "mint" ELSE "agree", seen |-> p.seen,
                   cand |-> c + 1]]
        /\ UNCHANGED <<redis, raft, call, wipes, mishaps>>

(* What to do about the name that was read, and whether to mint one.       *)
ProbeDecide(n) ==
    LET p == probe[n]
        c == Committed(n)
        agreed == c > 0 /\ p.seen = c
    IN  /\ p.pc = "decide"
        /\ blocked' = [blocked EXCEPT ![n] = IF c = 0 THEN @ ELSE ~agreed]
        /\ probe' = [probe EXCEPT ![n] =
             IF agreed THEN IdleProbe
             ELSE [pc |-> IF p.seen = 0 THEN "mint" ELSE "agree", seen |-> p.seen,
                   cand |-> c + 1]]
        /\ UNCHANGED <<redis, raft, call, wipes, mishaps>>

(* storegen.lua: the first caller names the store, the rest read the name. *)
Mint(n) ==
    LET p == probe[n]
        inForce == IF key = 0 THEN p.cand ELSE key
    IN  /\ p.pc = "mint"
        /\ key' = inForce
        /\ minted' = IF key = 0 THEN Append(minted, p.cand) ELSE minted
        /\ probe' = [probe EXCEPT ![n] = [@ EXCEPT !.pc = "agree", !.seen = inForce]]
        /\ UNCHANGED <<meta, used, raft, blocked, call, wipes, mishaps>>

(* State.Apply of SetStoreGen: only a higher generation is accepted.       *)
SetStoreGen(g) == IF g > Newest THEN Append(gens, g) ELSE gens

(* Mutant: the latch opens on the proposal rather than on the agreement. *)
AgreeOpensEarly(n) ==
    LET p == probe[n]
    IN  /\ p.pc = "agree"
        /\ blocked' = [blocked EXCEPT ![n] = FALSE]
        /\ gens' = IF leader = n /\ p.seen # Committed(n) THEN SetStoreGen(p.seen) ELSE gens
        /\ probe' = [probe EXCEPT ![n] = IdleProbe]
        /\ UNCHANGED <<redis, fsm, carried, leader, call, wipes, mishaps>>

(* The rest of adopt: open if this is what was agreed, else propose it.    *)
Agree(n) ==
    LET p == probe[n]
    IN  /\ p.pc = "agree"
        /\ IF p.seen = Committed(n)
           THEN /\ blocked' = [blocked EXCEPT ![n] = FALSE]
                /\ probe' = [probe EXCEPT ![n] = IdleProbe]
                /\ UNCHANGED gens
           ELSE /\ gens' = IF leader = n THEN SetStoreGen(p.seen) ELSE gens
                /\ probe' = [probe EXCEPT ![n] =
                     IF leader = n THEN [@ EXCEPT !.pc = "await"] ELSE IdleProbe]
                /\ UNCHANGED blocked
        /\ UNCHANGED <<redis, fsm, carried, leader, call, wipes, mishaps>>

(* The proposal's future resolves once this node has applied it, or when   *)
(* it no longer leads.                                                     *)
Proposed(n) ==
    /\ probe[n].pc = "await"
    /\ carried[n] = Len(gens) \/ leader # n
    /\ probe' = [probe EXCEPT ![n] = IdleProbe]
    /\ UNCHANGED <<redis, raft, blocked, call, wipes, mishaps>>

(* FSM.Apply or FSM.Restore: the state first, what is carried after it.    *)
ApplyGen(n) ==
    /\ carried[n] = fsm[n]
    /\ \E i \in (fsm[n] + 1)..Len(gens) : fsm' = [fsm EXCEPT ![n] = i]
    /\ UNCHANGED <<redis, gens, carried, leader, blocked, probe, call, wipes, mishaps>>

Publish(n) ==
    /\ carried[n] # fsm[n]
    /\ carried' = [carried EXCEPT ![n] = fsm[n]]
    /\ UNCHANGED <<redis, gens, fsm, leader, blocked, probe, call, wipes, mishaps>>

-----------------------------------------------------------------------------
(* A decision: the latch, the generation to carry, the script, the latch   *)
(* again if the script refuses.                                            *)

CallArrives(n, t) ==
    /\ call[n].pc = "idle"
    /\ call' = [call EXCEPT ![n] = [pc |-> "guard", tenant |-> t, gen |-> 0]]
    /\ UNCHANGED <<redis, raft, blocked, probe, wipes, mishaps>>

(* Guard.Check: refused while latched.                                     *)
GuardCheck(n) ==
    /\ call[n].pc = "guard"
    /\ call' = [call EXCEPT ![n].pc = IF blocked[n] THEN "idle" ELSE "carry"]
    /\ UNCHANGED <<redis, raft, blocked, probe, wipes, mishaps>>

Carry(n) ==
    /\ call[n].pc = "carry"
    /\ call' = [call EXCEPT ![n] = [@ EXCEPT !.pc = "script", !.gen = Gen(carried[n])]]
    /\ UNCHANGED <<redis, raft, blocked, probe, wipes, mishaps>>

(* Mutant: only a generation below the stored one is refused. *)
StoreResetBelow(stored, gen) == gen > 0 /\ stored > 0 /\ gen < stored

(* The store fence of check.lua.                                           *)
StoreReset(stored, gen) == gen > 0 /\ stored > 0 /\ stored # gen

(* Past the fence, an unnamed tenant takes the name the caller carries.     *)
ScriptRuns(t, g) ==
    /\ meta' = IF g > 0 /\ meta[t] = 0 THEN [meta EXCEPT ![t] = g] ELSE meta
    /\ used' = IF g = 0 \/ StoreReset(meta[t], g) THEN used
               ELSE [used EXCEPT ![t] = @ \cup {g}]

Script(n) ==
    LET t == call[n].tenant
        g == call[n].gen
    IN  /\ call[n].pc = "script"
        /\ ScriptRuns(t, g)
        /\ call' = [call EXCEPT ![n].pc = IF StoreReset(meta[t], g) THEN "reset" ELSE "idle"]
        /\ UNCHANGED <<key, minted, raft, blocked, probe, wipes, mishaps>>

(* The call fails, before the script ran or after: the failure mode of the *)
(* policy decides.                                                         *)
ScriptFails(n) ==
    /\ call[n].pc = "script"
    /\ ScriptRuns(call[n].tenant, call[n].gen) \/ UNCHANGED <<meta, used>>
    /\ call' = [call EXCEPT ![n].pc = "idle"]
    /\ UNCHANGED <<key, minted, raft, blocked, probe, wipes, mishaps>>

(* ErrStoreReset reaches decideHere, which latches the whole node.         *)
Fence(n) ==
    /\ call[n].pc = "reset"
    /\ blocked' = [blocked EXCEPT ![n] = TRUE]
    /\ call' = [call EXCEPT ![n].pc = "idle"]
    /\ UNCHANGED <<redis, raft, probe, wipes, mishaps>>

-----------------------------------------------------------------------------
(* Every node has applied, and the store carries, the newest generation,   *)
(* and no probe is between reading the store and acting on it.             *)
Settled ==
    /\ key = Newest
    /\ \A n \in Gateway : fsm[n] = Len(gens) /\ probe[n].pc = "idle"

(* FLUSHALL, or a store replaced by an empty one.                          *)
WipeStore ==
    /\ wipes < MaxWipes
    /\ Calm => Settled
    /\ wipes' = wipes + 1
    /\ key' = 0
    /\ meta' = [t \in Tenant |-> 0]
    /\ used' = [t \in Tenant |-> {}]
    /\ UNCHANGED <<minted, raft, blocked, probe, call, mishaps>>

(* A node comes back with its log on disk, nothing of it applied yet.  The *)
(* probe before serving may fail to read the store, and then changes       *)
(* nothing: requests can precede the first one that does.                  *)
GatewayRestart(n) ==
    /\ mishaps < MaxMishaps
    /\ Calm => Settled
    /\ mishaps' = mishaps + 1
    /\ fsm' = [fsm EXCEPT ![n] = 0]
    /\ carried' = [carried EXCEPT ![n] = 0]
    /\ blocked' = [blocked EXCEPT ![n] = FALSE]
    /\ probe' = [probe EXCEPT ![n] = IdleProbe]
    /\ call' = [call EXCEPT ![n].pc = "idle"]
    /\ UNCHANGED <<redis, gens, leader, wipes>>

Elect(n) ==
    /\ mishaps < MaxMishaps /\ n # leader
    /\ mishaps' = mishaps + 1
    /\ leader' = n
    /\ UNCHANGED <<redis, gens, fsm, carried, blocked, probe, call, wipes>>

(* Minting or proposing fails, or leadership is lost before the commit.    *)
ProbeFails(n) ==
    /\ mishaps < MaxMishaps /\ probe[n].pc \in {"mint", "agree"}
    /\ mishaps' = mishaps + 1
    /\ probe' = [probe EXCEPT ![n] = IdleProbe]
    /\ UNCHANGED <<redis, raft, blocked, call, wipes>>

GuardStep(n) == ProbeRead(n) \/ ProbeDecide(n) \/ Mint(n) \/ Agree(n) \/ Proposed(n)
RaftStep(n) == ApplyGen(n) \/ Publish(n)
DecisionStep(n) == GuardCheck(n) \/ Carry(n) \/ Script(n) \/ ScriptFails(n) \/ Fence(n)

GuardNext ==
    \/ \E n \in Gateway : \/ GuardStep(n) \/ RaftStep(n) \/ DecisionStep(n)
                          \/ GatewayRestart(n) \/ Elect(n) \/ ProbeFails(n)
                          \/ \E t \in Tenant : CallArrives(n, t)
    \/ WipeStore

GuardSpec == GuardInit /\ [][GuardNext]_guardVars
GuardFairness == \A n \in Gateway : WF_guardVars(GuardStep(n)) /\ WF_guardVars(RaftStep(n))
FairGuard == GuardSpec /\ GuardFairness

-----------------------------------------------------------------------------
(* "The generation after a wipe always outranks the one before it"         *)
(* (README): the names given to the store ascend, so no two lifetimes of   *)
(* the store share one.                                                    *)
MintsAscend == \A i, j \in 1..Len(minted) : i < j => minted[i] < minted[j]

(* "The candidate always one above the highest the cluster has ever        *)
(* committed" (README): a store that lost its name is never given one that *)
(* was agreed on before.                                                   *)
(* Does not hold: see README, section 6.                                   *)
MintedAboveCommitted == [][key = 0 /\ key' # 0 => key' > Newest]_guardVars

(* What the store fence buys: between two wipes, a tenant's counters are   *)
(* touched by fenced checks of one generation only, whatever each node has *)
(* applied (check.lua refuses a difference in either direction).           *)
OneNamePerLife == \A t \in Tenant : \A g, h \in used[t] : g = h

(* A store that was never lost is refused at most for one probe: a node    *)
(* that read the store before it was named and its log after, or that lags *)
(* or restarts, is latched only while the store already carries what the   *)
(* node has applied, so that its next look opens it (guard.go).            *)
NoLastingFalseAlarm == wipes = 0 => \A n \in Gateway : blocked[n] => key = Committed(n)

(* "Until the cluster agrees on a new generation" (README): a latched node *)
(* opens again only while the store carries the newest generation agreed.  *)
OpensOnAgreement ==
    [][\A n \in Gateway : blocked[n] /\ ~blocked'[n] => key > 0 /\ key = Newest]_guardVars

(* ... and it does open again: no wipe leaves a node latched for good.     *)
Reopens == \A n \in Gateway : []<>(~blocked[n])

(* "A full flush does not do this, because the per-tenant keys go too and  *)
(* are adopted" (README): once the cluster has agreed on the name of the   *)
(* store, no tenant is bound to another one.                               *)
(* Does not hold: see README, section 6.                                   *)
FlushOrphansNobody ==
    key = Newest => \A t \in Tenant : meta[t] \in {0, key}
=============================================================================
