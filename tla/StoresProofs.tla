---------------------------- MODULE StoresProofs ----------------------------
(***************************************************************************)
(* What the two stores promise.  StoreGuard: what naming the counter store *)
(* buys, for any number of nodes and tenants, any number of wipes and      *)
(* mishaps, and any interleaving of probes, proposals and decisions.       *)
(* PolicyStore: for any number of operators, policies, tenants and keys, a *)
(* PUT replaces a record whole, no tenant is left without limits, an ended *)
(* key stays ended, and a connected replica follows.                       *)
(***************************************************************************)
EXTENDS StoreGuard, PolicyStore, TLAPS

(* The counter store and its name.                                         *)

GuardType ==
    /\ GuardTypeOK
    /\ \A n \in Gateway : /\ fsm[n] <= Len(gens) /\ carried[n] <= Len(gens)
                          /\ probe[n].pc = "mint" => probe[n].cand # 0

LEMMA GenType ==
    ASSUME GuardType, NEW i \in 0..Len(gens)
    PROVE  Gen(i) \in Nat /\ (Gen(i) = 0 <=> i = 0)
  BY DEF GuardType, GuardTypeOK, Gen

LEMMA CommittedType ==
    ASSUME GuardType
    PROVE  /\ Newest \in Nat /\ (Newest = 0 <=> gens = <<>>)
           /\ \A n \in Gateway : Committed(n) \in Nat /\ (Committed(n) = 0 <=> fsm[n] = 0)
  <1>1. Len(gens) \in 0..Len(gens) /\ \A n \in Gateway : fsm[n] \in 0..Len(gens)
    BY DEF GuardType, GuardTypeOK
  <1>2. Len(gens) = 0 <=> gens = <<>>
    BY DEF GuardType, GuardTypeOK
  <1> QED BY Zenon, <1>1, <1>2, GenType DEF Newest, Committed

(* The log and what it names, when an entry is appended or not.            *)
LEMMA SetStoreGenType ==
    ASSUME GuardType, NEW g \in Nat, gens' = SetStoreGen(g)
    PROVE  /\ gens' \in Seq(Nat \ {0}) /\ Len(gens) <= Len(gens') /\ Len(gens) \in Nat
           /\ \A i \in 1..Len(gens) : gens'[i] = gens[i]
           /\ Newest' = IF g > Newest THEN g ELSE Newest
           /\ g > Newest => Len(gens') = Len(gens) + 1 /\ gens'[Len(gens) + 1] = g
           /\ ~(g > Newest) => gens' = gens
  <1>1. Newest \in Nat
    BY Zenon, CommittedType
  <1>2. CASE g > Newest
    <2>1. gens' = Append(gens, g) /\ g \in Nat \ {0}
      BY <1>1, <1>2 DEF SetStoreGen
    <2> QED BY <1>2, <2>1 DEF GuardType, GuardTypeOK, Newest, Gen
  <1>3. CASE ~(g > Newest)
    BY <1>3 DEF SetStoreGen, GuardType, GuardTypeOK, Newest, Gen
  <1> QED BY Zenon, <1>2, <1>3

-----------------------------------------------------------------------------
(* Types, one lemma per group of steps.                                    *)
LEMMA ProbeReadType ==
    ASSUME GuardType, NEW n \in Gateway, ProbeRead(n) PROVE GuardType'
  <1> DEFINE x == [pc |-> "decide", seen |-> key, cand |-> 0]
  <1>1. x \in Probe /\ x.pc = "decide"
    BY Zenon DEF GuardType, GuardTypeOK, Probe
  <1>2. probe' = [probe EXCEPT ![n] = x]
    BY Zenon DEF ProbeRead
  <1> HIDE DEF x
  <1> QED BY Zenon, <1>1, <1>2 DEF ProbeRead, GuardType, GuardTypeOK, redis, raft

LEMMA ProbeDecideType ==
    ASSUME GuardType, NEW n \in Gateway, ProbeDecide(n) PROVE GuardType'
  <1> DEFINE x == [pc |-> IF probe[n].seen = 0 THEN "mint" ELSE "agree",
                   seen |-> probe[n].seen, cand |-> Committed(n) + 1]
  <1>1. x \in Probe /\ IdleProbe \in Probe /\ x.cand # 0 /\ IdleProbe.pc = "idle"
    BY CommittedType, SMTT(30) DEF GuardType, GuardTypeOK, Probe, IdleProbe
  <1>2. probe' = [probe EXCEPT ![n] = x] \/ probe' = [probe EXCEPT ![n] = IdleProbe]
    BY Zenon DEF ProbeDecide
  <1> HIDE DEF x
  <1>3. probe' \in [Gateway -> Probe] /\ \A m \in Gateway : probe'[m].pc = "mint" => probe'[m].cand # 0
    BY Zenon, <1>1, <1>2 DEF GuardType, GuardTypeOK
  <1>4. \E b \in BOOLEAN : blocked' = [blocked EXCEPT ![n] = b]
    <2>1. blocked[n] \in BOOLEAN
      BY Zenon DEF GuardType, GuardTypeOK
    <2> QED BY Zenon, <2>1 DEF ProbeDecide
  <1>5. blocked' \in [Gateway -> BOOLEAN]
    BY Zenon, <1>4 DEF GuardType, GuardTypeOK
  <1>6. UNCHANGED <<key, meta, minted, used, gens, fsm, carried, leader, call, wipes, mishaps>>
    BY Zenon DEF ProbeDecide, redis, raft
  <1> QED BY Zenon, <1>3, <1>5, <1>6 DEF GuardType, GuardTypeOK

LEMMA MintType ==
    ASSUME GuardType, NEW n \in Gateway, Mint(n) PROVE GuardType'
  <1> DEFINE inForce == IF key = 0 THEN probe[n].cand ELSE key
             x == [probe[n] EXCEPT !.pc = "agree", !.seen = inForce]
  <1>1. probe[n] \in Probe /\ inForce \in Nat /\ probe[n].cand \in Nat \ {0}
    BY Zenon DEF GuardType, GuardTypeOK, Probe, Mint
  <1>2. probe' = [probe EXCEPT ![n] = x] /\ key' = inForce
    <2>1. probe' = [probe EXCEPT ![n] = x]
      BY Zenon DEF Mint
    <2>2. key' = inForce
      BY Zenon DEF Mint
    <2> QED BY Zenon, <2>1, <2>2
  <1>3. minted' = minted \/ minted' = Append(minted, probe[n].cand)
    BY Zenon DEF Mint
  <1>4. minted' \in Seq(Nat \ {0})
    <2>1. minted \in Seq(Nat \ {0})
      BY Zenon DEF GuardType, GuardTypeOK
    <2>2. \A c \in Nat \ {0} : Append(minted, c) \in Seq(Nat \ {0})
      BY <2>1
    <2> QED BY Zenon, <1>1, <1>3, <2>1, <2>2
  <1> HIDE DEF inForce
  <1>5. x \in Probe /\ x.pc = "agree"
    BY Zenon, <1>1 DEF Probe
  <1> HIDE DEF x
  <1>6. UNCHANGED <<meta, used, gens, fsm, carried, leader, blocked, call, wipes, mishaps>>
    BY Zenon DEF Mint, raft
  <1> QED BY Zenon, <1>1, <1>2, <1>4, <1>5, <1>6 DEF GuardType, GuardTypeOK

LEMMA AgreeType ==
    ASSUME GuardType, NEW n \in Gateway, Agree(n) PROVE GuardType'
  <1> DEFINE x == [probe[n] EXCEPT !.pc = "await"]
  <1>1. /\ x \in Probe /\ x.pc = "await" /\ IdleProbe \in Probe /\ IdleProbe.pc = "idle"
        /\ probe[n].seen \in Nat
    BY Zenon DEF GuardType, GuardTypeOK, Probe, IdleProbe
  <1>2. probe' = [probe EXCEPT ![n] = x] \/ probe' = [probe EXCEPT ![n] = IdleProbe]
    BY Zenon DEF Agree
  <1> HIDE DEF x
  <1>3. probe' \in [Gateway -> Probe] /\ \A m \in Gateway : probe'[m].pc = "mint" => probe'[m].cand # 0
    BY Zenon, <1>1, <1>2 DEF GuardType, GuardTypeOK
  <1>4. blocked' \in [Gateway -> BOOLEAN]
    BY Zenon DEF Agree, GuardType, GuardTypeOK
  <1>5. gens' = gens \/ gens' = SetStoreGen(probe[n].seen)
    BY Zenon DEF Agree
  <1>6. gens' \in Seq(Nat \ {0}) /\ Len(gens) <= Len(gens') /\ Len(gens) \in Nat /\ Len(gens') \in Nat
    <2>1. CASE gens' = gens
      BY <2>1 DEF GuardType, GuardTypeOK
    <2>2. CASE gens' = SetStoreGen(probe[n].seen)
      BY <1>1, <2>2, SetStoreGenType
    <2> QED BY Zenon, <1>5, <2>1, <2>2
  <1>7. UNCHANGED <<key, meta, minted, used, fsm, carried, leader, call, wipes, mishaps>>
    BY Zenon DEF Agree, redis
  <1> QED BY <1>3, <1>4, <1>6, <1>7 DEF GuardType, GuardTypeOK

LEMMA RestType ==
    ASSUME GuardType, NEW n \in Gateway,
           Proposed(n) \/ ApplyGen(n) \/ Publish(n) \/ GatewayRestart(n) \/ Elect(n) \/ ProbeFails(n)
    PROVE  GuardType'
  <1>1. IdleProbe \in Probe /\ IdleProbe.pc = "idle"
    BY Zenon DEF Probe, IdleProbe
  <1>2. CASE Proposed(n)
    BY Zenon, <1>1, <1>2 DEF Proposed, GuardType, GuardTypeOK, redis, raft
  <1>3. CASE ApplyGen(n)
    <2>1. PICK i \in (fsm[n] + 1)..Len(gens) : fsm' = [fsm EXCEPT ![n] = i]
      BY Zenon, <1>3 DEF ApplyGen
    <2>2. i \in Nat /\ i <= Len(gens)
      <3>1. fsm[n] \in Nat /\ Len(gens) \in Nat
        BY DEF GuardType, GuardTypeOK
      <3> QED BY <3>1
    <2> QED BY Zenon, <1>3, <2>1, <2>2 DEF ApplyGen, GuardType, GuardTypeOK, redis
  <1>4. CASE Publish(n)
    BY Zenon, <1>4 DEF Publish, GuardType, GuardTypeOK, redis
  <1>5. CASE GatewayRestart(n)
    <2> DEFINE x == [call[n] EXCEPT !.pc = "idle"]
    <2>1. x \in Call
      BY Zenon DEF GuardType, GuardTypeOK, Call
    <2>2. call' = [call EXCEPT ![n] = x]
      BY Zenon, <1>5 DEF GatewayRestart
    <2> HIDE DEF x
    <2>3. call' \in [Gateway -> Call]
      BY Zenon, <2>1, <2>2 DEF GuardType, GuardTypeOK
    <2>4. mishaps' \in Nat /\ Len(gens) \in Nat
      BY <1>5 DEF GatewayRestart, GuardType, GuardTypeOK
    <2> QED BY <1>1, <1>5, <2>3, <2>4 DEF GatewayRestart, GuardType, GuardTypeOK, redis
  <1>6. CASE Elect(n)
    BY <1>6 DEF Elect, GuardType, GuardTypeOK, redis
  <1>7. CASE ProbeFails(n)
    BY <1>1, <1>7 DEF ProbeFails, GuardType, GuardTypeOK, redis, raft
  <1> QED BY Zenon, <1>2, <1>3, <1>4, <1>5, <1>6, <1>7

(* What a decision leaves of the handler's record.                         *)
LEMMA CallUpdate ==
    ASSUME GuardType, NEW n \in Gateway, NEW pc \in {"idle", "guard", "carry", "script", "reset"},
           call' = [call EXCEPT ![n].pc = pc]
    PROVE  /\ call' \in [Gateway -> Call] /\ call'[n].pc = pc
           /\ call'[n].tenant = call[n].tenant /\ call'[n].gen = call[n].gen
           /\ \A m \in Gateway : m # n => call'[m] = call[m]
  <1> DEFINE x == [call[n] EXCEPT !.pc = pc]
  <1>1. x \in Call /\ x.pc = pc /\ x.tenant = call[n].tenant /\ x.gen = call[n].gen
    BY Zenon DEF GuardType, GuardTypeOK, Call
  <1>2. call' = [call EXCEPT ![n] = x]
    BY Zenon
  <1> HIDE DEF x
  <1> QED BY Zenon, <1>1, <1>2 DEF GuardType, GuardTypeOK

LEMMA DecisionType ==
    ASSUME GuardType, NEW n \in Gateway, DecisionStep(n) \/ \E t \in Tenant : CallArrives(n, t)
    PROVE  GuardType'
  <1>1. ASSUME NEW t \in Tenant, CallArrives(n, t) PROVE GuardType'
    <2> DEFINE x == [pc |-> "guard", tenant |-> t, gen |-> 0]
    <2>1. x \in Call /\ call' = [call EXCEPT ![n] = x]
      BY Zenon, <1>1 DEF CallArrives, Call
    <2> HIDE DEF x
    <2> QED BY <1>1, <2>1 DEF CallArrives, GuardType, GuardTypeOK, redis, raft
  <1>2. CASE GuardCheck(n)
    BY Zenon, <1>2, CallUpdate DEF GuardCheck, GuardType, GuardTypeOK, redis, raft
  <1>3. CASE Carry(n)
    <2> DEFINE x == [call[n] EXCEPT !.pc = "script", !.gen = Gen(carried[n])]
    <2>1. carried[n] \in 0..Len(gens) /\ call[n] \in Call
      BY DEF GuardType, GuardTypeOK
    <2>2. Gen(carried[n]) \in Nat
      BY Zenon, <2>1, GenType
    <2>3. x \in Call /\ call' = [call EXCEPT ![n] = x]
      BY Zenon, <1>3, <2>1, <2>2 DEF Carry, Call
    <2> HIDE DEF x
    <2> QED BY Zenon, <1>3, <2>3 DEF Carry, GuardType, GuardTypeOK, redis, raft
  <1>4. CASE Fence(n)
    BY Zenon, <1>4, CallUpdate DEF Fence, GuardType, GuardTypeOK, redis, raft
  <1>5. CASE Script(n) \/ ScriptFails(n)
    <2>1. call[n] \in Call /\ call[n].tenant \in Tenant /\ call[n].gen \in Nat
      BY Zenon DEF GuardType, GuardTypeOK, Call
    <2>2. meta' \in [Tenant -> Nat] /\ used' \in [Tenant -> SUBSET Nat]
      <3>1. CASE UNCHANGED <<meta, used>>
        BY Zenon, <3>1 DEF GuardType, GuardTypeOK
      <3>2. CASE ScriptRuns(call[n].tenant, call[n].gen)
        <4>1. meta' \in [Tenant -> Nat]
          BY Zenon, <2>1, <3>2 DEF ScriptRuns, GuardType, GuardTypeOK
        <4>2. used[call[n].tenant] \cup {call[n].gen} \in SUBSET Nat
          BY Zenon, <2>1 DEF GuardType, GuardTypeOK
        <4>3. used' = used \/ used' = [used EXCEPT ![call[n].tenant] = @ \cup {call[n].gen}]
          BY Zenon, <3>2 DEF ScriptRuns
        <4> QED BY Zenon, <2>1, <4>1, <4>2, <4>3 DEF GuardType, GuardTypeOK
      <3> QED BY Zenon, <1>5, <3>1, <3>2 DEF Script, ScriptFails
    <2>3. \E pc \in {"idle", "reset"} : call' = [call EXCEPT ![n].pc = pc]
      BY Zenon, <1>5 DEF Script, ScriptFails
    <2>4. call' \in [Gateway -> Call]
      BY Zenon, <2>3, CallUpdate
    <2>5. UNCHANGED <<key, minted, gens, fsm, carried, leader, blocked, probe, wipes, mishaps>>
      BY Zenon, <1>5 DEF Script, ScriptFails, raft
    <2> QED BY Zenon, <2>2, <2>4, <2>5 DEF GuardType, GuardTypeOK
  <1> QED BY Zenon, <1>1, <1>2, <1>3, <1>4, <1>5 DEF DecisionStep

LEMMA WipeType == ASSUME GuardType, WipeStore PROVE GuardType'
  BY DEF WipeStore, GuardType, GuardTypeOK, raft

LEMMA GuardTypeInit == GuardInit => GuardType
  BY GuardAssumption DEF GuardInit, GuardType, GuardTypeOK, Probe, IdleProbe, Call

LEMMA GuardTypeStep == GuardType /\ [GuardNext]_guardVars => GuardType'
  <1> SUFFICES ASSUME GuardType, [GuardNext]_guardVars PROVE GuardType'
    BY Zenon
  <1>1. CASE UNCHANGED guardVars
    BY Zenon, <1>1 DEF guardVars, GuardType, GuardTypeOK
  <1> QED BY Zenon, <1>1, ProbeReadType, ProbeDecideType, MintType, AgreeType, RestType, DecisionType,
             WipeType DEF GuardNext, GuardStep, RaftStep

(* Every variable of the guards, the log and the store keeps its type.     *)
THEOREM GuardTypeCorrect == GuardSpec => []GuardTypeOK
  <1>1. GuardType => GuardTypeOK
    BY Zenon DEF GuardType
  <1> QED BY <1>1, GuardTypeInit, GuardTypeStep, PTL DEF GuardSpec

-----------------------------------------------------------------------------
(* Whatever a tenant was served under since the last wipe is the name its  *)
(* meta key holds.                                                         *)
NameInv == GuardType /\ \A t \in Tenant : \A g \in used[t] : g = meta[t] /\ g # 0

LEMMA ScriptKeepsName ==
    ASSUME NameInv, NEW t \in Tenant, NEW g \in Nat, ScriptRuns(t, g)
    PROVE  \A u \in Tenant : \A h \in used'[u] : h = meta'[u] /\ h # 0
  <1> SUFFICES ASSUME NEW u \in Tenant, NEW h \in used'[u] PROVE h = meta'[u] /\ h # 0
    BY Zenon
  <1>1. meta \in [Tenant -> Nat] /\ used \in [Tenant -> SUBSET Nat]
    BY Zenon DEF NameInv, GuardType, GuardTypeOK
  <1>2. CASE u # t
    BY Zenon, <1>1, <1>2 DEF NameInv, ScriptRuns
  <1>3. CASE u = t /\ (g = 0 \/ StoreReset(meta[t], g))
    BY Zenon, <1>1, <1>3 DEF NameInv, ScriptRuns, StoreReset
  <1>4. CASE u = t /\ g # 0 /\ ~StoreReset(meta[t], g)
    <2>1. meta[t] = 0 \/ meta[t] = g
      BY <1>1, <1>4 DEF StoreReset
    <2>2. meta'[t] = g /\ used'[t] = used[t] \cup {g}
      BY <1>1, <1>4, <2>1 DEF ScriptRuns
    <2> QED BY Zenon, <1>4, <2>1, <2>2 DEF NameInv
  <1> QED BY Zenon, <1>2, <1>3, <1>4

LEMMA NameStep == NameInv /\ [GuardNext]_guardVars => NameInv'
  <1> SUFFICES ASSUME NameInv, [GuardNext]_guardVars PROVE NameInv'
    BY Zenon
  <1>1. GuardType'
    BY Zenon, GuardTypeStep DEF NameInv
  <1>2. CASE UNCHANGED <<meta, used>>
    BY Zenon, <1>1, <1>2 DEF NameInv
  <1>3. CASE WipeStore
    BY Zenon, <1>1, <1>3 DEF NameInv, WipeStore
  <1>4. ASSUME NEW n \in Gateway, Script(n) \/ ScriptFails(n) PROVE NameInv'
    <2>1. call[n].tenant \in Tenant /\ call[n].gen \in Nat
      BY Zenon DEF NameInv, GuardType, GuardTypeOK, Call
    <2>2. CASE ScriptRuns(call[n].tenant, call[n].gen)
      BY Zenon, <1>1, <2>1, <2>2, ScriptKeepsName DEF NameInv
    <2> QED BY Zenon, <1>2, <1>4, <2>2 DEF Script, ScriptFails
  <1>5. ASSUME NEW n \in Gateway,
               \/ GuardStep(n) \/ RaftStep(n) \/ GuardCheck(n) \/ Carry(n) \/ Fence(n)
               \/ GatewayRestart(n) \/ Elect(n) \/ ProbeFails(n) \/ \E t \in Tenant : CallArrives(n, t)
        PROVE  UNCHANGED <<meta, used>>
    BY Zenon, <1>5 DEF GuardStep, RaftStep, ProbeRead, ProbeDecide, Mint, Agree, Proposed, ApplyGen,
                Publish, GuardCheck, Carry, Fence, GatewayRestart, Elect, ProbeFails, CallArrives, redis
  <1> QED BY Zenon, <1>2, <1>3, <1>4, <1>5 DEF GuardNext, DecisionStep, guardVars

(* Between two wipes the checks that carry a generation touch a tenant's   *)
(* counters under one generation only, however wipes, restarts and lagging *)
(* nodes interleave with them.                                             *)
THEOREM OneNameBetweenWipes == GuardSpec => []OneNamePerLife
  <1>1. GuardInit => NameInv
    BY Zenon, GuardTypeInit DEF GuardInit, NameInv
  <1>2. NameInv => OneNamePerLife
    BY Zenon DEF NameInv, OneNamePerLife
  <1> QED BY <1>1, <1>2, NameStep, PTL DEF GuardSpec

-----------------------------------------------------------------------------
(* While the store has not been lost there is one name to give it, and     *)
(* nothing anyone has read, applied or carried is another.                 *)
FirstLife ==
    /\ key \in {0, 1} /\ gens \in {<<>>, <<1>>} /\ (key = 0 => gens = <<>>)
    /\ \A t \in Tenant : meta[t] \in {0, 1}
    /\ \A n \in Gateway :
         /\ call[n].gen \in {0, 1} /\ call[n].pc # "reset"
         /\ probe[n].seen \in {0, key}
         /\ probe[n].pc = "agree" => probe[n].seen = 1
         /\ probe[n].pc = "mint" /\ key = 0 => probe[n].cand = 1
         /\ blocked[n] => fsm[n] = 1

AlarmInv == GuardType /\ (wipes = 0 => FirstLife)

LEMMA OneGeneration ==
    ASSUME GuardType, FirstLife, NEW n \in Gateway
    PROVE  /\ fsm[n] \in {0, 1} /\ Committed(n) = fsm[n] /\ Gen(carried[n]) \in {0, 1}
           /\ fsm[n] = 1 => key = 1
           /\ Newest \in {0, 1}
  <1>1. gens = <<>> => Len(gens) = 0
    OBVIOUS
  <1>2. gens = <<1>> => Len(gens) = 1 /\ gens[1] = 1
    OBVIOUS
  <1>3. fsm[n] \in Nat /\ carried[n] \in Nat /\ fsm[n] <= Len(gens) /\ carried[n] <= Len(gens)
    BY Zenon DEF GuardType, GuardTypeOK
  <1> QED BY <1>1, <1>2, <1>3 DEF FirstLife, Committed, Gen, Newest

LEMMA AlarmGuardStep ==
    ASSUME GuardType, FirstLife, NEW n \in Gateway, GuardStep(n)
    PROVE  FirstLife'
  <1>0. probe \in [Gateway -> Probe] /\ blocked \in [Gateway -> BOOLEAN]
    BY Zenon DEF GuardType, GuardTypeOK
  <1>1. CASE ProbeRead(n)
    BY Zenon, <1>0, <1>1 DEF ProbeRead, FirstLife, redis, raft
  <1>2. CASE ProbeDecide(n)
    <2> DEFINE x == [pc |-> IF probe[n].seen = 0 THEN "mint" ELSE "agree",
                     seen |-> probe[n].seen, cand |-> Committed(n) + 1]
    <2>1. probe' = [probe EXCEPT ![n] = x] \/ probe' = [probe EXCEPT ![n] = IdleProbe]
      BY Zenon, <1>2 DEF ProbeDecide
    <2>2. /\ x.seen \in {0, key} /\ x.pc # "idle" /\ (x.pc = "agree" => x.seen = 1)
          /\ (key = 0 => x.cand = 1)
      BY OneGeneration DEF FirstLife
    <2>3. IdleProbe.seen = 0 /\ IdleProbe.pc = "idle"
      BY Zenon DEF IdleProbe
    <2>4. \A m \in Gateway : blocked'[m] => blocked[m] \/ fsm[m] = 1
      BY Zenon, <1>0, <1>2, OneGeneration DEF ProbeDecide
    <2>5. UNCHANGED <<key, meta, gens, fsm, call>>
      BY Zenon, <1>2 DEF ProbeDecide, redis, raft
    <2> HIDE DEF x
    <2>6. \A m \in Gateway : probe'[m] = probe[m] \/ probe'[m] = x \/ probe'[m] = IdleProbe
      BY Zenon, <1>0, <2>1
    <2>7. ASSUME NEW m \in Gateway
          PROVE  /\ probe'[m].seen \in {0, key}
                 /\ probe'[m].pc = "agree" => probe'[m].seen = 1
                 /\ probe'[m].pc = "mint" /\ key = 0 => probe'[m].cand = 1
      BY Zenon, <2>2, <2>3, <2>6 DEF FirstLife
    <2>8. \A m \in Gateway : blocked'[m] => fsm[m] = 1
      BY Zenon, <2>4 DEF FirstLife
    <2> QED BY Zenon, <2>5, <2>7, <2>8 DEF FirstLife
  <1>3. CASE Mint(n)
    <2> DEFINE x == [probe[n] EXCEPT !.pc = "agree", !.seen = 1]
    <2>1. key' = 1 /\ (key = 0 => \A m \in Gateway : probe[m].seen = 0)
      BY Zenon, <1>3 DEF Mint, FirstLife
    <2>2. probe' = [probe EXCEPT ![n] = x]
      BY Zenon, <1>3, <2>1 DEF Mint
    <2>3. x.pc = "agree" /\ x.seen = 1
      BY Zenon, <1>0 DEF Probe
    <2>4. UNCHANGED <<meta, gens, fsm, call, blocked>>
      BY Zenon, <1>3 DEF Mint, raft
    <2> HIDE DEF x
    <2> QED BY Zenon, <1>0, <2>1, <2>2, <2>3, <2>4 DEF FirstLife
  <1>4. CASE Agree(n)
    <2> DEFINE x == [probe[n] EXCEPT !.pc = "await"]
    <2>1. probe' = [probe EXCEPT ![n] = x] \/ probe' = [probe EXCEPT ![n] = IdleProbe]
      BY Zenon, <1>4 DEF Agree
    <2>2. x.pc = "await" /\ x.seen \in {0, key} /\ IdleProbe.seen = 0 /\ IdleProbe.pc = "idle"
      BY Zenon, <1>0 DEF FirstLife, IdleProbe, Probe
    <2>3. probe[n].seen = 1 /\ key = 1
      BY Zenon, <1>4 DEF Agree, FirstLife
    <2>4. gens' = gens \/ gens' = SetStoreGen(1)
      BY Zenon, <1>4, <2>3 DEF Agree
    <2>5. gens' \in {<<>>, <<1>>}
      <3>1. gens = <<>> => Append(gens, 1) = <<1>>
        OBVIOUS
      <3>2. gens = <<1>> => Newest = 1
        BY DEF Newest, Gen
      <3>3. gens = <<1>> => SetStoreGen(1) = gens
        BY <3>2 DEF SetStoreGen
      <3>4. SetStoreGen(1) \in {gens, Append(gens, 1)}
        BY Zenon DEF SetStoreGen
      <3>5. gens = <<>> \/ gens = <<1>>
        BY Zenon DEF FirstLife
      <3> QED BY Zenon, <2>4, <3>1, <3>3, <3>4, <3>5
    <2>6. \A m \in Gateway : blocked'[m] => blocked[m]
      BY Zenon, <1>0, <1>4 DEF Agree
    <2>7. UNCHANGED <<key, meta, fsm, call>>
      BY Zenon, <1>4 DEF Agree, redis
    <2> HIDE DEF x
    <2> QED BY <1>0, <2>1, <2>2, <2>3, <2>5, <2>6, <2>7 DEF FirstLife
  <1>5. CASE Proposed(n)
    BY Zenon, <1>0, <1>5 DEF Proposed, IdleProbe, FirstLife, redis, raft
  <1> QED BY Zenon, <1>1, <1>2, <1>3, <1>4, <1>5 DEF GuardStep

LEMMA AlarmOtherStep ==
    ASSUME GuardType, FirstLife, NEW n \in Gateway,
           \/ RaftStep(n) \/ DecisionStep(n) \/ GatewayRestart(n) \/ Elect(n) \/ ProbeFails(n)
           \/ \E t \in Tenant : CallArrives(n, t)
    PROVE  FirstLife'
  <1>0. /\ probe \in [Gateway -> Probe] /\ call \in [Gateway -> Call]
        /\ blocked \in [Gateway -> BOOLEAN] /\ fsm \in [Gateway -> Nat]
    BY Zenon DEF GuardType, GuardTypeOK
  <1>1. CASE ApplyGen(n)
    <2>1. PICK i \in (fsm[n] + 1)..Len(gens) : fsm' = [fsm EXCEPT ![n] = i]
      BY Zenon, <1>1 DEF ApplyGen
    <2>2. Len(gens) = 0 \/ Len(gens) = 1
      <3>1. gens = <<>> => Len(gens) = 0
        OBVIOUS
      <3>2. gens = <<1>> => Len(gens) = 1
        OBVIOUS
      <3> QED BY Zenon, <3>1, <3>2 DEF FirstLife
    <2>3. i = 1
      <3>1. fsm[n] \in Nat /\ Len(gens) \in Nat
        BY <1>0, <2>2
      <3>2. i \in Nat /\ fsm[n] + 1 <= i /\ i <= Len(gens)
        BY <3>1
      <3>3. \A f, l, j \in Nat : l <= 1 /\ f + 1 <= j /\ j <= l => j = 1
        OBVIOUS
      <3>4. Len(gens) <= 1
        <4> DEFINE l == Len(gens)
        <4>1. l = 0 \/ l = 1
          BY Zenon, <2>2
        <4> HIDE DEF l
        <4>2. l <= 1
          BY <4>1
        <4> QED BY Zenon, <4>2 DEF l
      <3> QED BY Zenon, <3>1, <3>2, <3>3, <3>4
    <2> QED BY Zenon, <1>0, <1>1, <2>1, <2>3 DEF ApplyGen, FirstLife, redis
  <1>2. CASE Publish(n) \/ Elect(n)
    BY <1>2 DEF Publish, Elect, FirstLife, redis
  <1>3. CASE GatewayRestart(n)
    BY <1>0, <1>3 DEF GatewayRestart, FirstLife, IdleProbe, Call, redis
  <1>4. CASE ProbeFails(n)
    BY Zenon, <1>0, <1>4 DEF ProbeFails, FirstLife, IdleProbe, redis, raft
  <1>5. ASSUME NEW t \in Tenant, CallArrives(n, t) PROVE FirstLife'
    BY Zenon, <1>0, <1>5 DEF CallArrives, FirstLife, redis, raft
  <1>6. CASE GuardCheck(n)
    <2>1. \E pc \in {"idle", "carry"} : call' = [call EXCEPT ![n].pc = pc]
      BY Zenon, <1>6 DEF GuardCheck
    <2> QED BY Zenon, <1>0, <1>6, <2>1 DEF GuardCheck, FirstLife, Call, redis, raft
  <1>7. CASE Carry(n)
    <2> DEFINE x == [call[n] EXCEPT !.pc = "script", !.gen = Gen(carried[n])]
    <2>1. x.pc = "script" /\ x.gen \in {0, 1} /\ call' = [call EXCEPT ![n] = x]
      BY Zenon, <1>0, <1>7, OneGeneration DEF Carry, Call
    <2> HIDE DEF x
    <2> QED BY Zenon, <1>0, <1>7, <2>1 DEF Carry, FirstLife, redis, raft
  <1>8. CASE Script(n) \/ ScriptFails(n)
    <2>1. call[n].tenant \in Tenant /\ call[n].gen \in {0, 1}
      BY Zenon, <1>0 DEF Call, FirstLife
    <2>2. ~StoreReset(meta[call[n].tenant], call[n].gen)
      BY <2>1 DEF StoreReset, FirstLife
    <2>3. call' = [call EXCEPT ![n].pc = "idle"]
      BY Zenon, <1>8, <2>2 DEF Script, ScriptFails
    <2>4. \A t \in Tenant : meta'[t] \in {0, 1}
      BY Zenon, <1>8, <2>1 DEF Script, ScriptFails, ScriptRuns, FirstLife, GuardType, GuardTypeOK
    <2>5. UNCHANGED <<key, gens, fsm, probe, blocked>>
      BY Zenon, <1>8 DEF Script, ScriptFails, raft
    <2> QED BY <1>0, <2>3, <2>4, <2>5 DEF FirstLife, Call
  <1>9. CASE Fence(n)
    BY Zenon, <1>9 DEF Fence, FirstLife
  <1> QED BY Zenon, <1>1, <1>2, <1>3, <1>4, <1>5, <1>6, <1>7, <1>8, <1>9 DEF RaftStep, DecisionStep

LEMMA AlarmStep == AlarmInv /\ [GuardNext]_guardVars => AlarmInv'
  <1> SUFFICES ASSUME AlarmInv, [GuardNext]_guardVars, wipes' = 0 PROVE FirstLife'
    BY Zenon, GuardTypeStep DEF AlarmInv
  <1>1. ~WipeStore
    BY DEF AlarmInv, GuardType, GuardTypeOK, WipeStore
  <1>2. wipes = 0
    BY Zenon, <1>1 DEF GuardNext, GuardStep, RaftStep, DecisionStep, ProbeRead, ProbeDecide, Mint, Agree,
                Proposed, ApplyGen, Publish, GuardCheck, Carry, Script, ScriptFails, Fence,
                GatewayRestart, Elect, ProbeFails, CallArrives, guardVars
  <1>3. GuardType /\ FirstLife
    BY Zenon, <1>2 DEF AlarmInv
  <1>4. CASE UNCHANGED guardVars
    BY Zenon, <1>3, <1>4 DEF guardVars, FirstLife
  <1> QED BY Zenon, <1>1, <1>3, <1>4, AlarmGuardStep, AlarmOtherStep DEF GuardNext

(* A store that was never lost latches a node only while it already        *)
(* carries what the node has applied, so the next probe opens it: for any  *)
(* number of nodes racing to name it, restarting and electing leaders.     *)
THEOREM FalseAlarmsPass == GuardSpec => []NoLastingFalseAlarm
  <1>1. GuardInit => AlarmInv
    BY GuardTypeInit DEF GuardInit, AlarmInv, FirstLife, IdleProbe
  <1>2. AlarmInv => NoLastingFalseAlarm
    BY Zenon, OneGeneration DEF AlarmInv, NoLastingFalseAlarm, FirstLife
  <1> QED BY <1>1, <1>2, AlarmStep, PTL DEF GuardSpec

-----------------------------------------------------------------------------
(* When wipes and restarts strike a settled cluster only.  The newest name *)
(* is the last one minted; while the store has none, everybody has applied *)
(* the newest one agreed, and would mint its successor; and whoever is     *)
(* about to agree has read the name in force.                              *)
Ascending(s) == \A i, j \in 1..Len(s) : i < j => s[i] < s[j]
LastMinted == IF minted = <<>> THEN 0 ELSE minted[Len(minted)]

CalmNode(n) ==
    /\ probe[n].seen \in {0, key}
    /\ probe[n].pc = "idle" => probe[n].seen = 0
    /\ probe[n].pc = "agree" => probe[n].seen # 0
    /\ probe[n].pc = "mint" /\ key = 0 => probe[n].cand = Newest + 1
    /\ blocked[n] \/ call[n].gen # 0 \/ call[n].pc = "reset" => gens # <<>>

CalmInv ==
    /\ GuardType
    /\ Ascending(gens) /\ Ascending(minted)
    /\ Newest <= LastMinted /\ (key # 0 => key = LastMinted)
    /\ key = 0 => Newest = LastMinted /\ \A n \in Gateway : fsm[n] = Len(gens)
    /\ \A n \in Gateway : CalmNode(n)

LEMMA CalmFrame ==
    ASSUME CalmInv, GuardType', UNCHANGED <<key, gens, minted>>,
           key = 0 => \A n \in Gateway : fsm'[n] = Len(gens),
           \A n \in Gateway : CalmNode(n)'
    PROVE  CalmInv'
  <1>1. Newest' = Newest /\ LastMinted' = LastMinted
    BY Zenon DEF Newest, Gen, LastMinted
  <1>2. Ascending(gens)' /\ Ascending(minted)'
    BY Zenon DEF CalmInv, Ascending
  <1> QED BY Zenon, <1>1, <1>2 DEF CalmInv

(* A step that is about one probe and leaves the rest alone.               *)
LEMMA CalmProbe ==
    ASSUME CalmInv, GuardType', NEW n \in Gateway, NEW x \in Probe,
           UNCHANGED <<key, gens, minted, fsm, call>>,
           probe' = [probe EXCEPT ![n] = x],
           \A m \in Gateway : blocked'[m] => blocked[m] \/ gens # <<>>,
           x.seen \in {0, key}, x.pc = "idle" => x.seen = 0,
           x.pc = "agree" => x.seen # 0,
           x.pc = "mint" /\ key = 0 => x.cand = Newest + 1
    PROVE  CalmInv'
  <1>1. Newest' = Newest
    BY Zenon DEF Newest, Gen
  <1>2. \A m \in Gateway : probe'[m] = IF m = n THEN x ELSE probe[m]
    BY Zenon DEF CalmInv, GuardType, GuardTypeOK
  <1>3. ASSUME NEW m \in Gateway PROVE CalmNode(m)'
    <2>1. CalmNode(m)
      BY Zenon DEF CalmInv
    <2>2. (blocked[m] \/ call[m].gen # 0 \/ call[m].pc = "reset" => gens # <<>>)'
      BY Zenon, <2>1 DEF CalmNode
    <2>3. CASE m = n
      BY <1>1, <1>2, <2>2, <2>3 DEF CalmNode
    <2>4. CASE m # n
      BY Zenon, <1>1, <1>2, <2>1, <2>2, <2>4 DEF CalmNode
    <2> QED BY Zenon, <2>3, <2>4
  <1> QED BY Zenon, <1>3, CalmFrame DEF CalmInv

LEMMA CalmIdle ==
    ASSUME CalmInv, GuardType', NEW n \in Gateway, UNCHANGED <<key, gens, minted, fsm, call, blocked>>,
           probe' = [probe EXCEPT ![n] = IdleProbe]
    PROVE  CalmInv'
  <1>1. IdleProbe \in Probe /\ IdleProbe.pc = "idle" /\ IdleProbe.seen = 0
    BY Zenon DEF IdleProbe, Probe
  <1> QED BY Zenon, <1>1, CalmProbe

(* No generation agreed is above the newest, nor above the name in force.  *)
LEMMA NoneAboveNewest ==
    ASSUME CalmInv, NEW i \in 1..Len(gens)
    PROVE  gens[i] \in Nat \ {0} /\ gens[i] <= Newest /\ gens # <<>>
  <1>1. gens \in Seq(Nat \ {0}) /\ Len(gens) \in Nat
    BY DEF CalmInv, GuardType, GuardTypeOK
  <1>2. Newest = gens[Len(gens)] /\ gens[i] \in Nat \ {0} /\ gens # <<>> /\ Newest \in Nat \ {0}
    BY <1>1 DEF Newest, Gen
  <1>3. CASE i = Len(gens)
    BY <1>2, <1>3
  <1>4. CASE i # Len(gens)
    <2>1. i < Len(gens) /\ Len(gens) \in 1..Len(gens)
      BY <1>1, <1>4
    <2>2. gens[i] < gens[Len(gens)]
      BY Zenon, <2>1 DEF CalmInv, Ascending
    <2> QED BY <1>2, <2>2
  <1> QED BY Zenon, <1>3, <1>4

LEMMA CommittedAgreed ==
    ASSUME CalmInv, NEW n \in Gateway, Committed(n) # 0
    PROVE  gens # <<>> /\ (Committed(n) = key => key = Newest /\ key > 0)
  <1>1. fsm[n] \in 1..Len(gens) /\ Committed(n) = gens[fsm[n]]
    BY DEF CalmInv, GuardType, GuardTypeOK, Committed, Gen
  <1>2. gens[fsm[n]] \in Nat \ {0} /\ gens[fsm[n]] <= Newest /\ gens # <<>>
    BY Zenon, <1>1, NoneAboveNewest
  <1>3. Newest \in Nat /\ key \in Nat
    BY Zenon, CommittedType DEF CalmInv, GuardType, GuardTypeOK
  <1>4. key # 0 => Newest <= key
    BY Zenon DEF CalmInv
  <1> QED BY <1>1, <1>2, <1>3, <1>4

LEMMA CalmProbeReadDecide ==
    ASSUME CalmInv, GuardType', NEW n \in Gateway, ProbeRead(n) \/ ProbeDecide(n)
    PROVE  CalmInv'
  <1>0. CalmNode(n) /\ probe[n] \in Probe /\ key \in Nat /\ Committed(n) \in Nat
    BY Zenon, CommittedType DEF CalmInv, GuardType, GuardTypeOK
  <1>1. CASE ProbeRead(n)
    <2> DEFINE x == [pc |-> "decide", seen |-> key, cand |-> 0]
    <2>1. x \in Probe /\ x.pc = "decide" /\ x.seen = key
      BY Zenon, <1>0 DEF Probe
    <2>2. probe' = [probe EXCEPT ![n] = x] /\ UNCHANGED <<key, gens, minted, fsm, call, blocked>>
      BY Zenon, <1>1 DEF ProbeRead, redis, raft
    <2> HIDE DEF x
    <2> QED BY Zenon, <2>1, <2>2, CalmProbe
  <1>2. CASE ProbeDecide(n)
    <2> DEFINE x == [pc |-> IF probe[n].seen = 0 THEN "mint" ELSE "agree",
                     seen |-> probe[n].seen, cand |-> Committed(n) + 1]
    <2>1. probe' = [probe EXCEPT ![n] = x] \/ probe' = [probe EXCEPT ![n] = IdleProbe]
      BY Zenon, <1>2 DEF ProbeDecide
    <2>2. UNCHANGED <<key, gens, minted, fsm, call>>
      BY Zenon, <1>2 DEF ProbeDecide, redis, raft
    <2>3. \A m \in Gateway : blocked'[m] => blocked[m] \/ gens # <<>>
      <3>1. Committed(n) # 0 => gens # <<>>
        BY Zenon, CommittedAgreed
      <3>2. blocked' = [blocked EXCEPT ![n] = IF Committed(n) = 0 THEN @
                                              ELSE ~(Committed(n) > 0 /\ probe[n].seen = Committed(n))]
        BY Zenon, <1>2 DEF ProbeDecide
      <3>3. blocked \in [Gateway -> BOOLEAN]
        BY Zenon DEF CalmInv, GuardType, GuardTypeOK
      <3> QED BY Zenon, <3>1, <3>2, <3>3
    <2>4. key = 0 => Committed(n) = Newest
      BY Zenon DEF CalmInv, Committed, Newest
    <2>5. /\ x \in Probe /\ x.seen \in {0, key} /\ x.pc # "idle" /\ (x.pc = "agree" => x.seen # 0)
          /\ (key = 0 => x.cand = Newest + 1)
      <3>1. /\ x.pc = IF probe[n].seen = 0 THEN "mint" ELSE "agree"
            /\ x.seen = probe[n].seen /\ x.cand = Committed(n) + 1
        BY Zenon
      <3>2. probe[n].seen \in {0, key} /\ probe[n].seen \in Nat /\ Committed(n) + 1 \in Nat
        BY <1>0 DEF CalmNode, Probe
      <3>3. x \in Probe
        BY Zenon, <3>2 DEF Probe
      <3> HIDE DEF x
      <3>4. x.pc # "idle" /\ (x.pc = "agree" => x.seen # 0)
        BY Zenon, <3>1
      <3>5. key = 0 => x.cand = Newest + 1
        BY Zenon, <2>4, <3>1
      <3> QED BY Zenon, <3>1, <3>2, <3>3, <3>4, <3>5
    <2>6. IdleProbe \in Probe /\ IdleProbe.pc = "idle" /\ IdleProbe.seen = 0
      BY Zenon DEF IdleProbe, Probe
    <2> HIDE DEF x
    <2> QED BY Zenon, <2>1, <2>2, <2>3, <2>5, <2>6, CalmProbe
  <1> QED BY Zenon, <1>1, <1>2

(* A store without a name is given the successor of the newest agreed,     *)
(* which is the successor of the last one minted.                          *)
LEMMA CalmMint ==
    ASSUME CalmInv, GuardType', NEW n \in Gateway, Mint(n)
    PROVE  CalmInv'
  <1> DEFINE c == probe[n].cand
             with(g) == [probe[n] EXCEPT !.pc = "agree", !.seen = g]
  <1>0. CalmNode(n) /\ probe[n] \in Probe /\ key \in Nat /\ Newest \in Nat
        /\ minted \in Seq(Nat \ {0}) /\ probe \in [Gateway -> Probe]
    BY Zenon, CommittedType DEF CalmInv, GuardType, GuardTypeOK
  <1>1. \A g \in Nat : with(g) \in Probe /\ with(g).pc = "agree" /\ with(g).seen = g
    BY Zenon, <1>0 DEF Probe
  <1>2. CASE key # 0
    <2>1. probe' = [probe EXCEPT ![n] = with(key)]
      BY Zenon, <1>2 DEF Mint
    <2>2. UNCHANGED <<key, gens, minted, fsm, call, blocked>>
      BY Zenon, <1>2 DEF Mint, raft
    <2> HIDE DEF with
    <2> QED BY Zenon, <1>0, <1>1, <1>2, <2>1, <2>2, CalmProbe
  <1>3. CASE key = 0
    <2>1. c = Newest + 1 /\ c \in Nat \ {0} /\ Newest = LastMinted
      BY <1>0, <1>3 DEF Mint, CalmNode, CalmInv
    <2>2. probe' = [probe EXCEPT ![n] = with(c)] /\ key' = c /\ minted' = Append(minted, c)
      BY Zenon, <1>3 DEF Mint
    <2>3. UNCHANGED <<gens, fsm, call, blocked>>
      BY Zenon DEF Mint, raft
    <2>4. Newest' = Newest /\ Ascending(gens)'
      BY Zenon, <2>3 DEF Newest, Gen, CalmInv, Ascending
    <2> HIDE DEF with, c
    <2>5. /\ Len(minted) \in Nat /\ Len(minted') = Len(minted) + 1
          /\ minted'[Len(minted) + 1] = c /\ \A i \in 1..Len(minted) : minted'[i] = minted[i]
          /\ minted' # <<>>
      BY <1>0, <2>1, <2>2
    <2>6. LastMinted' = c
      BY Zenon, <2>5 DEF LastMinted
    <2>7. \A i \in 1..Len(minted) : minted[i] \in Nat /\ minted[i] < c
      <3> SUFFICES ASSUME NEW i \in 1..Len(minted) PROVE minted[i] \in Nat /\ minted[i] < c
        BY Zenon
      <3>1. minted # <<>> /\ Len(minted) \in 1..Len(minted) /\ minted[i] \in Nat
            /\ minted[Len(minted)] \in Nat
        BY <1>0
      <3>2. LastMinted = minted[Len(minted)]
        BY Zenon, <3>1 DEF LastMinted
      <3>3. i = Len(minted) \/ minted[i] < minted[Len(minted)]
        BY <2>5, <3>1 DEF CalmInv, Ascending
      <3> QED BY <1>0, <2>1, <3>1, <3>2, <3>3
    <2>8. Ascending(minted')
      <3> SUFFICES ASSUME NEW i \in 1..Len(minted'), NEW j \in 1..Len(minted'), i < j
                   PROVE  minted'[i] < minted'[j]
        BY Zenon DEF Ascending
      <3>1. i \in 1..Len(minted)
        BY <2>5
      <3>2. CASE j = Len(minted) + 1
        BY Zenon, <2>5, <2>7, <3>1, <3>2
      <3>3. CASE j \in 1..Len(minted)
        BY Zenon, <2>5, <3>1, <3>3 DEF CalmInv, Ascending
      <3> QED BY <2>5, <3>2, <3>3
    <2>9. \A m \in Gateway : CalmNode(m)'
      <3> SUFFICES ASSUME NEW m \in Gateway PROVE CalmNode(m)'
        BY Zenon
      <3>1. CalmNode(m) /\ probe[m].seen = 0
        BY Zenon, <1>3 DEF CalmInv, CalmNode
      <3>2. probe'[m] = IF m = n THEN with(c) ELSE probe[m]
        BY Zenon, <1>0, <2>2
      <3> QED BY <1>1, <1>3, <2>1, <2>2, <2>3, <2>4, <3>1, <3>2 DEF CalmNode
    <2>10. Newest' <= LastMinted' /\ key' = LastMinted' /\ key' # 0
      BY <1>0, <2>1, <2>2, <2>4, <2>6
    <2> QED BY Zenon, <2>4, <2>8, <2>9, <2>10 DEF CalmInv, Ascending
  <1> QED BY Zenon, <1>2, <1>3

(* Whoever agrees has read the name in force, so that is what is proposed. *)
LEMMA CalmAgree ==
    ASSUME CalmInv, GuardType', NEW n \in Gateway, Agree(n)
    PROVE  CalmInv'
  <1> DEFINE x == [probe[n] EXCEPT !.pc = "await"]
  <1>0. /\ CalmNode(n) /\ probe[n] \in Probe /\ key \in Nat /\ Newest \in Nat
        /\ blocked \in [Gateway -> BOOLEAN] /\ probe \in [Gateway -> Probe] /\ GuardType
    BY Zenon, CommittedType DEF CalmInv, GuardType, GuardTypeOK
  <1>1. probe[n].seen = key /\ key # 0 /\ key = LastMinted /\ Newest <= key
    BY Zenon, <1>0 DEF Agree, CalmNode, CalmInv
  <1>2. /\ x \in Probe /\ x.pc = "await" /\ x.seen = key
        /\ IdleProbe \in Probe /\ IdleProbe.pc = "idle" /\ IdleProbe.seen = 0
    BY Zenon, <1>0, <1>1 DEF Probe, IdleProbe
  <1>3. probe' = [probe EXCEPT ![n] = x] \/ probe' = [probe EXCEPT ![n] = IdleProbe]
    BY Zenon DEF Agree
  <1>4. UNCHANGED <<key, minted, fsm, call>> /\ \A m \in Gateway : blocked'[m] => blocked[m]
    BY Zenon, <1>0 DEF Agree, redis
  <1> HIDE DEF x
  <1>5. CASE gens' = gens
    BY Zenon, <1>2, <1>3, <1>4, <1>5, CalmProbe
  <1>6. CASE gens' # gens
    <2>1. gens' = SetStoreGen(key)
      BY Zenon, <1>1, <1>6 DEF Agree
    <2>2. /\ Newest' = key /\ Len(gens) \in Nat /\ Len(gens') = Len(gens) + 1
          /\ gens'[Len(gens) + 1] = key /\ \A i \in 1..Len(gens) : gens'[i] = gens[i]
          /\ key > Newest /\ gens' # <<>>
      BY <1>0, <1>6, <2>1, SetStoreGenType
    <2>3. Ascending(gens')
      <3> SUFFICES ASSUME NEW i \in 1..Len(gens'), NEW j \in 1..Len(gens'), i < j
                   PROVE  gens'[i] < gens'[j]
        BY Zenon DEF Ascending
      <3>1. i \in 1..Len(gens)
        BY <2>2
      <3>2. gens[i] \in Nat /\ gens[i] <= Newest
        BY Zenon, <3>1, NoneAboveNewest
      <3>3. CASE j = Len(gens) + 1
        BY <1>0, <2>2, <3>1, <3>2, <3>3
      <3>4. CASE j \in 1..Len(gens)
        BY Zenon, <2>2, <3>1, <3>4 DEF CalmInv, Ascending
      <3> QED BY <2>2, <3>3, <3>4
    <2>4. LastMinted' = LastMinted /\ Ascending(minted)'
      BY Zenon, <1>4 DEF LastMinted, CalmInv, Ascending
    <2>5. \A m \in Gateway : CalmNode(m)'
      <3> SUFFICES ASSUME NEW m \in Gateway PROVE CalmNode(m)'
        BY Zenon
      <3>1. CalmNode(m) /\ (probe'[m] = probe[m] \/ probe'[m] = x \/ probe'[m] = IdleProbe)
        BY Zenon, <1>0, <1>3 DEF CalmInv
      <3> QED BY Zenon, <1>1, <1>2, <1>4, <2>2, <3>1 DEF CalmNode
    <2>6. Newest' <= LastMinted' /\ key' = LastMinted' /\ key' # 0
      BY <1>0, <1>1, <1>4, <2>2, <2>4
    <2> QED BY Zenon, <2>3, <2>4, <2>5, <2>6 DEF CalmInv, Ascending
  <1> QED BY Zenon, <1>5, <1>6

(* The rest of a probe, the log reaching a node, an election, a restart.   *)
LEMMA CalmRest ==
    ASSUME CalmInv, GuardType', Calm, NEW n \in Gateway,
           Proposed(n) \/ ApplyGen(n) \/ Publish(n) \/ GatewayRestart(n) \/ Elect(n) \/ ProbeFails(n)
    PROVE  CalmInv'
  <1>0. GuardTypeOK /\ Newest \in Nat /\ (Newest = 0 <=> gens = <<>>)
    BY Zenon, CommittedType DEF CalmInv, GuardType
  <1>1. CASE Proposed(n) \/ ProbeFails(n)
    <2>1. /\ probe' = [probe EXCEPT ![n] = IdleProbe]
          /\ UNCHANGED <<key, gens, minted, fsm, call, blocked>>
      BY Zenon, <1>1 DEF Proposed, ProbeFails, redis, raft
    <2> QED BY Zenon, <2>1, CalmIdle
  <1>2. CASE ApplyGen(n) \/ Publish(n) \/ Elect(n)
    <2>1. UNCHANGED <<key, gens, minted, call, blocked, probe>>
      BY Zenon, <1>2 DEF ApplyGen, Publish, Elect, redis
    <2>2. Newest' = Newest
      BY Zenon, <2>1 DEF Newest, Gen
    <2>3. \A m \in Gateway : CalmNode(m)'
      BY Zenon, <2>1, <2>2 DEF CalmInv, CalmNode
    <2>4. ASSUME key = 0, NEW m \in Gateway PROVE fsm'[m] = Len(gens)
      <3>1. fsm[n] = Len(gens) /\ fsm[m] = Len(gens) /\ Len(gens) \in Nat
        BY Zenon, <1>0, <2>4 DEF CalmInv, GuardTypeOK
      <3>2. (fsm[n] + 1)..Len(gens) = {}
        BY <3>1
      <3>3. UNCHANGED fsm
        BY Zenon, <1>2, <3>2 DEF ApplyGen, Publish, Elect
      <3> QED BY Zenon, <3>1, <3>3
    <2> QED BY Zenon, <2>1, <2>3, <2>4, CalmFrame
  <1>3. CASE GatewayRestart(n)
    <2>1. Settled
      BY Zenon, <1>3 DEF GatewayRestart
    <2>2. /\ UNCHANGED <<key, gens, minted>> /\ probe' = [probe EXCEPT ![n] = IdleProbe]
          /\ blocked' = [blocked EXCEPT ![n] = FALSE]
          /\ fsm' = [fsm EXCEPT ![n] = 0]
          /\ call' = [call EXCEPT ![n].pc = "idle"]
      BY Zenon, <1>3 DEF GatewayRestart, redis
    <2>3. Newest' = Newest
      BY Zenon, <2>2 DEF Newest, Gen
    <2>4. ASSUME key = 0, NEW m \in Gateway PROVE fsm'[m] = Len(gens)
      <3>1. Len(gens) = 0 /\ fsm[m] = 0
        BY Zenon, <1>0, <2>1, <2>4 DEF Settled
      <3> QED BY Zenon, <1>0, <2>2, <3>1 DEF GuardTypeOK
    <2>5. ASSUME NEW m \in Gateway PROVE CalmNode(m)'
      <3>1. CalmNode(m) /\ call[m] \in Call
        BY Zenon, <1>0 DEF CalmInv, GuardTypeOK
      <3>2. /\ call'[m].gen = call[m].gen
            /\ call'[m].pc = "reset" => call[m].pc = "reset"
        BY Zenon, <1>0, <2>2, <3>1 DEF GuardTypeOK, Call
      <3>3. (blocked'[m] => blocked[m]) /\ (probe'[m] = probe[m] \/ probe'[m] = IdleProbe)
        BY Zenon, <1>0, <2>2 DEF GuardTypeOK
      <3>4. IdleProbe.pc = "idle" /\ IdleProbe.seen = 0
        BY Zenon DEF IdleProbe
      <3> QED BY Zenon, <2>2, <2>3, <3>1, <3>2, <3>3, <3>4 DEF CalmNode
    <2> QED BY Zenon, <2>2, <2>4, <2>5, CalmFrame
  <1> QED BY Zenon, <1>1, <1>2, <1>3

(* A decision carries a generation only where one was agreed, and only     *)
(* such a decision is refused by the fence.                                *)
LEMMA CalmDecision ==
    ASSUME CalmInv, GuardType', NEW n \in Gateway,
           DecisionStep(n) \/ \E t \in Tenant : CallArrives(n, t)
    PROVE  CalmInv'
  <1>0. GuardTypeOK /\ call[n] \in Call /\ CalmNode(n)
    BY Zenon DEF CalmInv, GuardType, GuardTypeOK
  <1>1. UNCHANGED <<key, gens, minted, fsm, probe>>
    BY Zenon DEF DecisionStep, CallArrives, GuardCheck, Carry, Script, ScriptFails, Fence, redis, raft
  <1>2. Newest' = Newest
    BY Zenon, <1>1 DEF Newest, Gen
  <1>3. \A m \in Gateway \ {n} : call'[m] = call[m] /\ blocked'[m] = blocked[m]
    BY Zenon, <1>0 DEF GuardTypeOK, DecisionStep, CallArrives, GuardCheck, Carry, Script, ScriptFails, Fence
  <1>4. blocked'[n] \/ call'[n].gen # 0 \/ call'[n].pc = "reset" => gens # <<>>
    <2>1. CASE \E t \in Tenant : CallArrives(n, t)
      <3>1. call'[n].pc = "guard" /\ call'[n].gen = 0 /\ blocked'[n] = blocked[n]
        BY <1>0, <2>1 DEF CallArrives, GuardTypeOK
      <3> QED BY Zenon, <1>0, <3>1 DEF CalmNode
    <2>2. CASE GuardCheck(n)
      <3>1. call'[n].pc # "reset" /\ call'[n].gen = call[n].gen /\ blocked'[n] = blocked[n]
        BY Zenon, <1>0, <2>2 DEF GuardCheck, GuardTypeOK, Call
      <3> QED BY Zenon, <1>0, <3>1 DEF CalmNode
    <2>3. CASE Carry(n)
      <3>1. call'[n].pc = "script" /\ call'[n].gen = Gen(carried[n]) /\ blocked'[n] = blocked[n]
        BY Zenon, <1>0, <2>3 DEF Carry, GuardTypeOK, Call
      <3>2. carried[n] \in 0..Len(gens) /\ GuardType
        <4>1. GuardType
          BY Zenon DEF CalmInv
        <4>2. carried[n] \in 0..Len(gens)
          BY <4>1 DEF GuardType, GuardTypeOK
        <4> QED BY Zenon, <4>1, <4>2
      <3>3. Gen(carried[n]) # 0 => carried[n] # 0
        BY Zenon, <3>2, GenType
      <3>4. carried[n] # 0 => gens # <<>>
        BY <1>0, <3>2 DEF GuardTypeOK
      <3> QED BY Zenon, <1>0, <3>1, <3>3, <3>4 DEF CalmNode
    <2>4. CASE Script(n)
      <3>1. /\ call'[n].gen = call[n].gen /\ blocked'[n] = blocked[n]
            /\ call'[n].pc = "reset" => call[n].gen # 0
        BY <1>0, <2>4 DEF Script, GuardTypeOK, Call, StoreReset
      <3> QED BY Zenon, <1>0, <3>1 DEF CalmNode
    <2>5. CASE ScriptFails(n)
      <3>1. call'[n].pc = "idle" /\ call'[n].gen = call[n].gen /\ blocked'[n] = blocked[n]
        BY Zenon, <1>0, <2>5 DEF ScriptFails, GuardTypeOK, Call
      <3> QED BY Zenon, <1>0, <3>1 DEF CalmNode
    <2>6. CASE Fence(n)
      BY Zenon, <1>0, <2>6 DEF Fence, CalmNode
    <2> QED BY Zenon, <2>1, <2>2, <2>3, <2>4, <2>5, <2>6 DEF DecisionStep
  <1>5. ASSUME NEW m \in Gateway PROVE CalmNode(m)'
    <2>1. CalmNode(m)
      BY Zenon DEF CalmInv
    <2>2. blocked'[m] \/ call'[m].gen # 0 \/ call'[m].pc = "reset" => gens # <<>>
      <3>1. CASE m = n
        BY <1>4, <3>1, Zenon
      <3>2. CASE m # n
        <4>1. blocked'[m] = blocked[m] /\ call'[m] = call[m]
          BY Zenon, <1>3, <3>2
        <4>2. blocked[m] \/ call[m].gen # 0 \/ call[m].pc = "reset" => gens # <<>>
          BY <2>1, Zenon DEF CalmNode
        <4>3. CASE gens # <<>>
          BY <4>3, Zenon
        <4>4. CASE gens = <<>>
          <5>1. ~blocked[m] /\ call[m].gen = 0 /\ call[m].pc # "reset"
            BY <4>2, <4>4, Zenon
          <5> QED BY <4>1, <5>1, Zenon
        <4> QED BY <4>3, <4>4, Zenon
      <3> QED BY Zenon, <3>1, <3>2
    <2> QED BY Zenon, <1>1, <1>2, <2>1, <2>2 DEF CalmNode
  <1> QED BY Zenon, <1>1, <1>5, CalmFrame DEF CalmInv

(* A wipe of a settled cluster takes away the name all of it had agreed.   *)
LEMMA CalmWipe ==
    ASSUME CalmInv, GuardType', Calm, WipeStore
    PROVE  CalmInv'
  <1>1. /\ Settled /\ key' = 0
        /\ UNCHANGED <<gens, minted, fsm, blocked, probe, call>>
    BY Zenon DEF WipeStore, raft
  <1>2. Newest' = Newest /\ LastMinted' = LastMinted /\ Newest \in Nat
    BY Zenon, <1>1, CommittedType DEF Newest, Gen, LastMinted, CalmInv
  <1>3. Newest = LastMinted /\ \A n \in Gateway : fsm[n] = Len(gens)
    BY Zenon, <1>1 DEF Settled, CalmInv
  <1>4. \A n \in Gateway : CalmNode(n)'
    BY Zenon, <1>1, <1>2 DEF Settled, CalmInv, CalmNode
  <1>5. Ascending(gens)' /\ Ascending(minted)'
    BY Zenon, <1>1 DEF CalmInv, Ascending
  <1> QED BY Zenon, <1>1, <1>2, <1>3, <1>4, <1>5 DEF CalmInv

LEMMA CalmInit == GuardInit => CalmInv
  <1> SUFFICES ASSUME GuardInit PROVE CalmInv
    BY Zenon
  <1>1. GuardType
    BY Zenon, GuardTypeInit
  <1>2. /\ gens = <<>> /\ minted = <<>> /\ Len(gens) = 0 /\ Len(minted) = 0 /\ key = 0
        /\ Newest = 0 /\ LastMinted = 0
    BY Zenon DEF GuardInit, Newest, Gen, LastMinted
  <1>3. ASSUME NEW n \in Gateway PROVE fsm[n] = Len(gens) /\ CalmNode(n)
    <2>1. probe[n].pc = "idle" /\ probe[n].seen = 0 /\ fsm[n] = 0
      BY Zenon DEF GuardInit, IdleProbe
    <2>2. call[n].pc = "idle" /\ call[n].gen = 0
      <3>1. call[n] \in {[pc |-> "idle", tenant |-> t, gen |-> 0] : t \in Tenant}
        BY Zenon DEF GuardInit
      <3> QED BY <3>1
    <2>3. ~blocked[n]
      BY Zenon DEF GuardInit
    <2> QED BY Zenon, <1>2, <2>1, <2>2, <2>3 DEF CalmNode
  <1> QED BY <1>1, <1>2, <1>3 DEF CalmInv, Ascending

LEMMA CalmStep == ASSUME Calm PROVE CalmInv /\ [GuardNext]_guardVars => CalmInv'
  <1> SUFFICES ASSUME CalmInv, [GuardNext]_guardVars PROVE CalmInv'
    BY Zenon
  <1>1. GuardType'
    BY Zenon, GuardTypeStep DEF CalmInv
  <1>2. CASE UNCHANGED guardVars
    <2>1. \A n \in Gateway : CalmNode(n)'
      BY Zenon, <1>2 DEF guardVars, CalmInv, CalmNode, Newest, Gen
    <2> QED BY Zenon, <1>1, <1>2, <2>1, CalmFrame DEF guardVars, CalmInv
  <1> QED BY Zenon, <1>1, <1>2, CalmProbeReadDecide, CalmMint, CalmAgree, CalmRest, CalmDecision,
             CalmWipe DEF GuardNext, GuardStep, RaftStep

(* When wipes and restarts strike only a settled cluster, the names that   *)
(* storegen.lua installs ascend: a store that lost its name is given the   *)
(* successor of the newest agreed, and no probe that looked before the     *)
(* wipe can bring an older one back.                                       *)
THEOREM MintsOutrank == ASSUME Calm PROVE GuardSpec => []MintsAscend
  <1>1. CalmInv => MintsAscend
    BY Zenon DEF CalmInv, Ascending, MintsAscend
  <1> QED BY <1>1, CalmInit, CalmStep, PTL DEF GuardSpec

LEMMA OpeningStep ==
    ASSUME CalmInv, Calm, [GuardNext]_guardVars, NEW n \in Gateway, blocked[n], ~blocked'[n]
    PROVE  key > 0 /\ key = Newest
  <1>0. /\ CalmNode(n) /\ key \in Nat /\ blocked \in [Gateway -> BOOLEAN] /\ Newest \in Nat
        /\ Committed(n) \in Nat /\ (Newest = 0 <=> gens = <<>>)
    BY Zenon, CommittedType DEF CalmInv, GuardType, GuardTypeOK
  <1>1. PICK m \in Gateway : ProbeDecide(m) \/ Agree(m) \/ GatewayRestart(m) \/ Fence(m)
    BY Zenon DEF GuardNext, GuardStep, RaftStep, DecisionStep, ProbeRead, Mint, Proposed, ApplyGen, Publish,
           GuardCheck, Carry, Script, ScriptFails, Elect, ProbeFails, CallArrives, WipeStore, guardVars
  <1>2. CASE ProbeDecide(m)
    <2>1. m = n
      BY Zenon, <1>0, <1>2 DEF ProbeDecide
    <2>2. Committed(n) # 0 /\ probe[n].seen = Committed(n)
      BY Zenon, <1>0, <1>2, <2>1 DEF ProbeDecide
    <2> QED BY Zenon, <1>0, <2>2, CommittedAgreed DEF CalmNode
  <1>3. CASE Agree(m)
    <2>1. m = n /\ probe[n].seen = Committed(n) /\ probe[n].pc = "agree"
      BY Zenon, <1>0, <1>3 DEF Agree
    <2> QED BY Zenon, <1>0, <2>1, CommittedAgreed DEF CalmNode
  <1>4. CASE GatewayRestart(m)
    <2>1. key = Newest
      BY Zenon, <1>4 DEF GatewayRestart, Settled
    <2>2. gens # <<>>
      BY Zenon, <1>0 DEF CalmNode
    <2> QED BY <1>0, <2>1, <2>2
  <1>5. CASE Fence(m)
    BY Zenon, <1>0, <1>5 DEF Fence
  <1> QED BY Zenon, <1>1, <1>2, <1>3, <1>4, <1>5

(* Under the same condition a latched node opens, by its probe, by what it *)
(* proposed or by a restart, only while the store carries the newest       *)
(* generation the cluster agreed on.                                       *)
THEOREM OpensOnlyOnAgreement == ASSUME Calm PROVE GuardSpec => OpensOnAgreement
  <1>1. CalmInv /\ [GuardNext]_guardVars =>
          [\A n \in Gateway : blocked[n] /\ ~blocked'[n] => key > 0 /\ key = Newest]_guardVars
    BY Zenon, OpeningStep
  <1> QED BY <1>1, CalmInit, CalmStep, PTL DEF GuardSpec, OpensOnAgreement

(* The policy store.                                                       *)

LimitRow == [policy : Policy, name : Storable]
PutState == [pc : PutPcs, policy : Policy \cup {NoRow}, body : Body \cup {NoRow},
             deleted : SUBSET LimitRow, done : Nat]

StoreType ==
    /\ policies \in [Policy -> Modes \cup {NoRow}]
    /\ limits \in SUBSET LimitRow
    /\ lock \in [Policy -> Admin \cup {NoRow}]
    /\ put \in [Admin -> PutState]
    /\ last \in [Policy -> Body \cup {NoRow}]

InTransaction == {"clear", "insert", "commit"}

(* What a PUT under way may rely on: it holds its policy's row, so what it *)
(* saw of the limits is still what is committed.                           *)
Sound(a) ==
    LET h == put[a] IN
    /\ h.pc # "idle" => h.policy \in Policy /\ h.body \in Body /\ Validate(h.body)
    /\ h.pc \in InTransaction => h.body.mode \in Modes /\ lock[h.policy] = a
    /\ h.pc \in {"idle", "upsert", "clear"} => h.done = 0
    /\ h.pc \in {"insert", "commit"} =>
          h.deleted = RowsOf(h.policy) /\ \A i \in 1..h.done : h.body.limits[i] \in Storable
    /\ h.pc = "insert" => h.done < Len(h.body.limits)
    /\ h.pc = "commit" => h.done = Len(h.body.limits)

PutInv ==
    /\ StoreType
    /\ \A p \in Policy : last[p] # NoRow => last[p].limits # <<>>
    /\ \A a \in Admin : Sound(a)
    /\ OneRecord

-----------------------------------------------------------------------------
LEMMA PutStarts == Init => PutInv
  <1> SUFFICES ASSUME Init PROVE PutInv
    BY Zenon
  <1>1. StoreType
    BY StoreAssumption DEF Init, StoreType, LimitRow, PutState, PutPcs, NoPut, Row, Modes
  <1>2. \A a \in Admin : Sound(a)
    BY Zenon DEF Init, Sound, NoPut, InTransaction
  <1>3. OneRecord
    <2> SUFFICES ASSUME NEW p \in Policy
                 PROVE  IF last[p] = NoRow THEN policies[p] = NoRow /\ RowsOf(p) = {}
                        ELSE Stored(p) = [mode |-> last[p].mode, limits |-> Range(last[p].limits)]
      BY Zenon DEF OneRecord
    <2>1. CASE p # Demo.policy
      BY <2>1, StoreAssumption DEF Init, RowsOf, Row
    <2>2. CASE p = Demo.policy
      <3>1. last[p] = Demo.body /\ last[p] # NoRow /\ policies[p] = Demo.body.mode
        BY Zenon, <2>2, StoreAssumption DEF Init
      <3>2. RowsOf(p) = {Row(p, n) : n \in Range(Demo.body.limits)}
        BY <2>2 DEF Init, RowsOf, Row
      <3>3. {r.name : r \in RowsOf(p)} = Range(Demo.body.limits)
        <4>1. \A n : Row(p, n).name = n
          BY Zenon DEF Row
        <4>2. \A r \in RowsOf(p) : r.name \in Range(Demo.body.limits)
          BY Zenon, <3>2, <4>1
        <4>3. \A n \in Range(Demo.body.limits) : \E r \in RowsOf(p) : r.name = n
          BY Zenon, <3>2, <4>1
        <4> QED BY Zenon, <4>2, <4>3
      <3> QED BY Zenon, <3>1, <3>3 DEF Stored
    <2> QED BY Zenon, <2>1, <2>2
  <1>4. \A p \in Policy : last[p] # NoRow => last[p].limits # <<>>
    BY Zenon, StoreAssumption DEF Init
  <1> QED BY Zenon, <1>1, <1>2, <1>3, <1>4 DEF PutInv

(* Nothing of the invariant is about the tenants, the keys or the replica. *)
LEMMA PutUntouched ==
    ASSUME PutInv, UNCHANGED <<policies, limits, lock, put, last>>
    PROVE  PutInv'
  <1>1. \A p : RowsOf(p)' = RowsOf(p)
    BY Zenon DEF RowsOf
  <1>2. \A a \in Admin : Sound(a)'
    BY Zenon, <1>1 DEF PutInv, Sound
  <1>3. OneRecord'
    BY Zenon, <1>1 DEF PutInv, OneRecord, Stored
  <1> QED BY Zenon, <1>2, <1>3 DEF PutInv, StoreType

(* A step of a's transaction that leaves the tables alone, and no lock but *)
(* its own.                                                                *)
LEMMA PutApart ==
    ASSUME PutInv, NEW a \in Admin, UNCHANGED <<policies, limits, last>>,
           NEW h \in PutState, put' = [put EXCEPT ![a] = h],
           lock' \in [Policy -> Admin \cup {NoRow}],
           \A p \in Policy : lock[p] # NoRow /\ lock[p] # a => lock'[p] = lock[p],
           Sound(a)'
    PROVE  PutInv'
  <1>1. \A p : RowsOf(p)' = RowsOf(p)
    BY Zenon DEF RowsOf
  <1>2. StoreType'
    BY Zenon DEF PutInv, StoreType
  <1>3. \A b \in Admin : Sound(b)'
    <2> SUFFICES ASSUME NEW b \in Admin, b # a PROVE Sound(b)'
      BY Zenon
    <2>1. put'[b] = put[b] /\ Sound(b)
      BY Zenon DEF PutInv, StoreType
    <2>2. put[b].pc \in InTransaction => lock'[put[b].policy] = b
      BY Zenon, <2>1, StoreAssumption DEF Sound, InTransaction
    <2> QED BY Zenon, <1>1, <2>1, <2>2, SMTT(20), ZenonT(40) DEF Sound
  <1>4. OneRecord'
    BY Zenon, <1>1 DEF PutInv, OneRecord, Stored
  <1> QED BY Zenon, <1>2, <1>3, <1>4 DEF PutInv

LEMMA ReleaseFrees ==
    ASSUME StoreType, NEW a \in Admin, Release(a)
    PROVE  /\ lock' \in [Policy -> Admin \cup {NoRow}]
           /\ \A p \in Policy : lock[p] # a => lock'[p] = lock[p]
  BY Zenon DEF StoreType, Release

LEMMA RollBackKeeps ==
    ASSUME PutInv, NEW a \in Admin, RollBack(a)
    PROVE  PutInv'
  <1>1. NoPut \in PutState
    BY Zenon DEF NoPut, PutState, PutPcs
  <1>2. put' = [put EXCEPT ![a] = NoPut] /\ Release(a) /\ UNCHANGED <<policies, limits, last>>
    BY Zenon DEF RollBack, store
  <1>3. put'[a] = NoPut
    BY Zenon, <1>2 DEF PutInv, StoreType
  <1>4. Sound(a)'
    BY <1>3 DEF Sound, NoPut, InTransaction
  <1> QED BY Zenon, <1>1, <1>2, <1>4, ReleaseFrees, PutApart DEF PutInv

LEMMA PutPolicyKeeps ==
    ASSUME PutInv, NEW a \in Admin, NEW p \in Policy, NEW b \in Body, PutPolicy(a, p, b)
    PROVE  PutInv'
  <1>1. CASE ~Validate(b)
    BY Zenon, <1>1, PutUntouched DEF PutPolicy, store
  <1>2. CASE Validate(b)
    <2> DEFINE h == [put[a] EXCEPT !.pc = "upsert", !.policy = p, !.body = b]
    <2>1. put[a] \in PutState /\ Sound(a) /\ put[a].pc = "idle"
      BY Zenon DEF PutInv, StoreType, PutPolicy
    <2>2. /\ h \in PutState /\ h.pc = "upsert" /\ h.policy = p /\ h.body = b
          /\ h.done = put[a].done
      BY Zenon, <2>1 DEF PutState, PutPcs
    <2>3. put' = [put EXCEPT ![a] = h] /\ UNCHANGED <<policies, limits, last, lock>>
      BY Zenon, <1>2 DEF PutPolicy, store
    <2> HIDE DEF h
    <2>4. put'[a] = h
      BY Zenon, <2>3 DEF PutInv, StoreType
    <2>5. Sound(a)'
      BY Zenon, <2>1, <2>2, <2>4, <1>2 DEF Sound, InTransaction
    <2>6. lock' \in [Policy -> Admin \cup {NoRow}]
      BY Zenon, <2>3 DEF PutInv, StoreType
    <2> QED BY Zenon, <2>2, <2>3, <2>5, <2>6, PutApart
  <1> QED BY Zenon, <1>1, <1>2

LEMMA UpsertKeeps ==
    ASSUME PutInv, NEW a \in Admin, UpsertRow(a)
    PROVE  PutInv'
  <1>1. CASE RollBack(a)
    BY Zenon, <1>1, RollBackKeeps
  <1>2. CASE ~RollBack(a)
    <2> DEFINE h == [put[a] EXCEPT !.pc = "clear"]
    <2>1. /\ put[a] \in PutState /\ Sound(a) /\ put[a].pc = "upsert"
          /\ put[a].policy \in Policy
      BY Zenon DEF PutInv, StoreType, UpsertRow, Sound
    <2>2. /\ h \in PutState /\ h.pc = "clear" /\ h.policy = put[a].policy
          /\ h.body = put[a].body /\ h.done = put[a].done
      BY Zenon, <2>1 DEF PutState, PutPcs
    <2>3. /\ put' = [put EXCEPT ![a] = h] /\ UNCHANGED <<policies, limits, last>>
          /\ put[a].body.mode \in Modes /\ lock[put[a].policy] = NoRow
          /\ lock' = [lock EXCEPT ![put[a].policy] = a]
      BY Zenon, <1>2 DEF UpsertRow, store
    <2> HIDE DEF h
    <2>4. put'[a] = h
      BY Zenon, <2>3 DEF PutInv, StoreType
    <2>5. /\ lock' \in [Policy -> Admin \cup {NoRow}] /\ lock'[put[a].policy] = a
          /\ \A p \in Policy : lock[p] # NoRow => lock'[p] = lock[p]
      BY Zenon, <2>1, <2>3 DEF PutInv, StoreType
    <2>6. Sound(a)'
      BY Zenon, <2>1, <2>2, <2>3, <2>4, <2>5 DEF Sound, InTransaction
    <2> QED BY Zenon, <2>2, <2>3, <2>5, <2>6, PutApart
  <1> QED BY Zenon, <1>1, <1>2

LEMMA BodySequence ==
    ASSUME NEW b \in Body
    PROVE  /\ b.limits \in Seq(Range(b.limits)) /\ Len(b.limits) \in Nat
           /\ DOMAIN b.limits = 1..Len(b.limits)
           /\ b.limits # <<>> => Len(b.limits) > 0
  <1> DEFINE l == b.limits
  <1>1. l \in Seq(Range(l))
    BY Zenon, StoreAssumption
  <1> HIDE DEF l
  <1>2. Len(l) \in Nat /\ DOMAIN l = 1..Len(l) /\ (l # <<>> => Len(l) > 0)
    BY <1>1
  <1> QED BY Zenon, <1>1, <1>2 DEF l

LEMMA ClearKeeps ==
    ASSUME PutInv, NEW a \in Admin, ClearLimits(a)
    PROVE  PutInv'
  <1> DEFINE g == put[a]
             h == [g EXCEPT !.pc = "insert", !.deleted = RowsOf(g.policy)]
  <1>1. /\ g \in PutState /\ Sound(a) /\ g.pc = "clear"
        /\ g.policy \in Policy /\ g.body \in Body /\ g.body.limits # <<>>
        /\ RowsOf(g.policy) \in SUBSET LimitRow /\ g.done = 0
    BY Zenon DEF PutInv, StoreType, ClearLimits, Sound, Validate, RowsOf
  <1>2. /\ h \in PutState /\ h.pc = "insert" /\ h.policy = g.policy /\ h.body = g.body
        /\ h.done = g.done /\ h.deleted = RowsOf(g.policy)
    BY Zenon, <1>1 DEF PutState, PutPcs
  <1>3. put' = [put EXCEPT ![a] = h] /\ UNCHANGED <<policies, limits, last, lock>>
    BY Zenon, <1>1 DEF ClearLimits, store
  <1> HIDE DEF h
  <1>4. put'[a] = h
    BY Zenon, <1>3 DEF PutInv, StoreType
  <1>5. h.done < Len(h.body.limits) /\ \A i \in 1..h.done : h.body.limits[i] \in Storable
    BY <1>1, <1>2, BodySequence
  <1>6. h.deleted = {r \in limits' : r.policy = h.policy}
    BY Zenon, <1>2, <1>3 DEF RowsOf
  <1>7. Sound(a)'
    <2>1. /\ h.policy \in Policy /\ h.body \in Body /\ Validate(h.body)
          /\ h.body.mode \in Modes /\ lock'[h.policy] = a
      BY Zenon, <1>1, <1>2, <1>3 DEF Sound, InTransaction
    <2> QED BY Zenon, <1>2, <1>4, <1>5, <1>6, <2>1 DEF Sound, RowsOf
  <1>8. lock' \in [Policy -> Admin \cup {NoRow}]
    BY Zenon, <1>3 DEF PutInv, StoreType
  <1> QED BY Zenon, <1>2, <1>3, <1>7, <1>8, PutApart

LEMMA InsertKeeps ==
    ASSUME PutInv, NEW a \in Admin, InsertLimit(a)
    PROVE  PutInv'
  <1>1. CASE RollBack(a)
    BY Zenon, <1>1, RollBackKeeps
  <1>2. CASE ~RollBack(a)
    <2> DEFINE g == put[a]
               k == g.done
               l == g.body.limits
               pc == IF k + 1 = Len(l) THEN "commit" ELSE "insert"
               h == [g EXCEPT !.done = k + 1, !.pc = pc]
    <2>1. /\ g \in PutState /\ Sound(a) /\ g.pc = "insert" /\ g.policy \in Policy
          /\ g.body \in Body /\ k < Len(l) /\ (\A i \in 1..k : l[i] \in Storable)
          /\ g.deleted = RowsOf(g.policy)
      BY Zenon DEF PutInv, StoreType, InsertLimit, Sound
    <2>2. put' = [put EXCEPT ![a] = h] /\ l[k + 1] \in Storable
          /\ UNCHANGED <<policies, limits, last, lock>>
      BY Zenon, <1>2 DEF InsertLimit, store
    <2>3. Len(l) \in Nat /\ k \in Nat
      BY Zenon, <2>1, BodySequence DEF PutState
    <2>4. /\ pc \in {"insert", "commit"}
          /\ pc = "insert" => k + 1 < Len(l)
          /\ pc = "commit" => k + 1 = Len(l)
          /\ k + 1 \in Nat
          /\ \A i \in 1..(k + 1) : l[i] \in Storable
      <3>1. k \in Nat /\ Len(l) \in Nat /\ k < Len(l) /\ l[k + 1] \in Storable
            /\ (\A i \in 1..k : l[i] \in Storable)
        BY Zenon, <2>1, <2>2, <2>3
      <3> HIDE DEF k, l
      <3> QED BY <3>1
    <2>5. /\ h \in PutState /\ h.pc = pc /\ h.policy = g.policy /\ h.body = g.body
          /\ h.done = k + 1 /\ h.deleted = g.deleted
      <3>1. pc \in PutPcs
        BY Zenon, <2>4 DEF PutPcs
      <3> HIDE DEF pc
      <3> QED BY Zenon, <2>1, <2>4, <3>1 DEF PutState
    <2>6. put'[a] = h
      BY Zenon, <2>2 DEF PutInv, StoreType
    <2> HIDE DEF h, pc
    <2>7. h.deleted = {r \in limits' : r.policy = h.policy}
      BY Zenon, <2>1, <2>2, <2>5 DEF RowsOf
    <2>8. /\ Validate(h.body) /\ h.body.mode \in Modes /\ lock'[h.policy] = a
      BY Zenon, <2>1, <2>2, <2>5 DEF Sound, InTransaction
    <2>9. Sound(a)'
      BY Zenon, <2>1, <2>4, <2>5, <2>6, <2>7, <2>8 DEF Sound, RowsOf
    <2>10. lock' \in [Policy -> Admin \cup {NoRow}]
      BY Zenon, <2>2 DEF PutInv, StoreType
    <2> QED BY Zenon, <2>2, <2>5, <2>9, <2>10, PutApart
  <1> QED BY Zenon, <1>1, <1>2

(* COMMIT replaces what the transaction saw with the whole body, and since *)
(* it held the row, what it saw is what was there.                         *)
LEMMA CommitKeeps ==
    ASSUME PutInv, NEW a \in Admin, Commit(a)
    PROVE  PutInv'
  <1> DEFINE h == put[a]
             l == h.body.limits
             new == Inserted(h)
  <1>q. PICK q \in Policy : q = h.policy
    BY Zenon DEF PutInv, Commit, Sound
  <1>1. /\ h \in PutState /\ h.pc = "commit" /\ h.body \in Body
        /\ l # <<>> /\ h.body.mode \in Modes /\ lock[q] = a
        /\ h.deleted = RowsOf(q) /\ h.done = Len(l)
        /\ \A i \in 1..h.done : l[i] \in Storable
    BY Zenon, <1>q DEF PutInv, StoreType, Commit, Sound, Validate, InTransaction
  <1>2. /\ policies' = [policies EXCEPT ![q] = h.body.mode]
        /\ limits' = (limits \ h.deleted) \cup new
        /\ last' = [last EXCEPT ![q] = h.body]
        /\ put' = [put EXCEPT ![a] = NoPut]
        /\ Release(a)
    BY Zenon, <1>q DEF Commit
  <1>3. Len(l) \in Nat /\ DOMAIN l = 1..Len(l)
    BY Zenon, <1>1, BodySequence
  <1>4. new = {Row(q, l[i]) : i \in DOMAIN l}
    BY Zenon, <1>q, <1>1, <1>3 DEF Inserted
  <1>r. \A r \in new : r.policy = q /\ r \in LimitRow
    <2>1. \A i \in DOMAIN l : Row(q, l[i]).policy = q /\ Row(q, l[i]) \in LimitRow
      BY Zenon, <1>1, <1>3 DEF Row, LimitRow
    <2> QED BY Zenon, <1>4, <2>1
  <1>d. h.deleted = RowsOf(q) /\ limits' = (limits \ h.deleted) \cup new
    BY Zenon, <1>1, <1>2
  <1> HIDE DEF new
  <1>5. \A p : p # q => RowsOf(p)' = RowsOf(p)
    BY Zenon, <1>r, <1>d DEF RowsOf
  <1>6. RowsOf(q)' = new
    BY Zenon, <1>r, <1>d DEF RowsOf
  <1>7. StoreType'
    <2>1. NoPut \in PutState
      BY Zenon DEF NoPut, PutState, PutPcs
    <2>2. limits' \in SUBSET LimitRow
      BY Zenon, <1>d, <1>r DEF PutInv, StoreType
    <2>3. lock' \in [Policy -> Admin \cup {NoRow}]
      BY Zenon, <1>2, ReleaseFrees DEF PutInv
    <2> QED BY Zenon, <1>1, <1>2, <2>1, <2>2, <2>3 DEF PutInv, StoreType
  <1>8. \A b \in Admin : Sound(b)'
    <2> SUFFICES ASSUME NEW b \in Admin PROVE Sound(b)'
      BY Zenon
    <2>1. CASE b = a
      BY Zenon, <1>2, <2>1 DEF PutInv, StoreType, Sound, NoPut, InTransaction
    <2>2. CASE b # a
      <3>1. put'[b] = put[b] /\ Sound(b)
        BY Zenon, <1>2, <2>2 DEF PutInv, StoreType
      <3>2. put[b].pc \in InTransaction =>
                lock'[put[b].policy] = b /\ put[b].policy # q
        BY Zenon, <1>1, <1>2, <2>2, <3>1, ReleaseFrees DEF PutInv, Sound, InTransaction
      <3> QED BY Zenon, <1>5, <3>1, <3>2, SMTT(20), ZenonT(40) DEF Sound, InTransaction
    <2> QED BY Zenon, <2>1, <2>2
  <1>9. OneRecord'
    <2>1. {r.name : r \in new} = Range(l)
      <3>1. \A n : Row(q, n).name = n
        BY Zenon DEF Row
      <3>2. \A r \in new : r.name \in Range(l)
        BY Zenon, <1>4, <3>1 DEF Range
      <3>3. \A n \in Range(l) : \E r \in new : r.name = n
        BY Zenon, <1>4, <3>1 DEF Range
      <3> QED BY Zenon, <3>2, <3>3
    <2>2. Stored(q)' = [mode |-> h.body.mode, limits |-> Range(l)]
      BY Zenon, <1>1, <1>2, <1>6, <2>1 DEF Stored, PutInv, StoreType
    <2>3. last'[q] = h.body /\ h.body # NoRow
      BY Zenon, <1>1, <1>2, StoreAssumption DEF PutInv, StoreType
    <2>4. \A p \in Policy : p # q => last'[p] = last[p] /\ policies'[p] = policies[p]
      BY Zenon, <1>2 DEF PutInv, StoreType
    <2>5. \A p \in Policy : p # q => Stored(p)' = Stored(p)
      BY Zenon, <1>5, <2>4 DEF Stored
    <2> SUFFICES ASSUME NEW p \in Policy
                 PROVE  IF last'[p] = NoRow THEN policies'[p] = NoRow /\ RowsOf(p)' = {}
                        ELSE Stored(p)' = [mode |-> last'[p].mode,
                                           limits |-> Range(last'[p].limits)]
      BY Zenon DEF OneRecord
    <2>6. CASE p = q
      BY Zenon, <2>2, <2>3, <2>6
    <2>7. CASE p # q
      BY Zenon, <1>5, <2>4, <2>5, <2>7 DEF PutInv, OneRecord
    <2> QED BY Zenon, <2>6, <2>7
  <1>10. \A p \in Policy : last'[p] # NoRow => last'[p].limits # <<>>
    BY Zenon, <1>1, <1>2 DEF PutInv, StoreType
  <1> QED BY Zenon, <1>7, <1>8, <1>9, <1>10 DEF PutInv

LEMMA PutInvStep == PutInv /\ [Next]_vars => PutInv'
  <1> SUFFICES ASSUME PutInv, [Next]_vars PROVE PutInv'
    BY Zenon
  <1>1. ASSUME NEW a \in Admin, PutStep(a) \/ Abort(a) PROVE PutInv'
    BY Zenon, <1>1, UpsertKeeps, ClearKeeps, InsertKeeps, CommitKeeps, RollBackKeeps
       DEF PutStep, Abort
  <1>2. ASSUME NEW a \in Admin, NEW p \in Policy, NEW b \in Body, PutPolicy(a, p, b)
        PROVE  PutInv'
    BY Zenon, <1>2, PutPolicyKeeps
  <1>3. CASE \/ \E t \in TenantId, p \in Policy, d \in BOOLEAN : UpsertTenant(t, p, d)
             \/ \E t \in TenantId : DeleteTenant(t) \/ Fetch(t) \/ Expire(t)
             \/ \E t \in TenantId, k \in Key : CreateKey(t, k) \/ RevokeKey(t, PrefixOf[k])
             \/ Listen \/ Flush \/ Drop \/ ApplyNote \/ UNCHANGED vars
    <2>1. UNCHANGED <<policies, limits, lock, put, last>>
      BY Zenon, <1>3 DEF UpsertTenant, DeleteTenant, Fetch, Expire, CreateKey, RevokeKey, Listen,
                  Flush, Drop, ApplyNote, vars, store
    <2> QED BY Zenon, <2>1, PutUntouched
  <1> QED BY Zenon, <1>1, <1>2, <1>3 DEF Next

(* UpsertPolicy replaces a policy's mode and limits as one record, whoever *)
(* else is putting that policy and wherever a transaction fails.           *)
THEOREM PutReplacesWhole == Spec => []OneRecord
  <1>1. PutInv => OneRecord
    BY Zenon DEF PutInv
  <1> QED BY <1>1, PutStarts, PutInvStep, PTL DEF Spec

-----------------------------------------------------------------------------
(* The steps a lookup or the replica can notice, and the others.           *)
Quiet == UNCHANGED <<policies, limits, tenants, entries, listener, notes>>

LEMMA Noticed ==
    ASSUME [Next]_vars
    PROVE  \/ \E a \in Admin : Commit(a)
           \/ \E t \in TenantId, p \in Policy, d \in BOOLEAN : UpsertTenant(t, p, d)
           \/ \E t \in TenantId : DeleteTenant(t) \/ Fetch(t) \/ Expire(t)
           \/ Listen \/ Flush \/ Drop \/ ApplyNote
           \/ Quiet
  <1>1. ASSUME NEW a \in Admin, PutStep(a) \/ Abort(a), ~Commit(a) PROVE Quiet
    BY Zenon, <1>1 DEF PutStep, Abort, UpsertRow, ClearLimits, InsertLimit, RollBack, Quiet,
                store, replica
  <1>2. ASSUME NEW a \in Admin, NEW p \in Policy, NEW b \in Body, PutPolicy(a, p, b)
        PROVE  Quiet
    BY Zenon, <1>2 DEF PutPolicy, Quiet, store, replica
  <1>3. ASSUME NEW t \in TenantId, NEW k \in Key, CreateKey(t, k) \/ RevokeKey(t, PrefixOf[k])
        PROVE  Quiet
    BY Zenon, <1>3 DEF CreateKey, RevokeKey, Quiet, replica
  <1>4. CASE UNCHANGED vars
    BY Zenon, <1>4 DEF vars, Quiet
  <1> QED BY Zenon, <1>1, <1>2, <1>3, <1>4 DEF Next

(* A tenant points at a policy that is there, and the answers kept in the  *)
(* replica were given by Lookup.                                           *)
LimitedAnswer(e) == e # NoRow /\ e.kind = "policy" => e.limits # {}

TenantInv ==
    /\ PutInv
    /\ tenants \in [TenantId -> [policy : Policy, disabled : BOOLEAN] \cup {NoRow}]
    /\ \A t \in TenantId : tenants[t] # NoRow => policies[tenants[t].policy] # NoRow
    /\ entries = [t \in TenantId |-> entries[t]]
    /\ \A t \in TenantId : LimitedAnswer(entries[t])

(* The record of a policy that is there has limits, by Validate.           *)
LEMMA LookupIsLimited ==
    ASSUME TenantInv, NEW t \in TenantId
    PROVE  LimitedAnswer(Lookup(t))
  <1>1. CASE tenants[t] = NoRow \/ tenants[t].disabled
    BY Zenon, <1>1 DEF Lookup, LimitedAnswer
  <1>2. CASE tenants[t] # NoRow /\ ~tenants[t].disabled
    <2> DEFINE p == tenants[t].policy
               names == {r.name : r \in RowsOf(p)}
    <2>1. p \in Policy /\ policies[p] # NoRow
      BY Zenon, <1>2 DEF TenantInv
    <2>2. last[p] \in Body /\ last[p].limits # <<>> /\ names = Range(last[p].limits)
      BY Zenon, <2>1 DEF TenantInv, PutInv, StoreType, OneRecord, Stored
    <2>3. Len(last[p].limits) > 0 /\ DOMAIN last[p].limits = 1..Len(last[p].limits)
          /\ Len(last[p].limits) \in Nat
      BY Zenon, <2>2, BodySequence
    <2>4. last[p].limits[1] \in names
      <3>1. 1 \in DOMAIN last[p].limits
        BY <2>3, SMTT(20), ZenonT(40)
      <3>2. last[p].limits[1] \in Range(last[p].limits)
        BY Zenon, <3>1 DEF Range
      <3> HIDE DEF p, names
      <3> QED BY Zenon, <2>2, <3>2
    <2>5. Lookup(t).limits = names
      BY Zenon, <1>2 DEF Lookup
    <2> QED BY Zenon, <2>4, <2>5 DEF LimitedAnswer
  <1> QED BY Zenon, <1>1, <1>2

LEMMA TenantStarts == Init => TenantInv
  <1> SUFFICES ASSUME Init PROVE TenantInv
    BY Zenon
  <1>1. PutInv
    BY Zenon, PutStarts
  <1>2. tenants \in [TenantId -> [policy : Policy, disabled : BOOLEAN] \cup {NoRow}]
    BY Zenon, StoreAssumption DEF Init
  <1>3. ASSUME NEW t \in TenantId, tenants[t] # NoRow
        PROVE  policies[tenants[t].policy] # NoRow
    <2>1. tenants[t].policy = Demo.policy
      BY Zenon, <1>3 DEF Init
    <2>2. policies[Demo.policy] = Demo.body.mode
      BY Zenon, StoreAssumption DEF Init
    <2> QED BY Zenon, <2>1, <2>2, StoreAssumption
  <1>4. entries = [t \in TenantId |-> entries[t]]
    BY Zenon DEF Init
  <1>5. \A t \in TenantId : LimitedAnswer(entries[t])
    BY Zenon DEF Init, LimitedAnswer
  <1> QED BY Zenon, <1>1, <1>2, <1>3, <1>4, <1>5 DEF TenantInv

LEMMA TenantInvStep == TenantInv /\ [Next]_vars => TenantInv'
  <1> SUFFICES ASSUME TenantInv, [Next]_vars PROVE TenantInv'
    BY Zenon
  <1>1. PutInv'
    BY Zenon, PutInvStep DEF TenantInv
  <1>2. \A p \in Policy : policies[p] # NoRow => policies'[p] # NoRow
    <2>1. ASSUME NEW a \in Admin, Commit(a)
          PROVE  \A p \in Policy : policies[p] # NoRow => policies'[p] # NoRow
      <3>1. Sound(a) /\ put[a].pc = "commit" /\ NoRow \notin Modes
        BY Zenon, <2>1, StoreAssumption DEF Commit, TenantInv, PutInv
      <3> QED BY Zenon, <2>1, <3>1 DEF Commit, TenantInv, PutInv, StoreType, Sound, InTransaction
    <2>2. CASE policies' = policies
      BY Zenon, <2>2
    <2> QED BY Zenon, <2>1, <2>2, Noticed DEF UpsertTenant, DeleteTenant, Fetch, Expire, Listen,
                Flush, Drop, ApplyNote, Quiet, store
  <1> DEFINE Pointed ==
                /\ tenants \in [TenantId -> [policy : Policy, disabled : BOOLEAN] \cup {NoRow}]
                /\ \A t \in TenantId : tenants[t] # NoRow => policies[tenants[t].policy] # NoRow
  <1>3. Pointed'
    <2>1. CASE tenants' = tenants
      BY Zenon, <1>2, <2>1 DEF TenantInv
    <2>2. ASSUME NEW t \in TenantId, NEW p \in Policy, NEW d \in BOOLEAN, UpsertTenant(t, p, d)
          PROVE  Pointed'
      <3>1. CASE policies[p] = NoRow
        BY Zenon, <2>1, <2>2, <3>1 DEF UpsertTenant
      <3>2. CASE policies[p] # NoRow
        <4> DEFINE row == [policy |-> p, disabled |-> d]
        <4>1. row \in [policy : Policy, disabled : BOOLEAN] /\ row.policy = p
          BY Zenon
        <4>2. tenants' = [tenants EXCEPT ![t] = row] /\ policies' = policies
          BY Zenon, <2>2, <3>2 DEF UpsertTenant
        <4> HIDE DEF row
        <4> QED BY Zenon, <3>2, <4>1, <4>2 DEF TenantInv
      <3> QED BY Zenon, <3>1, <3>2
    <2>3. ASSUME NEW t \in TenantId, DeleteTenant(t) PROVE Pointed'
      BY Zenon, <2>1, <2>3, <1>2 DEF DeleteTenant, TenantInv
    <2> HIDE DEF Pointed
    <2> QED BY Zenon, <2>1, <2>2, <2>3, Noticed DEF Commit, Fetch, Expire, Listen,
                Flush, Drop, ApplyNote, Quiet, store
  <1> DEFINE Kept == \A t \in TenantId : LimitedAnswer(entries[t])
  <1>4. Kept'
    <2>1. ASSUME NEW t \in TenantId, Fetch(t) PROVE Kept'
      BY Zenon, <2>1, LookupIsLimited DEF Fetch, TenantInv
    <2>2. CASE \A t \in TenantId : entries'[t] = entries[t] \/ entries'[t] = NoRow
      BY Zenon, <2>2 DEF TenantInv, LimitedAnswer
    <2>3. ASSUME NEW t \in TenantId, Expire(t) PROVE Kept'
      BY Zenon, <2>2, <2>3 DEF Expire, TenantInv
    <2>4. CASE Flush \/ ApplyNote
      BY Zenon, <2>2, <2>4 DEF Flush, ApplyNote
    <2>5. CASE entries' = entries
      BY Zenon, <2>2, <2>5
    <2> QED BY Zenon, <2>1, <2>3, <2>4, <2>5, Noticed DEF UpsertTenant, DeleteTenant, Commit, Listen,
                Drop, Quiet
  <1>5. (entries = [t \in TenantId |-> entries[t]])'
    BY Zenon, Noticed DEF TenantInv, UpsertTenant, DeleteTenant, Fetch, Expire, Commit, Listen,
                Flush, Drop, ApplyNote, Quiet, store
  <1> QED BY Zenon, <1>1, <1>3, <1>4, <1>5 DEF TenantInv

(* No lookup, on the store or from the replica's cache, finds a policy     *)
(* without limits, however PUTs and lookups interleave: the DELETE and the *)
(* INSERTs of UpsertPolicy are never seen apart.                           *)
THEOREM NobodyUnlimited == Spec => []NeverUnlimited
  <1>1. TenantInv => NeverUnlimited
    BY Zenon, LookupIsLimited DEF TenantInv, NeverUnlimited, LimitedAnswer
  <1> QED BY <1>1, TenantStarts, TenantInvStep, PTL DEF Spec

-----------------------------------------------------------------------------
(* A key has one row, and the row of an ended key is a revoked one.        *)
KeyInv ==
    /\ \A r, s \in keys : r.key = s.key => r = s
    /\ \A r \in keys : r.key \in ended => r.revoked
    /\ keys \subseteq [key : Key, tenant : TenantId, revoked : BOOLEAN]

LEMMA KeyInvStep == KeyInv /\ [Next]_vars => KeyInv'
  <1> SUFFICES ASSUME KeyInv, [Next]_vars PROVE KeyInv'
    BY Zenon
  <1> USE DEF KeyInv
  <1>1. CASE UNCHANGED <<keys, ended>>
    BY Zenon, <1>1
  <1>2. ASSUME NEW t \in TenantId, DeleteTenant(t) PROVE KeyInv'
    BY <1>1, <1>2 DEF DeleteTenant
  <1>3. ASSUME NEW t \in TenantId, NEW k \in Key, CreateKey(t, k) PROVE KeyInv'
    <2> DEFINE row == [key |-> k, tenant |-> t, revoked |-> FALSE]
    <2>1. row \in [key : Key, tenant : TenantId, revoked : BOOLEAN] /\ row.key = k
      BY Zenon
    <2>2. ended' = ended /\ k \notin ended /\ (\A r \in keys : r.key # k)
          /\ (keys' = keys \/ keys' = keys \cup {row})
      BY Zenon, <1>3 DEF CreateKey
    <2> HIDE DEF row
    <2> QED BY Zenon, <2>1, <2>2
  <1>4. ASSUME NEW t \in TenantId, NEW k \in Key, RevokeKey(t, PrefixOf[k]) PROVE KeyInv'
    <2> DEFINE hit == {r \in keys : r.tenant = t /\ PrefixOf[r.key] = PrefixOf[k] /\ ~r.revoked}
               off(r) == [r EXCEPT !.revoked = TRUE]
    <2>1. keys' = (keys \ hit) \cup {off(r) : r \in hit}
          /\ ended' = ended \cup {r.key : r \in hit}
      BY Zenon, <1>4 DEF RevokeKey
    <2>2. \A r \in keys : /\ off(r) \in [key : Key, tenant : TenantId, revoked : BOOLEAN]
                          /\ off(r).key = r.key /\ off(r).revoked
      BY Zenon
    <2> HIDE DEF off
    <2>3. keys' \subseteq [key : Key, tenant : TenantId, revoked : BOOLEAN]
      BY Zenon, <2>1, <2>2
    <2>4. \A r \in keys' : r.key \in ended' => r.revoked
      BY Zenon, <2>1, <2>2
    <2>5. \A r, s \in keys' : r.key = s.key => r = s
      BY <2>1, <2>2
    <2> QED BY Zenon, <2>3, <2>4, <2>5
  <1>5. ASSUME NEW a \in Admin, PutStep(a) \/ Abort(a) PROVE UNCHANGED <<keys, ended>>
    BY Zenon, <1>5 DEF PutStep, Abort, UpsertRow, ClearLimits, InsertLimit, Commit, RollBack, store
  <1> QED BY Zenon, <1>1, <1>2, <1>3, <1>4, <1>5 DEF Next, vars, store, PutPolicy, UpsertTenant,
             Fetch, Expire, Listen, Flush, Drop, ApplyNote

(* A key that was revoked, or deleted with its tenant, authenticates       *)
(* nobody again, whatever tenants and keys are created afterwards.         *)
THEOREM EndedForGood == Spec => []EndedKeysStayEnded
  <1>1. Init => KeyInv
    BY Zenon DEF Init, KeyInv
  <1>2. KeyInv => EndedKeysStayEnded
    BY Zenon DEF KeyInv, EndedKeysStayEnded, TenantForKey
  <1> QED BY <1>1, <1>2, KeyInvStep, PTL DEF Spec

-----------------------------------------------------------------------------
(* Every change a lookup can notice leaves a note behind it, and a note is *)
(* dropped only when it has been applied or the connection is gone.        *)
Announced(t) == \E n \in Range(notes) : n.kind = "policy" \/ n.name = t

Note == [kind : {"policy", "tenant"}, name : Policy \cup TenantId]

FollowInv == TenantInv /\ notes \in Seq(Note) /\ ReplicaFollows

LEMMA AppendedNote ==
    ASSUME notes \in Seq(Note), NEW n \in Note, notes' = Append(notes, n)
    PROVE  notes' \in Seq(Note) /\ Range(notes)' = Range(notes) \cup {n}
  <1>1. /\ notes' \in Seq(Note) /\ Len(notes) \in Nat
        /\ DOMAIN notes = 1..Len(notes) /\ DOMAIN notes' = 1..(Len(notes) + 1)
        /\ notes'[Len(notes) + 1] = n /\ \A i \in 1..Len(notes) : notes'[i] = notes[i]
    OBVIOUS
  <1>2. 1..(Len(notes) + 1) = (1..Len(notes)) \cup {Len(notes) + 1}
    BY <1>1
  <1> QED BY <1>1, <1>2 DEF Range

LEMMA AppliedNote ==
    ASSUME notes \in Seq(Note), notes # <<>>, notes' = Tail(notes)
    PROVE  notes' \in Seq(Note) /\ Range(notes) \subseteq Range(notes)' \cup {Head(notes)}
  <1>1. /\ notes' \in Seq(Note) /\ Len(notes) \in Nat \ {0} /\ Head(notes) = notes[1]
        /\ DOMAIN notes = 1..Len(notes) /\ DOMAIN notes' = 1..(Len(notes) - 1)
        /\ \A i \in 1..(Len(notes) - 1) : notes'[i] = notes[i + 1]
    OBVIOUS
  <1> SUFFICES ASSUME NEW i \in 1..Len(notes), i # 1 PROVE notes[i] \in Range(notes)'
    BY <1>1 DEF Range
  <1>2. i - 1 \in DOMAIN notes' /\ notes'[i - 1] = notes[i]
    BY <1>1
  <1> QED BY Zenon, <1>2 DEF Range

LEMMA LookupSame ==
    ASSUME UNCHANGED <<policies, limits>>, NEW t \in TenantId, tenants'[t] = tenants[t]
    PROVE  Lookup(t)' = Lookup(t)
  BY Zenon DEF Lookup, RowsOf

(* The replica holds t's answer, or a note that reaches it is queued.      *)
Current(t) == entries[t] \in {NoRow, Lookup(t)} \/ Announced(t)

LEMMA FollowStarts == Init => FollowInv
  BY TenantStarts, SMTT(20), ZenonT(40) DEF Init, FollowInv, ReplicaFollows

LEMMA FollowInvStep == FollowInv /\ [Next]_vars => FollowInv'
  <1> DEFINE Goal == notes \in Seq(Note) /\ (listener = "flushed" => \A t \in TenantId : Current(t))
  <1> SUFFICES ASSUME FollowInv, [Next]_vars PROVE Goal'
    BY Zenon, TenantInvStep DEF FollowInv, ReplicaFollows, Current, Announced
  <1>0. Goal
    BY Zenon DEF FollowInv, ReplicaFollows, Current, Announced
  <1>1. ASSUME NEW a \in Admin, Commit(a) PROVE Goal'
    <2> DEFINE n == [kind |-> "policy", name |-> put[a].policy]
    <2>1. put[a].policy \in Policy /\ listener' = listener
      BY Zenon, <1>1 DEF FollowInv, TenantInv, PutInv, Sound, Commit
    <2>2. n \in Note /\ n.kind = "policy"
      BY Zenon, <2>1 DEF Note
    <2>3. listener # "off" => notes' = Append(notes, n)
      BY Zenon, <1>1 DEF Commit, Notify
    <2>4. listener = "off" => notes' = notes
      BY Zenon, <1>1 DEF Commit, Notify
    <2> HIDE DEF n
    <2>5. listener # "off" => notes' \in Seq(Note) /\ n \in Range(notes)'
      BY Zenon, <1>0, <2>2, <2>3, AppendedNote
    <2> QED BY Zenon, <1>0, <2>1, <2>2, <2>4, <2>5 DEF Current, Announced
  <1>2. ASSUME NEW t \in TenantId, UNCHANGED <<policies, limits, entries, listener>>,
               \A u \in TenantId : u # t => tenants'[u] = tenants[u],
               Notify("tenant", t) \/ (tenants' = tenants /\ notes' = notes)
        PROVE  Goal'
    <2> DEFINE n == [kind |-> "tenant", name |-> t]
    <2>1. n \in Note /\ n.name = t
      BY Zenon DEF Note
    <2>2. \A u \in TenantId : u # t => Lookup(u)' = Lookup(u)
      BY Zenon, <1>2, LookupSame
    <2>3. CASE tenants' = tenants /\ notes' = notes
      <3>1. \A u \in TenantId : Lookup(u)' = Lookup(u)
        BY Zenon, <1>2, <2>3, LookupSame
      <3> QED BY Zenon, <1>0, <1>2, <2>3, <3>1 DEF Current, Announced
    <2>4. CASE Notify("tenant", t)
      <3>1. CASE listener = "off"
        BY Zenon, <1>0, <1>2, <2>4, <3>1 DEF Notify
      <3>2. CASE listener # "off"
        <4>1. notes' = Append(notes, n)
          BY Zenon, <2>4, <3>2 DEF Notify
        <4> HIDE DEF n
        <4>2. notes' \in Seq(Note) /\ Range(notes)' = Range(notes) \cup {n}
          BY Zenon, <1>0, <2>1, <4>1, AppendedNote
        <4> QED BY Zenon, <1>0, <1>2, <2>1, <2>2, <4>2 DEF Current, Announced
      <3> QED BY Zenon, <3>1, <3>2
    <2> QED BY Zenon, <1>2, <2>3, <2>4
  <1>3. ASSUME NEW t \in TenantId, NEW p \in Policy, NEW d \in BOOLEAN, UpsertTenant(t, p, d)
        PROVE  Goal'
    <2> HIDE DEF Goal
    <2> QED BY Zenon, <1>2, <1>3 DEF UpsertTenant, FollowInv, TenantInv
  <1>4. ASSUME NEW t \in TenantId, DeleteTenant(t) PROVE Goal'
    <2> HIDE DEF Goal
    <2> QED BY Zenon, <1>2, <1>4 DEF DeleteTenant, FollowInv, TenantInv
  <1>5. ASSUME NEW t \in TenantId, Fetch(t) \/ Expire(t) PROVE Goal'
    <2>1. UNCHANGED <<policies, limits, tenants, notes, listener>>
      BY Zenon, <1>5 DEF Fetch, Expire, store
    <2>2. \A u \in TenantId : entries'[u] \in {entries[u], Lookup(u), NoRow}
      BY Zenon, <1>5 DEF Fetch, Expire, FollowInv, TenantInv
    <2>3. \A u \in TenantId : Lookup(u)' = Lookup(u)
      BY Zenon, <2>1, LookupSame
    <2> QED BY Zenon, <1>0, <2>1, <2>2, <2>3 DEF Current, Announced
  <1>6. CASE Listen
    BY Zenon, <1>0, <1>6 DEF Listen
  <1>7. CASE Flush
    <2>1. UNCHANGED <<policies, limits, tenants, notes>> /\ \A t \in TenantId : entries'[t] = NoRow
      BY Zenon, <1>7 DEF Flush, store
    <2>2. \A t \in TenantId : Lookup(t)' = Lookup(t)
      BY Zenon, <2>1, LookupSame
    <2> QED BY Zenon, <1>0, <2>1, <2>2 DEF Current
  <1>8. CASE Drop
    BY <1>8 DEF Drop
  <1>9. CASE ApplyNote
    <2>1. UNCHANGED <<policies, limits, tenants>> /\ listener = "flushed" /\ notes # <<>>
          /\ notes' = Tail(notes)
          /\ entries' = [t \in TenantId |-> IF Covers(Head(notes), t) THEN NoRow ELSE entries[t]]
      BY Zenon, <1>9 DEF ApplyNote, store
    <2>2. \A t \in TenantId : Lookup(t)' = Lookup(t)
      BY Zenon, <2>1, LookupSame
    <2>3. notes' \in Seq(Note) /\ Range(notes) \subseteq Range(notes)' \cup {Head(notes)}
      BY Zenon, <1>0, <2>1, AppliedNote
    <2>4. ASSUME NEW t \in TenantId PROVE Current(t)'
      <3>1. CASE Covers(Head(notes), t)
        BY Zenon, <2>1, <3>1 DEF Current
      <3>2. CASE ~Covers(Head(notes), t)
        BY Zenon, <1>0, <2>1, <2>2, <2>3, <3>2 DEF Current, Announced, Covers
      <3> QED BY Zenon, <3>1, <3>2
    <2> QED BY Zenon, <2>3, <2>4
  <1>10. CASE Quiet
    <2>1. \A t \in TenantId : Lookup(t)' = Lookup(t)
      BY Zenon, <1>10, LookupSame DEF Quiet
    <2> QED BY Zenon, <1>0, <1>10, <2>1 DEF Quiet, Current, Announced
  <1> HIDE DEF Goal
  <1> QED BY Zenon, <1>1, <1>3, <1>4, <1>5, <1>6, <1>7, <1>8, <1>9, <1>10, Noticed

(* A replica whose listener is connected and has flushed never keeps an    *)
(* answer that differs from the rows without a queued notification that    *)
(* will drop it.                                                           *)
THEOREM ReplicasFollow == Spec => []ReplicaFollows
  <1>1. FollowInv => ReplicaFollows
    BY Zenon DEF FollowInv
  <1> QED BY <1>1, FollowStarts, FollowInvStep, PTL DEF Spec

=============================================================================
