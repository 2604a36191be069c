------------------------- MODULE SharedStateProofs --------------------------
(***************************************************************************)
(* What the processes share.  Cluster: the state the log gives them, which *)
(* they agree on and route by, for any ids, addresses, files and bounds.   *)
(* CheckScript: the counters in Redis, for every limit, cost and clock;    *)
(* its two keys, which Redis may forget, keep exactly what the quota       *)
(* promises.                                                               *)
(***************************************************************************)
EXTENDS Cluster, CheckScript, FiniteSetTheorems, WellFoundedInduction, TLAPS

(* The cluster.  What one log entry does to a state is stated once         *)
(* (Follows) and shown of every command; the theorems then only follow the *)
(* log.                                                                    *)

(* t is s after one entry: the generations have not fallen, no two members *)
(* share an address if none did, and the epoch has advanced by one if a    *)
(* tenant could have moved and not at all otherwise.                       *)
Follows(s, t) ==
    /\ t \in State
    /\ Distinct(s.members) => Distinct(t.members)
    /\ s.pgen <= t.pgen /\ s.sgen <= t.sgen
    /\ t.epoch = IF SameRing(s, t) THEN s.epoch ELSE s.epoch + 1

LEMMA Counts ==
  ASSUME NEW s \in State
  PROVE  s.epoch \in Nat /\ s.pgen \in Nat /\ s.sgen \in Nat
  BY Zenon DEF State

LEMMA SelfFollows == ASSUME NEW s \in State PROVE Follows(s, s)
  BY DEF Follows, SameRing, State

LEMMA SeedRingFollows ==
  ASSUME NEW s \in State, NEW m \in Membership, NEW v \in 0..MaxVNodes
  PROVE  Follows(s, SeedRing(s, m, v))
  <1>1. CASE s.members # NoMembers \/ m = NoMembers \/ ~Distinct(m) \/ v > MaxVNodes
    BY Zenon, <1>1, SelfFollows DEF SeedRing
  <1>2. CASE ~(s.members # NoMembers \/ m = NoMembers \/ ~Distinct(m) \/ v > MaxVNodes)
    <2> DEFINE e == s.epoch + 1
               t == [s EXCEPT !.members = m, !.vnodes = v, !.epoch = e]
    <2>1. SeedRing(s, m, v) = t
      BY Zenon, <1>2 DEF SeedRing
    <2>a. e \in Nat
      BY DEF State
    <2>2. t \in State /\ t.members = m /\ t.epoch = e /\ t.pgen = s.pgen /\ t.sgen = s.sgen
      <3> HIDE DEF e
      <3>1. t \in State
        BY Zenon, <2>a, AddrAssumption DEF State
      <3> QED BY Zenon, <3>1 DEF State
    <2>3. PICK i \in Id : m[i] # NoAddr
      BY Zenon, <1>2 DEF Membership, NoMembers
    <2>4. i \in Ids(t) /\ i \notin Ids(s)
      BY Zenon, <1>2, <2>2, <2>3 DEF Ids, Has, NoMembers
    <2> QED
      BY <1>2, <2>1, <2>2, <2>4 DEF Follows, SameRing, State
  <1> QED BY Zenon, <1>1, <1>2

LEMMA AddShardFollows ==
  ASSUME NEW s \in State, NEW i \in Id, NEW a \in Addr
  PROVE  Follows(s, AddShard(s, i, a))
  <1>1. CASE s.members[i] = a \/ \E j \in Id \ {i} : s.members[j] = a
    BY Zenon, <1>1, SelfFollows DEF AddShard
  <1>2. CASE ~(s.members[i] = a \/ \E j \in Id \ {i} : s.members[j] = a)
    <2> DEFINE m == [s.members EXCEPT ![i] = a]
               e == IF Has(s, i) THEN s.epoch ELSE s.epoch + 1
               t == [s EXCEPT !.members = m, !.epoch = e]
    <2>1. AddShard(s, i, a) = t
      BY Zenon, <1>2 DEF AddShard
    <2>2. s.members \in Membership /\ m \in Membership
      BY Zenon DEF State, Membership
    <2>3. /\ t \in State /\ t.members = m /\ t.vnodes = s.vnodes
          /\ t.pgen = s.pgen /\ t.sgen = s.sgen
          /\ t.epoch = e
      <3>1. e \in Nat
        BY DEF State
      <3> HIDE DEF e, m
      <3>2. t \in State
        BY Zenon, <2>2, <3>1 DEF State
      <3> QED BY Zenon, <2>2, <3>1, <3>2 DEF State
    <2>4. Ids(t) = Ids(s) \cup {i}
      BY Zenon, <2>2, <2>3, AddrAssumption DEF Ids, Has, Membership
    <2>5. SameRing(s, t) <=> Has(s, i)
      BY Zenon, <2>3, <2>4 DEF SameRing, Ids
    <2>6. Distinct(s.members) => Distinct(m)
      BY Zenon, <1>2, <2>2 DEF Distinct, Membership
    <2> QED
      BY <2>1, <2>3, <2>5, <2>6 DEF Follows, State
  <1> QED BY Zenon, <1>1, <1>2

LEMMA RemoveShardFollows ==
  ASSUME NEW s \in State, NEW i \in Id
  PROVE  Follows(s, RemoveShard(s, i))
  <1>1. CASE ~Has(s, i)
    BY Zenon, <1>1, SelfFollows DEF RemoveShard
  <1>2. CASE Has(s, i)
    <2> DEFINE m == [s.members EXCEPT ![i] = NoAddr]
               e == s.epoch + 1
               t == [s EXCEPT !.members = m, !.epoch = e]
    <2>1. RemoveShard(s, i) = t
      BY Zenon, <1>2 DEF RemoveShard
    <2>2. s.members \in Membership /\ m \in Membership
      BY Zenon DEF State, Membership
    <2>3. /\ t \in State /\ t.members = m /\ t.pgen = s.pgen /\ t.sgen = s.sgen
          /\ t.epoch = e
      <3>1. e \in Nat
        BY DEF State
      <3> HIDE DEF e, m
      <3>2. t \in State
        BY Zenon, <2>2, <3>1 DEF State
      <3> QED BY Zenon, <2>2, <3>1, <3>2 DEF State
    <2>4. i \in Ids(s) /\ i \notin Ids(t)
      BY Zenon, <1>2, <2>2, <2>3 DEF Ids, Has, Membership
    <2>5. Distinct(s.members) => Distinct(m)
      BY Zenon, <2>2 DEF Distinct, Membership
    <2> QED
      BY <2>1, <2>3, <2>4, <2>5 DEF Follows, SameRing, State
  <1> QED BY Zenon, <1>1, <1>2

LEMMA SetVNodesFollows ==
  ASSUME NEW s \in State, NEW v \in 0..MaxVNodes
  PROVE  Follows(s, SetVNodes(s, v))
  <1>1. CASE v = s.vnodes
    BY Zenon, <1>1, SelfFollows DEF SetVNodes
  <1>2. CASE v # s.vnodes
    <2> DEFINE e == s.epoch + 1
               t == [s EXCEPT !.vnodes = v, !.epoch = e]
    <2>1. SetVNodes(s, v) = t
      BY <1>2, AddrAssumption DEF SetVNodes
    <2>2. /\ t \in State /\ t.members = s.members /\ t.vnodes = v
          /\ t.pgen = s.pgen /\ t.sgen = s.sgen /\ t.epoch = e
      <3>1. e \in Nat
        BY DEF State
      <3> HIDE DEF e
      <3>2. t \in State
        BY Zenon, <3>1, AddrAssumption DEF State
      <3> QED BY Zenon, <3>1, <3>2 DEF State
    <2> QED
      BY <1>2, <2>1, <2>2 DEF Follows, SameRing, State
  <1> QED BY Zenon, <1>1, <1>2

LEMMA GenerationsFollow ==
  ASSUME NEW s \in State, NEW g \in Nat
  PROVE  Follows(s, BumpPolicyGen(s)) /\ Follows(s, SetStoreGen(s, g))
  BY SelfFollows DEF BumpPolicyGen, SetStoreGen, Follows, SameRing, Ids, Has, State

-----------------------------------------------------------------------------
(* The log.                                                                *)

LEMMA ConfiguredType ==
  ASSUME NEW n \in Node PROVE Configured(File[n], VNodes) \in State
  <1>1. File[n] \in Membership
    BY Zenon, FileAssumption
  <1>2. Cardinality({i \in Id : File[n][i] # NoAddr}) \in Nat
    <2>1. IsFiniteSet({i \in Id : File[n][i] # NoAddr})
      BY Zenon, AddrAssumption, FS_Subset
    <2> QED BY Zenon, <2>1, FS_CardinalityType
  <1> QED BY Zenon, <1>1, <1>2, FileAssumption DEF Configured, State

LEMMA LastType == ASSUME TypeOK PROVE Last \in State /\ Len(states) \in Nat /\ Len(states) >= 1
  BY DEF TypeOK, Last

(* Whatever a step does, the log stays or grows by a state that follows.   *)
LEMMA LogStep ==
  ASSUME TypeOK, [Next]_vars
  PROVE  states' = states \/ \E s \in State : Follows(Last, s) /\ states' = Append(states, s)
  <1> Last \in State
    BY Zenon, LastType
  <1> DEFINE Goal == states' = states \/ \E s \in State : Follows(Last, s) /\ states' = Append(states, s)
  <1>0. ASSUME NEW s, Follows(Last, s), Commit(s) PROVE Goal
    BY Zenon, <1>0 DEF Commit, Follows
  <1>1. CASE Propose
    <2>1. CASE \E i \in Id : Commit(RemoveShard(Last, i))
      BY Zenon, <2>1, <1>0, RemoveShardFollows
    <2>2. CASE \E i \in Id, a \in Addr : Commit(AddShard(Last, i, a))
      BY Zenon, <2>2, <1>0, AddShardFollows
    <2>3. CASE \E v \in 0..MaxVNodes : Commit(SetVNodes(Last, v))
      BY Zenon, <2>3, <1>0, SetVNodesFollows
    <2>4. CASE Commit(BumpPolicyGen(Last)) \/ \E g \in Gens : Commit(SetStoreGen(Last, g))
      <3>1. Follows(Last, BumpPolicyGen(Last))
        BY Zenon, GenerationsFollow
      <3>2. \A g \in Gens : Follows(Last, SetStoreGen(Last, g))
        BY Zenon, GenerationsFollow, FileAssumption
      <3> QED BY Zenon, <2>4, <1>0, <3>1, <3>2
    <2> QED BY Zenon, <1>1, <2>1, <2>2, <2>3, <2>4 DEF Propose
  <1>2. ASSUME NEW n \in Node, SeedPropose(n) PROVE Goal
    <2>1. Follows(Last, SeedRing(Last, File[n], VNodes))
      BY Zenon, SeedRingFollows, FileAssumption
    <2> QED BY Zenon, <1>2, <1>0, <2>1 DEF SeedPropose
  <1>3. ASSUME NEW n \in Node,
               SeedLook(n) \/ SeedFails(n) \/ Apply(n) \/ OnApply(n) \/ Restart(n) \/ Elect(n)
        PROVE  Goal
    BY Zenon, <1>3 DEF SeedLook, SeedFails, Apply, OnApply, Restart, Elect
  <1>4. CASE UNCHANGED vars
    BY Zenon, <1>4 DEF vars
  <1> QED BY Zenon, <1>1, <1>2, <1>3, <1>4 DEF Next

LEMMA TypeInit == Init => TypeOK
  <1> SUFFICES ASSUME Init PROVE TypeOK
    BY Zenon
  <1>1. EmptyState \in State
    BY AddrAssumption DEF EmptyState, State, Membership, NoMembers
  <1>2. states \in Seq(State) /\ Len(states) >= 1 /\ Len(states) = 1
    BY <1>1 DEF Init
  <1>3. view \in [Node -> State]
    BY Zenon, ConfiguredType DEF Init
  <1> QED BY <1>2, <1>3 DEF Init, TypeOK, NoGens

LEMMA TypeStep == TypeOK /\ [Next]_vars => TypeOK'
  <1> SUFFICES ASSUME TypeOK, [Next]_vars PROVE TypeOK'
    BY Zenon
  <1>1. states' \in Seq(State) /\ Len(states') >= Len(states) /\ Len(states) \in Nat
    <2>1. CASE states' = states
      BY <2>1 DEF TypeOK
    <2>2. ASSUME NEW s \in State, states' = Append(states, s)
          PROVE  states' \in Seq(State) /\ Len(states') >= Len(states) /\ Len(states) \in Nat
      BY <2>2 DEF TypeOK
    <2> QED BY Zenon, <2>1, <2>2, LogStep
  <1> DEFINE Rest == /\ at' \in [Node -> Nat] /\ \A n \in Node : at'[n] \in 1..Len(states')
                     /\ told' \in [Node -> BOOLEAN]
                     /\ view' \in [Node -> State]
                     /\ gens' \in [Node -> [policy : Nat, store : Nat]]
                     /\ leader' \in Node
                     /\ heard' \in [Node -> BOOLEAN]
                     /\ seed' \in [Node -> {"waiting", "proposing"}]
                     /\ faults' \in Nat
  <1>2. ASSUME Propose \/ UNCHANGED vars PROVE Rest
    BY <1>1, <1>2 DEF Propose, vars, TypeOK
  <1>3. ASSUME NEW n \in Node, SeedLook(n) \/ SeedPropose(n) \/ SeedFails(n) \/ Elect(n)
        PROVE  Rest
    <2>1. UNCHANGED <<at, told, view, gens>>
      BY Zenon, <1>3 DEF SeedLook, SeedPropose, SeedFails, Elect
    <2>2. leader' \in Node /\ faults' \in Nat
      BY <1>3 DEF SeedLook, SeedPropose, SeedFails, Elect, TypeOK
    <2>3. heard' \in [Node -> BOOLEAN]
      BY Zenon, <1>3 DEF SeedLook, SeedPropose, SeedFails, Elect, TypeOK
    <2>4. seed' \in [Node -> {"waiting", "proposing"}]
      BY Zenon, <1>3 DEF SeedLook, SeedPropose, SeedFails, Elect, TypeOK
    <2> QED BY <1>1, <2>1, <2>2, <2>3, <2>4, SMTT(30) DEF TypeOK
  <1>4. ASSUME NEW n \in Node, Apply(n) PROVE Rest
    BY <1>1, <1>4 DEF Apply, TypeOK
  <1>5. ASSUME NEW n \in Node, OnApply(n) PROVE Rest
    <2>1. states[at[n]] \in State
      BY DEF TypeOK
    <2>2. view' \in [Node -> State]
      BY Zenon, <1>5, <2>1 DEF OnApply, Adopt, TypeOK
    <2>3. gens' \in [Node -> [policy : Nat, store : Nat]]
      BY Zenon, <1>5, <2>1 DEF OnApply, TypeOK, State
    <2> QED BY Zenon, <1>1, <1>5, <2>2, <2>3 DEF OnApply, TypeOK
  <1>6. ASSUME NEW n \in Node, Restart(n) PROVE Rest
    <2>1. view' \in [Node -> State]
      BY Zenon, <1>6, ConfiguredType DEF Restart, TypeOK
    <2> QED BY <1>1, <1>6, <2>1 DEF Restart, TypeOK, NoGens
  <1>7. Rest
    <2> HIDE DEF Rest
    <2> QED BY Zenon, <1>2, <1>3, <1>4, <1>5, <1>6 DEF Next
  <1>8. Len(states') >= 1
    BY <1>1 DEF TypeOK
  <1> QED BY <1>1, <1>7, <1>8, Zenon DEF TypeOK

(* Every variable keeps its type, and no node is ahead of the log.         *)
THEOREM TypeCorrect == Spec => []TypeOK
  BY TypeInit, TypeStep, PTL DEF Spec

-----------------------------------------------------------------------------
(* Addresses.                                                              *)

LEMMA DistinctStep == TypeOK /\ AddressesDistinct /\ [Next]_vars => AddressesDistinct'
  <1> SUFFICES ASSUME TypeOK, AddressesDistinct, [Next]_vars PROVE AddressesDistinct'
    BY Zenon
  <1>1. \A i \in 1..Len(states') : Distinct(states'[i].members)
    <2>1. CASE states' = states
      BY Zenon, <2>1 DEF AddressesDistinct
    <2>2. ASSUME NEW s \in State, Follows(Last, s), states' = Append(states, s)
          PROVE  \A i \in 1..Len(states') : Distinct(states'[i].members)
      <3>1. Distinct(s.members)
        BY <2>2, LastType DEF AddressesDistinct, Follows, Last
      <3> QED BY <2>2, <3>1, LastType DEF AddressesDistinct, TypeOK
    <2> QED BY Zenon, <2>1, <2>2, LogStep
  <1>2. ASSUME NEW n \in Node PROVE Distinct(view'[n].members)
    <2>1. CASE view' = view
      BY Zenon, <2>1 DEF AddressesDistinct
    <2>2. ASSUME NEW m \in Node, OnApply(m) PROVE Distinct(view'[n].members)
      BY Zenon, <2>2 DEF OnApply, Adopt, AddressesDistinct, TypeOK
    <2>3. ASSUME NEW m \in Node, Restart(m) PROVE Distinct(view'[n].members)
      BY Zenon, <2>3, FileAssumption DEF Restart, Configured, AddressesDistinct, TypeOK
    <2> QED
      BY Zenon, <2>1, <2>2, <2>3 DEF Next, vars, Propose, SeedLook, SeedPropose, SeedFails, Apply, Elect
  <1> QED BY Zenon, <1>1, <1>2 DEF AddressesDistinct

(* No two members ever share an address, in the log or in a view.          *)
THEOREM AddressesStayDistinct == Spec => []AddressesDistinct
  <1>1. Init => AddressesDistinct
    BY FileAssumption
    DEF Init, AddressesDistinct, EmptyState, NoMembers, Distinct, Configured
  <1> QED BY <1>1, DistinctStep, TypeCorrect, PTL DEF Spec

-----------------------------------------------------------------------------
(* The epoch and the generations along the log.                            *)

(* The generations along the log never fall.                               *)
GensAlongLog ==
    \A i, j \in 1..Len(states) : i <= j =>
        states[i].pgen <= states[j].pgen /\ states[i].sgen <= states[j].sgen

LEMMA TokenAppend ==
  ASSUME TypeOK, EpochIsToken, NEW s \in State, Follows(Last, s), states' = Append(states, s)
  PROVE  EpochIsToken'
  <1> DEFINE l == Len(states)
  <1>1. l \in Nat /\ l >= 1 /\ Len(states') = l + 1 /\ states'[l + 1] = s /\ Last = states[l]
    BY LastType DEF TypeOK, Last
  <1>2. \A i \in 1..l : states'[i] = states[i] /\ states[i] \in State
    BY <1>1 DEF TypeOK
  <1>3. \A i \in 1..(l + 1) : states'[i] \in State
    BY <1>1, <1>2
  <1> DEFINE Token(i, j) ==
        /\ states'[i].epoch <= states'[j].epoch
        /\ states'[i].epoch = states'[j].epoch <=> \A k \in i..j : SameRing(states'[i], states'[k])
  <1>4. ASSUME NEW i \in 1..l, NEW j \in 1..l, i <= j PROVE Token(i, j)
    <2>1. \A k \in i..j : states'[k] = states[k]
      BY <1>1, <1>2
    <2> QED BY <1>1, <1>2, <1>4, <2>1, ZenonT(40) DEF EpochIsToken
  <1>5. ASSUME NEW i \in 1..l PROVE Token(i, l + 1)
    <2>1. Token(i, l)
      BY <1>1, <1>4
    <2>2. /\ states[l].epoch \in Nat /\ s.epoch \in Nat /\ states[i].epoch \in Nat
          /\ s.epoch = IF SameRing(states[l], s) THEN states[l].epoch ELSE states[l].epoch + 1
      <3>1. states[l] \in State /\ states[i] \in State
        BY <1>1, <1>2
      <3>2. s.epoch = IF SameRing(states[l], s) THEN states[l].epoch ELSE states[l].epoch + 1
        BY <1>1, Zenon DEF Follows
      <3> QED BY Zenon, <3>1, <3>2, Counts
    <2>3. (\A k \in i..(l + 1) : SameRing(states'[i], states'[k]))
            <=> (\A k \in i..l : SameRing(states'[i], states'[k])) /\ SameRing(states'[i], s)
      BY <1>1
    <2>4. SameRing(states'[i], states'[l]) => (SameRing(states'[i], s) <=> SameRing(states[l], s))
      BY <1>1, <1>2 DEF SameRing
    <2>5. l \in i..l
      BY <1>1
    <2> QED BY <1>1, <1>2, <2>1, <2>2, <2>3, <2>4, <2>5, SMTT(30)
  <1>6. Token(l + 1, l + 1)
    <2>1. s.epoch \in Nat
      BY Zenon DEF State
    <2>2. \A k \in (l + 1)..(l + 1) : k = l + 1
      BY <1>1
    <2> QED BY <1>1, <2>1, <2>2 DEF SameRing
  <1>7. ASSUME NEW i \in 1..(l + 1), NEW j \in 1..(l + 1), i <= j PROVE Token(i, j)
    <2>1. (i \in 1..l /\ j \in 1..l) \/ (i \in 1..l /\ j = l + 1) \/ (i = l + 1 /\ j = l + 1)
      BY <1>1, <1>7
    <2> HIDE DEF Token
    <2> QED BY Zenon, <2>1, <1>4, <1>5, <1>6, <1>7
  <1> QED BY Zenon, <1>1, <1>7 DEF EpochIsToken

LEMMA TokenStep == TypeOK /\ EpochIsToken /\ [Next]_vars => EpochIsToken'
  <1> SUFFICES ASSUME TypeOK, EpochIsToken, [Next]_vars PROVE EpochIsToken'
    BY Zenon
  <1>1. CASE states' = states
    BY <1>1 DEF EpochIsToken
  <1> QED BY Zenon, <1>1, LogStep, TokenAppend

(* Two states of the log have one epoch exactly when no tenant could have  *)
(* moved between them.                                                     *)
THEOREM EpochsFenceMoves == Spec => []EpochIsToken
  <1>1. Init => EpochIsToken
    <2> SUFFICES ASSUME Init PROVE EpochIsToken
      BY Zenon
    <2>1. Len(states) = 1 /\ states[1] = EmptyState
      BY Zenon DEF Init
    <2>2. EmptyState.epoch = 0
      BY Zenon DEF EmptyState
    <2> QED BY <2>1, <2>2 DEF EpochIsToken, SameRing
  <1> QED BY <1>1, TokenStep, TypeCorrect, PTL DEF Spec

LEMMA GensAlongLogStep == TypeOK /\ GensAlongLog /\ [Next]_vars => GensAlongLog'
  <1> SUFFICES ASSUME TypeOK, GensAlongLog, [Next]_vars PROVE GensAlongLog'
    BY Zenon
  <1>1. CASE states' = states
    BY Zenon, <1>1 DEF GensAlongLog
  <1>2. ASSUME NEW s \in State, Follows(Last, s), states' = Append(states, s) PROVE GensAlongLog'
    <2> DEFINE l == Len(states)
    <2>1. l \in Nat /\ l >= 1 /\ Len(states') = l + 1 /\ states'[l + 1] = s /\ Last = states[l]
      BY <1>2, LastType DEF TypeOK, Last
    <2>2. \A i \in 1..l : states'[i] = states[i] /\ states[i] \in State
      BY <1>2, <2>1 DEF TypeOK
    <2>3. \A i \in 1..l : /\ states[i].pgen \in Nat /\ states[i].sgen \in Nat
                          /\ states[i].pgen <= states[l].pgen /\ states[i].sgen <= states[l].sgen
      BY <2>1, <2>2 DEF GensAlongLog, State
    <2>4. /\ s.pgen \in Nat /\ s.sgen \in Nat
          /\ states[l].pgen <= s.pgen /\ states[l].sgen <= s.sgen
      BY Zenon, <1>2, <2>1 DEF Follows, State
    <2>5. \A i \in 1..l : states'[i].pgen <= s.pgen /\ states'[i].sgen <= s.sgen
      BY <2>1, <2>2, <2>3, <2>4
    <2> QED BY <2>1, <2>2, <2>4, <2>5 DEF GensAlongLog
  <1> QED BY Zenon, <1>1, <1>2, LogStep

(* The states of the log stay where they are.                              *)
LEMMA LogPrefix ==
  ASSUME TypeOK, [Next]_vars
  PROVE  \A i \in 1..Len(states) : states'[i] = states[i]
  <1>1. CASE states' = states
    BY Zenon, <1>1
  <1>2. ASSUME NEW s \in State, states' = Append(states, s)
        PROVE  \A i \in 1..Len(states) : states'[i] = states[i]
    BY <1>2 DEF TypeOK
  <1> QED BY Zenon, <1>1, <1>2, LogStep

-----------------------------------------------------------------------------
(* What a node carries.                                                    *)

(* A node never carries more than the state it has applied.                *)
GensBehind ==
    \A n \in Node : /\ gens[n].policy <= states[at[n]].pgen
                    /\ gens[n].store <= states[at[n]].sgen

(* The log starts from nothing.                                            *)
FromNothing == states[1] = EmptyState

GensInv == TypeOK /\ FromNothing /\ GensAlongLog /\ GensNotHeldBack /\ GensBehind

LEMMA GensStep == GensInv /\ [Next]_vars => GensInv'
  <1> SUFFICES ASSUME GensInv, [Next]_vars PROVE GensInv'
    BY Zenon
  <1> TypeOK
    BY Zenon DEF GensInv
  <1>0. FromNothing'
    BY LogPrefix, LastType DEF GensInv, FromNothing
  <1>1. TypeOK' /\ GensAlongLog'
    BY Zenon, TypeStep, GensAlongLogStep DEF GensInv
  <1>2. \A i \in 1..Len(states) : states'[i] = states[i] /\ states[i] \in State
    BY LogPrefix DEF TypeOK
  <1> DEFINE Carries(n) ==
        /\ told'[n] => gens'[n] = [policy |-> states'[at'[n]].pgen, store |-> states'[at'[n]].sgen]
        /\ gens'[n].policy <= states'[at'[n]].pgen /\ gens'[n].store <= states'[at'[n]].sgen
  <1>3. ASSUME NEW n \in Node, at'[n] = at[n], told'[n] = told[n], gens'[n] = gens[n]
        PROVE  Carries(n)
    <2>1. states'[at[n]] = states[at[n]]
      BY Zenon, <1>2 DEF TypeOK
    <2> QED BY Zenon, <1>3, <2>1 DEF GensInv, GensNotHeldBack, GensBehind
  <1>4. ASSUME NEW n \in Node, NEW m \in Node, Apply(m) PROVE Carries(n)
    <2>1. CASE m # n
      BY Zenon, <1>3, <1>4, <2>1 DEF Apply, TypeOK
    <2>2. CASE m = n
      <3>1. PICK i \in (at[n] + 1)..Len(states) : at'[n] = i
        BY Zenon, <1>4, <2>2 DEF Apply, TypeOK
      <3>2. at[n] \in 1..Len(states) /\ i \in 1..Len(states) /\ at[n] <= i
        BY LastType DEF TypeOK
      <3>3. states[at[n]].pgen <= states[i].pgen /\ states[at[n]].sgen <= states[i].sgen
        BY Zenon, <3>2 DEF GensInv, GensAlongLog
      <3>4. gens[n].policy <= states[at[n]].pgen /\ gens[n].store <= states[at[n]].sgen
        BY Zenon DEF GensInv, GensBehind
      <3>5. /\ gens[n].policy \in Nat /\ gens[n].store \in Nat
            /\ states[i].pgen \in Nat /\ states[i].sgen \in Nat
            /\ states[at[n]].pgen \in Nat /\ states[at[n]].sgen \in Nat
        BY Zenon, <1>2, <3>2 DEF TypeOK, State
      <3>6. gens[n].policy <= states[i].pgen /\ gens[n].store <= states[i].sgen
        BY <3>3, <3>4, <3>5, SMTT(30)
      <3>7. gens' = gens /\ ~told'[n] /\ states'[i] = states[i]
        BY Zenon, <1>2, <1>4, <2>2, <3>2 DEF Apply, TypeOK
      <3> QED BY Zenon, <3>1, <3>6, <3>7
    <2> QED BY Zenon, <2>1, <2>2
  <1>5. ASSUME NEW n \in Node, NEW m \in Node, OnApply(m) PROVE Carries(n)
    <2>1. CASE m # n
      BY Zenon, <1>3, <1>5, <2>1 DEF OnApply, TypeOK
    <2>2. CASE m = n
      <3>1. /\ gens'[n] = [policy |-> states[at[n]].pgen, store |-> states[at[n]].sgen]
            /\ at'[n] = at[n] /\ states' = states
        BY Zenon, <1>5, <2>2 DEF OnApply, TypeOK
      <3>2. PICK x \in Nat, y \in Nat : x = states[at[n]].pgen /\ y = states[at[n]].sgen
        <4>1. states[at[n]] \in State
          BY DEF TypeOK
        <4> QED BY Zenon, <4>1, Counts
      <3>3. gens'[n] = [policy |-> x, store |-> y]
        BY Zenon, <3>1, <3>2
      <3>4. gens'[n].policy <= x /\ gens'[n].store <= y
        BY <3>3
      <3> QED BY Zenon, <3>1, <3>2, <3>4
    <2> QED BY Zenon, <2>1, <2>2
  <1>6. ASSUME NEW n \in Node, NEW m \in Node, Restart(m) PROVE Carries(n)
    <2>1. CASE m # n
      BY Zenon, <1>3, <1>6, <2>1 DEF Restart, TypeOK
    <2>2. CASE m = n
      <3>1. states' = states /\ at'[n] = 1 /\ gens'[n] = NoGens
        BY Zenon, <1>6, <2>2 DEF Restart, TypeOK
      <3>2. states[1].pgen = 0 /\ states[1].sgen = 0
        BY DEF GensInv, FromNothing, EmptyState
      <3> QED BY <3>1, <3>2 DEF NoGens
    <2> QED BY Zenon, <2>1, <2>2
  <1>7. ASSUME NEW n \in Node PROVE Carries(n)
    <2>1. CASE \E m \in Node : Apply(m) \/ OnApply(m) \/ Restart(m)
      <3> HIDE DEF Carries
      <3> QED BY Zenon, <2>1, <1>4, <1>5, <1>6
    <2>2. CASE UNCHANGED <<at, told, gens>>
      BY Zenon, <1>3, <2>2
    <2> QED
      BY Zenon, <2>1, <2>2 DEF Next, vars, Propose, SeedLook, SeedPropose, SeedFails, Elect
  <1> QED BY Zenon, <1>0, <1>1, <1>7 DEF GensInv, GensNotHeldBack, GensBehind

LEMMA GensInit == Init => GensInv
  <1> SUFFICES ASSUME Init PROVE GensInv
    BY Zenon
  <1>1. Len(states) = 1 /\ states[1] = EmptyState
    BY Zenon DEF Init
  <1>2. EmptyState.pgen = 0 /\ EmptyState.sgen = 0
    BY Zenon DEF EmptyState
  <1>3. \A n \in Node : at[n] = 1 /\ gens[n] = NoGens
    BY Zenon DEF Init
  <1>4. GensAlongLog
    BY <1>1, <1>2 DEF GensAlongLog
  <1> QED
    BY TypeInit, <1>1, <1>2, <1>3, <1>4, SMTT(30)
    DEF GensInv, FromNothing, GensNotHeldBack, GensBehind, NoGens

(* A node carries the generations of the state it was told of, member or   *)
(* not.                                                                    *)
THEOREM GensReachEveryNode == Spec => []GensNotHeldBack
  <1>1. GensInv => GensNotHeldBack
    BY Zenon DEF GensInv
  <1> QED BY <1>1, GensInit, GensStep, PTL DEF Spec

(* A node's generations fall only when it restarts.                        *)
THEOREM GensNeverFall == Spec => GensAscend
  <1> DEFINE Ascends == \A n \in Node :
        \/ gens'[n].policy >= gens[n].policy /\ gens'[n].store >= gens[n].store
        \/ at'[n] = 1
  <1>1. GensInv /\ [Next]_vars => Ascends
    <2> SUFFICES ASSUME GensInv, [Next]_vars, NEW n \in Node
                 PROVE  \/ gens'[n].policy >= gens[n].policy /\ gens'[n].store >= gens[n].store
                        \/ at'[n] = 1
      BY Zenon
    <2> TypeOK
      BY Zenon DEF GensInv
    <2>0. gens[n].policy \in Nat /\ gens[n].store \in Nat
      BY Zenon DEF TypeOK
    <2>1. CASE gens'[n] = gens[n]
      BY <2>0, <2>1
    <2>2. ASSUME NEW m \in Node, OnApply(m), gens'[n] # gens[n]
          PROVE  gens'[n].policy >= gens[n].policy /\ gens'[n].store >= gens[n].store
      <3>1. gens'[n] = [policy |-> states[at[n]].pgen, store |-> states[at[n]].sgen]
        BY Zenon, <2>2 DEF OnApply, TypeOK
      <3>2. PICK x \in Nat, y \in Nat : x = states[at[n]].pgen /\ y = states[at[n]].sgen
        <4>1. states[at[n]] \in State
          BY DEF TypeOK
        <4> QED BY Zenon, <4>1, Counts
      <3>3. gens'[n].policy = x /\ gens'[n].store = y
        BY <3>1, <3>2
      <3>4. gens[n].policy <= x /\ gens[n].store <= y
        BY Zenon, <3>2 DEF GensInv, GensBehind
      <3> QED BY Zenon, <2>0, <3>3, <3>4
    <2>3. ASSUME NEW m \in Node, Restart(m), gens'[n] # gens[n] PROVE at'[n] = 1
      BY Zenon, <2>3 DEF Restart, TypeOK
    <2> QED
      BY Zenon, <2>1, <2>2, <2>3
      DEF Next, vars, Propose, SeedLook, SeedPropose, SeedFails, Apply, Elect
  <1>2. GensInv /\ [Next]_vars => [Ascends]_vars
    BY Zenon, <1>1
  <1> QED BY <1>2, GensInit, GensStep, PTL DEF Spec, GensAscend

-----------------------------------------------------------------------------
(* Seeding and routing.                                                    *)

(* A seed never replaces members the log has.                              *)
THEOREM SeedsNeverOverride == Spec => SeedNeverOverrides
  <1> DEFINE Respects == \A n \in Node :
        seed[n] = "proposing" /\ seed'[n] = "waiting" /\ states' # states
          => Last.members = NoMembers
  <1>1. TypeOK /\ [Next]_vars => Respects
    <2> SUFFICES ASSUME TypeOK, [Next]_vars, NEW n \in Node,
                        seed[n] = "proposing", seed'[n] = "waiting", states' # states
                 PROVE  Last.members = NoMembers
      BY Zenon
    <2>1. PICK m \in Node : SeedPropose(m)
      BY Zenon DEF Next, vars, Propose, SeedLook, SeedFails, Apply, OnApply, Restart, Elect
    <2>2. Commit(SeedRing(Last, File[m], VNodes))
      BY Zenon, <2>1 DEF SeedPropose
    <2> QED BY Zenon, <2>2 DEF Commit, SeedRing
  <1>2. TypeOK /\ [Next]_vars => [Respects]_vars
    BY Zenon, <1>1
  <1> QED BY <1>2, TypeCorrect, PTL DEF Spec, SeedNeverOverrides

LEMMA RoutesStep == TypeOK /\ FromNothing /\ RoutesByNewest /\ [Next]_vars => RoutesByNewest'
  <1> SUFFICES ASSUME TypeOK, FromNothing, RoutesByNewest, [Next]_vars, NEW n \in Node
               PROVE  /\ Has(view'[n], n)
                      /\ told'[n] /\ Has(states'[at'[n]], n) => view'[n] = states'[at'[n]]
                      /\ \/ view'[n] = Configured(File[n], VNodes)
                         \/ \E i \in 1..at'[n] : view'[n] = states'[i]
    BY Zenon DEF RoutesByNewest
  <1> DEFINE Routes == /\ Has(view'[n], n)
                       /\ told'[n] /\ Has(states'[at'[n]], n) => view'[n] = states'[at'[n]]
                       /\ \/ view'[n] = Configured(File[n], VNodes)
                          \/ \E i \in 1..at'[n] : view'[n] = states'[i]
  <1>1. \A i \in 1..at[n] : states'[i] = states[i]
    <2>1. Len(states) \in Nat /\ at[n] \in 1..Len(states)
      BY Zenon, LastType DEF TypeOK
    <2> QED BY <2>1, LogPrefix
  <1>2. at[n] \in 1..at[n] /\ at[n] \in Nat
    BY DEF TypeOK
  <1>3. ASSUME at'[n] = at[n], told'[n] = told[n], view'[n] = view[n] PROVE Routes
    BY Zenon, <1>1, <1>2, <1>3 DEF RoutesByNewest
  <1>4. ASSUME NEW m \in Node, Apply(m) PROVE Routes
    <2>1. CASE m # n
      BY Zenon, <1>3, <1>4, <2>1 DEF Apply, TypeOK
    <2>2. CASE m = n
      <3>1. view' = view /\ ~told'[n] /\ states' = states
        BY Zenon, <1>4, <2>2 DEF Apply, TypeOK
      <3>2. at'[n] \in Nat /\ at'[n] >= at[n]
        BY <1>4, <2>2 DEF Apply, TypeOK
      <3>3. \A i \in 1..at[n] : i \in 1..at'[n]
        BY <1>2, <3>2
      <3> QED BY Zenon, <3>1, <3>3 DEF RoutesByNewest
    <2> QED BY Zenon, <2>1, <2>2
  <1>5. ASSUME NEW m \in Node, OnApply(m) PROVE Routes
    <2>1. CASE m # n
      BY Zenon, <1>3, <1>5, <2>1 DEF OnApply, Adopt, TypeOK
    <2>2. CASE m = n
      <3>1. /\ states' = states /\ at' = at
            /\ view'[n] = IF Has(states[at[n]], n) THEN states[at[n]] ELSE view[n]
        BY Zenon, <1>5, <2>2 DEF OnApply, Adopt, TypeOK
      <3> QED BY Zenon, <1>2, <3>1 DEF RoutesByNewest
    <2> QED BY Zenon, <2>1, <2>2
  <1>6. ASSUME NEW m \in Node, Restart(m) PROVE Routes
    <2>1. CASE m # n
      BY Zenon, <1>3, <1>6, <2>1 DEF Restart, TypeOK
    <2>2. CASE m = n
      <3>1. /\ states' = states /\ at'[n] = 1
            /\ view'[n] = Configured(File[n], VNodes)
        BY Zenon, <1>6, <2>2 DEF Restart, TypeOK
      <3>2. Has(Configured(File[n], VNodes), n)
        BY Zenon, FileAssumption DEF Has, Configured
      <3>3. ~Has(states[1], n)
        BY FileAssumption DEF FromNothing, EmptyState, Has, NoMembers
      <3> QED BY Zenon, <3>1, <3>2, <3>3
    <2> QED BY Zenon, <2>1, <2>2
  <1>7. CASE \E m \in Node : Apply(m) \/ OnApply(m) \/ Restart(m)
    <2> HIDE DEF Routes
    <2>1. Routes
      BY Zenon, <1>4, <1>5, <1>6, <1>7
    <2> QED BY Zenon, <2>1 DEF Routes
  <1>8. CASE UNCHANGED <<at, told, view>>
    BY Zenon, <1>3, <1>8
  <1> QED
    BY Zenon, <1>7, <1>8 DEF Next, vars, Propose, SeedLook, SeedPropose, SeedFails, Elect

(* A node routes by a membership it is in, the newest it was told of.      *)
THEOREM RoutingFollowsTheLog == Spec => []RoutesByNewest
  <1>1. Init => RoutesByNewest
    <2> SUFFICES ASSUME Init, NEW n \in Node
                 PROVE  /\ Has(view[n], n)
                        /\ told[n] /\ Has(states[at[n]], n) => view[n] = states[at[n]]
                        /\ \/ view[n] = Configured(File[n], VNodes)
                           \/ \E i \in 1..at[n] : view[n] = states[i]
      BY Zenon DEF RoutesByNewest
    <2>1. view[n] = Configured(File[n], VNodes) /\ states[at[n]] = EmptyState
      BY Zenon DEF Init
    <2>2. Has(view[n], n)
      BY <2>1, FileAssumption DEF Has, Configured
    <2>3. ~Has(states[at[n]], n)
      <3>1. NoMembers[n] = NoAddr
        BY Zenon, FileAssumption DEF NoMembers
      <3> QED BY <2>1, <3>1 DEF Has, EmptyState
    <2> QED BY Zenon, <2>1, <2>2, <2>3
  <1>2. GensInv => TypeOK /\ FromNothing
    BY Zenon DEF GensInv
  <1> QED BY <1>1, <1>2, GensInit, GensStep, RoutesStep, PTL DEF Spec

-----------------------------------------------------------------------------
(* The counter script.                                                     *)


(* A key outlives what it says: a bucket is forgotten only when it is full *)
(* again, a log only when its members have left the window.                *)
DiesInTime ==
    /\ bucket.tat <= Milli * (bucket.dies + 1)
    /\ \A m \in window.log : m[1] + Period <= Milli * (window.dies + 1)

(* The log has every admitted unit that is still in the window.            *)
LogComplete ==
    /\ window.log \subseteq admitted
    /\ \A u \in admitted : u[1] > now - Period => u \in window.log

(* The units of one instant are numbered from one.                         *)
Numbered ==
    \A u \in admitted : u[2] \in 1..Cardinality({v \in admitted : v[1] = u[1]})

(* The arrival time is ahead of every earlier instant by what has been     *)
(* admitted since, and never further ahead than the burst.                 *)
ArrivalPays ==
    /\ bucket.tat <= now + Tolerance
    /\ \A s \in 0..now : s + Emission * Between(s, now) <= Greatest(bucket.tat, now)

RateHolds ==
    \A s, t \in 0..now : s <= t => Emission * Between(s, t) <= Tolerance + (t - s)

ScriptInv ==
    /\ ScriptTypeOK
    /\ IsFiniteSet(admitted)
    /\ \A u \in admitted : u[1] <= now
    /\ DiesInTime
    /\ LogComplete
    /\ Numbered
    /\ ArrivalPays
    /\ RateHolds
    /\ WindowExact

-----------------------------------------------------------------------------
(* Arithmetic.                                                             *)

LEMMA Division ==
    ASSUME NEW a \in Int, NEW b \in Nat \ {0}
    PROVE  /\ a \div b \in Int
           /\ b * (a \div b) <= a
           /\ a < b * (a \div b) + b
  OBVIOUS

LEMMA TimesMonotone ==
    ASSUME NEW n \in Nat, NEW a \in Int, NEW b \in Int, a <= b
    PROVE  n * a \in Int /\ n * b \in Int /\ n * a <= n * b
  <1>1. n * (b - a) >= 0
    OBVIOUS
  <1> QED BY <1>1

LEMMA CeilDivBounds ==
    ASSUME NEW a \in Nat, NEW b \in Nat \ {0}
    PROVE  /\ CeilDiv(a, b) \in Nat
           /\ a <= b * CeilDiv(a, b)
           /\ a > 0 => CeilDiv(a, b) > 0
  <1> DEFINE q == (a + b - 1) \div b
  <1>1. a + b - 1 \in Int
    OBVIOUS
  <1>2. q \in Int /\ b * q <= a + b - 1 /\ a + b - 1 < b * q + b
    BY Zenon, <1>1, Division
  <1> HIDE DEF q
  <1>3. a <= b * q
    BY <1>2
  <1>4. q >= 0
    <2>1. b * q >= 0
      BY <1>2, <1>3
    <2> QED BY <1>2, <2>1
  <1>5. a > 0 => q > 0
    <2>1. q = 0 => b * q = 0
      OBVIOUS
    <2> QED BY <1>2, <1>3, <1>4, <2>1
  <1>6. CeilDiv(a, b) = q
    BY Zenon DEF CeilDiv, q
  <1> QED BY <1>2, <1>3, <1>4, <1>5, <1>6

(* What the limits are made of.                                            *)
LEMMA LimitParts ==
    /\ Emission \in Nat \ {0} /\ Capacity \in Nat \ {0} /\ Tolerance \in Nat
    /\ Tolerance = Emission * Capacity
    /\ BucketPeriod <= BucketCount * Emission
  <1>1. Emission \in Nat \ {0} /\ BucketPeriod <= BucketCount * Emission
    BY CeilDivBounds, LimitsAssumption DEF Emission
  <1>2. Capacity \in Nat \ {0}
    BY LimitsAssumption DEF Capacity
  <1> QED BY <1>1, <1>2 DEF Tolerance

LEMMA CostParts ==
    ASSUME NEW c \in Costs
    PROVE  /\ c \in Nat \ {0} /\ c <= Capacity /\ c <= Count
           /\ Emission * c \in Nat /\ Emission * c <= Tolerance
  <1>1. c \in Nat \ {0} /\ c <= Capacity /\ c <= Count
    BY LimitParts, LimitsAssumption DEF Costs, Least
  <1>2. Emission * c \in Nat /\ Emission * c <= Emission * Capacity
    BY <1>1, LimitParts
  <1> QED BY Zenon, <1>1, <1>2, LimitParts

-----------------------------------------------------------------------------
(* The keys and their expiry.                                              *)

LEMMA GoneLate ==
    ASSUME NEW t \in Nat, NEW d \in Int, Ms(t) > d
    PROVE  Milli * (d + 1) <= t
  <1>1. Milli \in Nat \ {0}
    BY Zenon, LimitsAssumption
  <1>2. Ms(t) \in Int /\ Milli * Ms(t) <= t
    BY <1>1, Division DEF Ms
  <1>3. d + 1 <= Ms(t) /\ d + 1 \in Int
    BY <1>2
  <1>4. Milli * (d + 1) \in Int /\ Milli * (d + 1) <= Milli * Ms(t)
    BY Zenon, <1>1, <1>2, <1>3, TimesMonotone
  <1>5. Milli * Ms(t) \in Int
    BY <1>1, <1>2
  <1> QED BY <1>2, <1>4, <1>5

LEMMA DeadlineLate ==
    ASSUME now \in Nat, NEW x \in Nat
    PROVE  /\ Deadline(Ttl(x)) \in Int
           /\ now + x <= Milli * (Deadline(Ttl(x)) + 1)
  <1> DEFINE q == Ms(now)
             u == Ttl(x)
  <1>1. Milli \in Nat \ {0}
    BY Zenon, LimitsAssumption
  <1>2. q \in Int /\ now < Milli * q + Milli
    BY <1>1, Division DEF Ms
  <1>3. CeilDiv(x, Milli) \in Nat /\ x <= Milli * CeilDiv(x, Milli)
    BY Zenon, <1>1, CeilDivBounds
  <1>4. u \in Nat /\ CeilDiv(x, Milli) <= u
    BY <1>3 DEF Ttl, Greatest
  <1>5. Milli * CeilDiv(x, Milli) <= Milli * u
    BY <1>1, <1>3, <1>4, TimesMonotone
  <1>6. Deadline(Ttl(x)) = q + u
    BY Zenon DEF Deadline
  <1> HIDE DEF q, u
  <1>7. Milli * (q + u + 1) = Milli * q + Milli * u + Milli
    BY <1>1, <1>2, <1>4
  <1>8. Milli * CeilDiv(x, Milli) \in Nat /\ Milli * u \in Nat /\ Milli * q \in Int
    BY <1>1, <1>2, <1>3, <1>4
  <1>9. x <= Milli * u
    BY <1>3, <1>5, <1>8
  <1> QED BY <1>1, <1>2, <1>4, <1>6, <1>7, <1>8, <1>9

(* "An absent key and a full bucket are the same state."                   *)
LEMMA TatIs ==
    ASSUME ScriptTypeOK, DiesInTime, NEW t \in Nat
    PROVE  Tat(t) = Greatest(bucket.tat, t)
  <1>1. bucket.tat \in Nat /\ bucket.dies \in Int
    BY Zenon DEF ScriptTypeOK
  <1>2. CASE Gone(bucket, t)
    <2>1. Milli * (bucket.dies + 1) <= t
      BY Zenon, <1>1, <1>2, GoneLate DEF Gone
    <2>2. Milli * (bucket.dies + 1) \in Int
      BY <1>1, LimitsAssumption
    <2>3. bucket.tat <= t
      BY <1>1, <2>1, <2>2 DEF DiesInTime
    <2> QED BY <1>1, <1>2, <2>3 DEF Tat, Greatest
  <1>3. CASE ~Gone(bucket, t)
    BY Zenon, <1>3 DEF Tat
  <1> QED BY Zenon, <1>2, <1>3

(* The log of a window that has not been forgotten, pruned, or of one that *)
(* has, holds the admitted units of the last Period.                       *)
LEMMA LiveIs ==
    ASSUME ScriptTypeOK, DiesInTime, LogComplete, NEW t \in Nat, now <= t
    PROVE  Live(t) = {u \in admitted : u[1] > t - Period}
  <1>1. now \in Nat /\ window.dies \in Int /\ Period \in Nat /\ Milli \in Nat
        /\ \A u \in admitted : u[1] \in Nat
    BY Zenon, LimitsAssumption DEF ScriptTypeOK
  <1>2. \A u \in admitted : u[1] > t - Period => u \in window.log
    BY <1>1 DEF LogComplete
  <1>3. CASE Gone(window, t)
    <2>1. Milli * (window.dies + 1) <= t
      BY Zenon, <1>1, <1>3, GoneLate DEF Gone
    <2>2. Milli * (window.dies + 1) \in Int
      BY <1>1
    <2>3. \A m \in window.log : m[1] + Period <= t
      BY <1>1, <2>1, <2>2 DEF DiesInTime, LogComplete
    <2>4. \A u \in admitted : ~(u[1] > t - Period)
      BY <1>1, <1>2, <2>3
    <2> QED BY Zenon, <1>3, <2>4 DEF Live
  <1>4. CASE ~Gone(window, t)
    <2>1. Live(t) = {m \in window.log : m[1] > t - Period}
      BY Zenon, <1>4 DEF Live
    <2> QED BY Zenon, <1>2, <2>1 DEF LogComplete
  <1> QED BY Zenon, <1>3, <1>4

-----------------------------------------------------------------------------
(* Counting units.                                                         *)

LEMMA BetweenType ==
    ASSUME IsFiniteSet(admitted), NEW s, NEW t
    PROVE  Between(s, t) \in Nat
  <1> DEFINE B == {u \in admitted : s <= u[1] /\ u[1] <= t}
  <1>1. B \in SUBSET admitted
    BY Zenon
  <1> QED BY Zenon, <1>1, FS_Subset, FS_CardinalityType DEF Between

LEMMA NewUnits ==
    ASSUME NEW t \in Nat, NEW n \in Nat, NEW c \in Nat
    PROVE  LET new == {t} \X ((n + 1)..(n + c))
           IN  /\ IsFiniteSet(new) /\ Cardinality(new) = c
               /\ new \subseteq Nat \X Nat
               /\ \A u \in new : u[1] = t /\ u[2] \in (n + 1)..(n + c)
  <1> DEFINE I == (n + 1)..(n + c)
  <1>1. IsFiniteSet(I) /\ Cardinality(I) = c
    <2>1. n + 1 \in Int /\ n + c \in Int
      OBVIOUS
    <2>2. IsFiniteSet(I) /\ Cardinality(I) = IF n + 1 > n + c THEN 0 ELSE (n + c) - (n + 1) + 1
      BY Zenon, <2>1, FS_Interval
    <2> QED BY <2>2
  <1>2. IsFiniteSet({t}) /\ Cardinality({t}) = 1
    BY Zenon, FS_Singleton
  <1>4. I \subseteq Nat
    OBVIOUS
  <1> HIDE DEF I
  <1>3. IsFiniteSet({t} \X I) /\ Cardinality({t} \X I) = 1 * c
    <2>1. IsFiniteSet({t} \X I) /\ Cardinality({t} \X I) = Cardinality({t}) * Cardinality(I)
      BY Zenon, <1>1, <1>2, FS_Product
    <2> QED BY Zenon, <1>1, <1>2, <2>1
  <1>5. {t} \X I \subseteq Nat \X Nat /\ \A u \in {t} \X I : u[1] = t /\ u[2] \in I
    BY Zenon, <1>4
  <1> QED BY <1>3, <1>5 DEF I

(* Adding a set of units adds at most its size.                            *)
LEMMA UnionBound ==
    ASSUME NEW A, NEW B, IsFiniteSet(A), IsFiniteSet(B)
    PROVE  /\ IsFiniteSet(A \cup B)
           /\ Cardinality(A) \in Nat /\ Cardinality(B) \in Nat
           /\ Cardinality(A \cup B) \in Nat
           /\ Cardinality(A \cup B) <= Cardinality(A) + Cardinality(B)
           /\ A \cap B = {} => Cardinality(A \cup B) = Cardinality(A) + Cardinality(B)
  <1>1. IsFiniteSet(A \cup B)
        /\ Cardinality(A \cup B) = Cardinality(A) + Cardinality(B) - Cardinality(A \cap B)
    BY Zenon, FS_Union
  <1>2. IsFiniteSet(A \cap B)
    BY Zenon, FS_Intersection
  <1>3. Cardinality(A) \in Nat /\ Cardinality(B) \in Nat /\ Cardinality(A \cap B) \in Nat
        /\ Cardinality(A \cup B) \in Nat
    BY Zenon, <1>1, <1>2, FS_CardinalityType
  <1>4. A \cap B = {} => Cardinality(A \cap B) = 0
    BY Zenon, FS_EmptySet
  <1> QED BY <1>1, <1>3, <1>4

-----------------------------------------------------------------------------
(* The invariant.                                                          *)

Units(s, t) == {u \in admitted : s <= u[1] /\ u[1] <= t}

LEMMA UnitsCounted == \A s, t : Between(s, t) = Cardinality(Units(s, t))
  BY Zenon DEF Between, Units

LEMMA ScriptStarts == ScriptInit => ScriptInv
  <1> SUFFICES ASSUME ScriptInit PROVE ScriptInv
    BY Zenon
  <1>1. /\ now = 0 /\ admitted = {} /\ bucket = [tat |-> 0, dies |-> -1]
        /\ window = [log |-> {}, dies |-> -1]
    BY Zenon DEF ScriptInit
  <1>2. ScriptTypeOK /\ IsFiniteSet(admitted) /\ DiesInTime /\ LogComplete /\ Numbered
    BY <1>1, FS_EmptySet, LimitsAssumption DEF ScriptTypeOK, DiesInTime, LogComplete, Numbered
  <1>3. \A s, t : Between(s, t) = 0
    BY Zenon, <1>1, FS_EmptySet DEF Between
  <1>4. ArrivalPays
    BY <1>1, <1>3, LimitParts DEF ArrivalPays, Greatest
  <1>5. RateHolds
    <2>1. Emission * 0 = 0 /\ Tolerance \in Nat
      BY LimitParts
    <2> QED BY <1>1, <1>3, <2>1 DEF RateHolds
  <1>6. WindowExact
    BY <1>1, <1>3, LimitsAssumption DEF WindowExact
  <1> QED BY Zenon, <1>1, <1>2, <1>4, <1>5, <1>6 DEF ScriptInv

LEMMA TickKeeps ==
    ASSUME ScriptInv, Tick
    PROVE  ScriptInv'
  <1>1. now' = now + 1 /\ bucket' = bucket /\ window' = window /\ admitted' = admitted
    BY Zenon DEF Tick
  <1>2. /\ now \in Nat /\ bucket.tat \in Nat /\ Period \in Nat \ {0} /\ Tolerance \in Nat
        /\ Emission \in Nat /\ Count \in Nat
        /\ \A u \in admitted : u[1] \in Nat /\ u[1] <= now
    BY Zenon, LimitParts, LimitsAssumption DEF ScriptInv, ScriptTypeOK
  <1>3. ScriptTypeOK' /\ IsFiniteSet(admitted)' /\ DiesInTime' /\ Numbered'
    BY <1>1, <1>2 DEF ScriptInv, ScriptTypeOK, DiesInTime, Numbered
  <1>4. LogComplete' /\ \A u \in admitted' : u[1] <= now'
    BY <1>1, <1>2 DEF ScriptInv, LogComplete
  <1>5. \A s, t : Between(s, t)' = Between(s, t) /\ Between(s, t) \in Nat
    BY Zenon, <1>1, BetweenType DEF Between, ScriptInv
  <1>6. \A s \in Nat : Between(s, now + 1) = Between(s, now)
    <2> TAKE s \in Nat
    <2>1. Units(s, now + 1) = Units(s, now)
      BY <1>2 DEF Units
    <2> QED BY Zenon, <2>1, UnitsCounted
  <1>7. Between(now + 1, now + 1) = 0
    <2>1. Units(now + 1, now + 1) = {}
      BY <1>2 DEF Units
    <2> QED BY Zenon, <2>1, UnitsCounted, FS_EmptySet
  <1>8. \A s \in 0..now : s + Emission * Between(s, now + 1) <= Greatest(bucket.tat, now)
    BY <1>2, <1>6 DEF ScriptInv, ArrivalPays
  <1>9. ArrivalPays'
    <2>1. \A s \in 0..(now + 1) :
            s + Emission * Between(s, now + 1) <= Greatest(bucket.tat, now + 1)
      <3> TAKE s \in 0..(now + 1)
      <3>1. CASE s = now + 1
        <4>1. Emission * Between(s, now + 1) = 0
          BY <1>2, <1>7, <3>1
        <4> QED BY <1>2, <3>1, <4>1 DEF Greatest
      <3>2. CASE s # now + 1
        <4>1. s \in 0..now
          BY <1>2, <3>2
        <4>2. Emission * Between(s, now + 1) \in Nat
          BY <1>2, <1>5
        <4>3. s + Emission * Between(s, now + 1) <= Greatest(bucket.tat, now)
          BY Zenon, <1>8, <4>1
        <4> HIDE DEF Between
        <4> QED BY <1>2, <4>1, <4>2, <4>3 DEF Greatest
      <3> QED BY Zenon, <3>1, <3>2
    <2>2. bucket.tat <= now + 1 + Tolerance
      BY <1>2 DEF ScriptInv, ArrivalPays
    <2> QED BY Zenon, <1>1, <1>5, <2>1, <2>2 DEF ArrivalPays
  <1>10. RateHolds'
    <2> SUFFICES ASSUME NEW s \in 0..(now + 1), NEW t \in 0..(now + 1), s <= t
                 PROVE  Emission * Between(s, t) <= Tolerance + (t - s)
      BY Zenon, <1>1, <1>5 DEF RateHolds
    <2>1. CASE t # now + 1
      <3>1. s \in 0..now /\ t \in 0..now
        BY <1>2, <2>1
      <3> QED BY Zenon, <3>1 DEF ScriptInv, RateHolds
    <2>2. CASE t = now + 1 /\ s = now + 1
      <3>1. Emission * Between(s, t) = 0
        BY <1>2, <1>7, <2>2
      <3> QED BY <1>2, <2>2, <3>1
    <2>3. CASE t = now + 1 /\ s # now + 1
      <3>1. s \in 0..now /\ now \in 0..now /\ s <= now
        BY <1>2, <2>3
      <3>2. Emission * Between(s, now) <= Tolerance + (now - s)
        BY Zenon, <3>1 DEF ScriptInv, RateHolds
      <3>3. Between(s, t) = Between(s, now) /\ Emission * Between(s, now) \in Nat
        BY <1>2, <1>5, <1>6, <2>3
      <3> QED BY <1>2, <2>3, <3>1, <3>2, <3>3
    <2> QED BY Zenon, <2>1, <2>2, <2>3
  <1>11. WindowExact'
    <2> SUFFICES ASSUME NEW t \in 0..(now + 1)
                 PROVE  Between(t - Period + 1, t) <= Count
      BY Zenon, <1>1, <1>5 DEF WindowExact
    <2>1. CASE t # now + 1
      BY <1>2, <2>1 DEF ScriptInv, WindowExact
    <2>2. CASE t = now + 1
      <3>1. Units(t - Period + 1, t) \in SUBSET Units(now - Period + 1, now)
        BY <1>2, <2>2 DEF Units
      <3>2. IsFiniteSet(Units(now - Period + 1, now))
        BY Zenon, FS_Subset DEF Units, ScriptInv
      <3>3. Between(t - Period + 1, t) <= Between(now - Period + 1, now)
        BY Zenon, <3>1, <3>2, FS_Subset, UnitsCounted
      <3>4. Between(now - Period + 1, now) <= Count
        BY <1>2 DEF ScriptInv, WindowExact
      <3> QED BY <1>2, <1>5, <3>3, <3>4
    <2> QED BY Zenon, <2>1, <2>2
  <1> QED BY Zenon, <1>3, <1>4, <1>9, <1>10, <1>11 DEF ScriptInv

LEMMA CheckKeeps ==
    ASSUME ScriptInv, NEW c \in Costs, Allowed(now, c), Check(c)
    PROVE  ScriptInv'
  <1> DEFINE pruned == {u \in admitted : u[1] > now - Period}
             here == {u \in admitted : u[1] = now}
             n == Cardinality(here)
             new == {now} \X ((n + 1)..(n + c))
             ahead == Greatest(bucket.tat, now)
             tat == ahead + Emission * c
  <1>1. /\ now \in Nat /\ bucket.tat \in Nat /\ Period \in Nat \ {0} /\ Tolerance \in Nat
        /\ Emission \in Nat /\ Count \in Nat /\ IsFiniteSet(admitted)
        /\ admitted \subseteq Nat \X Nat
        /\ \A u \in admitted : u[1] \in Nat /\ u[2] \in Nat /\ u[1] <= now
        /\ c \in Nat \ {0} /\ Emission * c \in Nat
    BY Zenon, LimitParts, LimitsAssumption, CostParts DEF ScriptInv, ScriptTypeOK
  <1>2. Live(now) = pruned /\ Tat(now) = ahead /\ ahead \in Nat /\ now <= ahead
    BY <1>1, LiveIs, TatIs DEF ScriptInv, Greatest
  <1>3. IsFiniteSet(pruned) /\ IsFiniteSet(here) /\ n \in Nat
    <2>1. pruned \in SUBSET admitted /\ here \in SUBSET admitted
      BY Zenon
    <2> QED BY Zenon, <1>1, <2>1, FS_Subset, FS_CardinalityType
  <1>4. {m \in pruned : m[1] = now} = here
    BY <1>1
  <1>5. /\ bucket' = [tat |-> tat, dies |-> Deadline(Ttl(tat - now))]
        /\ window' = [log |-> pruned \cup new, dies |-> Deadline(Ttl(Period))]
        /\ admitted' = admitted \cup new /\ now' = now
    BY Zenon, <1>2, <1>4 DEF Check
  <1>6. /\ IsFiniteSet(new) /\ Cardinality(new) = c /\ new \subseteq Nat \X Nat
        /\ \A u \in new : u[1] = now /\ u[2] \in (n + 1)..(n + c)
    <2>1. now \in Nat /\ n \in Nat /\ c \in Nat
      BY Zenon, <1>1, <1>3
    <2> HIDE DEF n
    <2> QED BY <2>1, NewUnits
  <1>7. tat \in Nat /\ now <= tat /\ tat <= now + Tolerance /\ Cardinality(pruned) + c <= Count
    BY <1>1, <1>2 DEF Allowed, BucketAllows, WindowAllows
  <1> HIDE DEF pruned, here, n, new, ahead, tat
  <1>8. tat - now \in Nat
    BY <1>1, <1>7
  <1>9. /\ Deadline(Ttl(tat - now)) \in Int /\ Deadline(Ttl(Period)) \in Int
        /\ now + (tat - now) <= Milli * (Deadline(Ttl(tat - now)) + 1)
        /\ now + Period <= Milli * (Deadline(Ttl(Period)) + 1)
    BY Zenon, <1>1, <1>8, DeadlineLate
  <1>10. ScriptTypeOK'
    <2>1. pruned \cup new \in SUBSET (Nat \X Nat) /\ admitted \cup new \subseteq Nat \X Nat
      BY Zenon, <1>1, <1>6 DEF pruned
    <2> QED BY Zenon, <1>1, <1>5, <1>7, <1>9, <2>1 DEF ScriptTypeOK
  <1>11. DiesInTime'
    <2>1. tat <= Milli * (Deadline(Ttl(tat - now)) + 1)
      BY <1>1, <1>7, <1>9
    <2>2. \A m \in pruned \cup new : m[1] \in Nat /\ m[1] <= now
      BY <1>1, <1>6 DEF pruned
    <2>3. Milli * (Deadline(Ttl(Period)) + 1) \in Int
      BY <1>9, LimitsAssumption
    <2>4. \A m \in pruned \cup new : m[1] + Period <= Milli * (Deadline(Ttl(Period)) + 1)
      BY <1>1, <1>9, <2>2, <2>3
    <2> QED BY Zenon, <1>5, <2>1, <2>4 DEF DiesInTime
  <1>12. IsFiniteSet(admitted') /\ \A u \in admitted' : u[1] <= now'
    <2>1. IsFiniteSet(admitted \cup new)
      BY Zenon, <1>1, <1>6, FS_Union
    <2>2. \A u \in admitted \cup new : u[1] <= now
      BY <1>1, <1>6
    <2> QED BY Zenon, <1>5, <2>1, <2>2
  <1>13. LogComplete'
    BY Zenon, <1>5, <1>6 DEF LogComplete, pruned
  <1>14. Numbered'
    <2> SUFFICES ASSUME NEW u \in admitted \cup new
                 PROVE  u[2] \in 1..Cardinality({v \in admitted \cup new : v[1] = u[1]})
      BY Zenon, <1>5 DEF Numbered
    <2>1. CASE u[1] # now
      <3>1. {v \in admitted \cup new : v[1] = u[1]} = {v \in admitted : v[1] = u[1]} /\ u \in admitted
        BY Zenon, <1>6, <2>1
      <3> QED BY Zenon, <3>1 DEF ScriptInv, Numbered
    <2>2. CASE u[1] = now
      <3>1. {v \in admitted \cup new : v[1] = u[1]} = here \cup new
        BY Zenon, <1>6, <2>2 DEF here
      <3>2. \A v \in here : v[2] \in 1..n
        BY Zenon DEF ScriptInv, Numbered, here, n
      <3>3. here \cap new = {}
        BY <1>3, <1>6, <3>2
      <3>4. Cardinality(here \cup new) = n + c
        BY Zenon, <1>3, <1>6, <3>3, UnionBound DEF n
      <3>5. u[2] \in 1..n \/ u[2] \in (n + 1)..(n + c)
        BY Zenon, <1>6, <2>2, <3>2 DEF here
      <3>6. 1..n \subseteq 1..(n + c) /\ (n + 1)..(n + c) \subseteq 1..(n + c)
        BY <1>1, <1>3
      <3> QED BY Zenon, <3>1, <3>4, <3>5, <3>6
    <2> QED BY Zenon, <2>1, <2>2
  <1>15. \A s \in Nat, t \in Nat : t # now /\ t <= now => Between(s, t)' = Between(s, t)
    <2> TAKE s \in Nat, t \in Nat
    <2> HAVE t # now /\ t <= now
    <2>1. Units(s, t)' = Units(s, t)
      BY <1>1, <1>5, <1>6 DEF Units
    <2> QED BY Zenon, <2>1 DEF Between, Units
  <1>16. \A s \in Int : \A t : Between(s, t) \in Nat
    BY Zenon, <1>1, BetweenType
  <1>17. \A s \in Int : /\ Between(s, now)' \in Nat
                        /\ Between(s, now)' <= Between(s, now) + c
    <2> TAKE s \in Int
    <2>1. Units(s, now)' \in SUBSET (Units(s, now) \cup new)
      BY Zenon, <1>5 DEF Units
    <2>2. IsFiniteSet(Units(s, now)) /\ Between(s, now) = Cardinality(Units(s, now))
      BY Zenon, <1>1, FS_Subset DEF Units, Between
    <2>3. IsFiniteSet(Units(s, now) \cup new)
          /\ Cardinality(Units(s, now) \cup new) \in Nat
          /\ Cardinality(Units(s, now) \cup new) <= Between(s, now) + c
      BY Zenon, <1>6, <2>2, UnionBound
    <2>4. IsFiniteSet(Units(s, now)')
          /\ Cardinality(Units(s, now)') <= Cardinality(Units(s, now) \cup new)
      BY Zenon, <2>1, <2>3, FS_Subset
    <2>5. Cardinality(Units(s, now)') \in Nat
      BY Zenon, <2>4, FS_CardinalityType
    <2>6. Between(s, now)' = Cardinality(Units(s, now)')
      BY Zenon DEF Between, Units
    <2> QED BY <1>1, <1>16, <2>3, <2>4, <2>5, <2>6
  <1>18. \A s \in 0..now : s + Emission * Between(s, now)' <= tat
    <2> TAKE s \in 0..now
    <2>1. s + Emission * Between(s, now) <= ahead
      BY Zenon DEF ScriptInv, ArrivalPays, ahead
    <2> DEFINE b == Between(s, now)
               b1 == Between(s, now)'
    <2>2. b \in Nat /\ b1 \in Nat /\ b1 <= b + c
      BY <1>1, <1>16, <1>17
    <2> HIDE DEF b, b1
    <2>3. Emission * b1 <= Emission * (b + c)
      BY <1>1, <2>2, TimesMonotone
    <2>4. Emission * (b + c) = Emission * b + Emission * c
      BY <1>1, <2>2
    <2>5. Emission * b \in Nat /\ Emission * b1 \in Nat
      BY <1>1, <2>2
    <2>6. s + Emission * b <= ahead
      BY Zenon, <2>1 DEF b
    <2>7. s + Emission * b1 <= tat
      BY <1>1, <1>2, <2>3, <2>4, <2>5, <2>6 DEF tat
    <2> QED BY Zenon, <2>7 DEF b1
  <1>19. ArrivalPays'
    <2>1. \A s \in 0..now : s + Emission * Between(s, now)' <= Greatest(tat, now)
      BY <1>1, <1>7, <1>18 DEF Greatest
    <2> QED BY Zenon, <1>5, <1>7, <2>1 DEF ArrivalPays, Between
  <1>20. RateHolds'
    <2> SUFFICES ASSUME NEW s \in 0..now, NEW t \in 0..now, s <= t
                 PROVE  Emission * Between(s, t)' <= Tolerance + (t - s)
      BY Zenon, <1>5 DEF RateHolds
    <2>1. CASE t # now
      BY <1>1, <1>15, <2>1 DEF ScriptInv, RateHolds
    <2>2. CASE t = now
      <3>1. s + Emission * Between(s, now)' <= tat
        BY Zenon, <1>18
      <3>2. Emission * Between(s, now)' \in Nat
        BY <1>1, <1>17
      <3>3. Between(s, t)' = Between(s, now)'
        BY Zenon, <1>5, <2>2 DEF Between
      <3> QED BY <1>1, <1>7, <2>2, <3>1, <3>2, <3>3
    <2> QED BY Zenon, <2>1, <2>2
  <1>21. WindowExact'
    <2> SUFFICES ASSUME NEW t \in 0..now
                 PROVE  Between(t - Period + 1, t)' <= Count
      BY Zenon, <1>5 DEF WindowExact
    <2>1. CASE t # now
      <3>1. Units(t - Period + 1, t)' = Units(t - Period + 1, t)
        BY <1>1, <1>5, <1>6, <2>1 DEF Units
      <3>2. Between(t - Period + 1, t)' = Between(t - Period + 1, t)
        BY Zenon, <3>1 DEF Between, Units
      <3> QED BY Zenon, <3>2 DEF ScriptInv, WindowExact
    <2>2. CASE t = now
      <3>1. Units(t - Period + 1, t)' = pruned \cup new
        BY <1>1, <1>5, <1>6, <2>2 DEF Units, pruned
      <3>2. Between(t - Period + 1, t)' = Cardinality(pruned \cup new)
        BY Zenon, <3>1 DEF Between, Units
      <3>3. Cardinality(pruned \cup new) \in Nat /\ Cardinality(pruned) \in Nat
            /\ Cardinality(pruned \cup new) <= Cardinality(pruned) + c
        BY Zenon, <1>3, <1>6, UnionBound
      <3> QED BY <1>1, <1>7, <3>2, <3>3
    <2> QED BY Zenon, <2>1, <2>2
  <1> QED BY Zenon, <1>10, <1>11, <1>12, <1>13, <1>14, <1>19, <1>20, <1>21 DEF ScriptInv

LEMMA ScriptStep == ScriptInv /\ [ScriptNext]_scriptVars => ScriptInv'
  <1> SUFFICES ASSUME ScriptInv, [ScriptNext]_scriptVars PROVE ScriptInv'
    BY Zenon
  <1>1. CASE Tick
    BY Zenon, <1>1, TickKeeps
  <1>2. ASSUME NEW c \in Costs, Check(c) PROVE ScriptInv'
    <2>1. CASE Allowed(now, c)
      BY Zenon, <1>2, <2>1, CheckKeeps
    <2>2. CASE ~Allowed(now, c)
      <3>1. UNCHANGED scriptVars
        BY Zenon, <1>2, <2>2 DEF Check, scriptVars
      <3> QED BY Zenon, <3>1 DEF ScriptInv, ScriptTypeOK, DiesInTime, LogComplete, Numbered, ArrivalPays,
                          RateHolds, WindowExact, Between, scriptVars
    <2> QED BY Zenon, <2>1, <2>2
  <1>3. CASE UNCHANGED scriptVars
    BY Zenon, <1>3 DEF ScriptInv, ScriptTypeOK, DiesInTime, LogComplete, Numbered, ArrivalPays,
                RateHolds, WindowExact, Between, scriptVars
  <1> QED BY Zenon, <1>1, <1>2, <1>3 DEF ScriptNext

LEMMA ScriptInvariant == ScriptSpec => []ScriptInv
  BY ScriptStarts, ScriptStep, PTL DEF ScriptSpec

(* "At most Count units are admitted in ANY window of Period" (window.go), *)
(* in Redis too, for every limit and any sequence of checks.               *)
THEOREM WindowIsExact == ScriptSpec => []WindowExact
  <1>1. ScriptInv => WindowExact
    BY Zenon DEF ScriptInv
  <1> QED BY <1>1, ScriptInvariant, PTL

LEMMA RateFromEmission ==
    ASSUME NEW b \in Nat, NEW d \in Nat, Emission * b <= Tolerance + d
    PROVE  (b - Capacity) * BucketPeriod <= d * BucketCount
  <1>1. /\ Emission \in Nat \ {0} /\ Capacity \in Nat /\ BucketPeriod \in Nat
        /\ BucketCount \in Nat /\ Tolerance = Emission * Capacity
        /\ BucketPeriod <= BucketCount * Emission
    BY Zenon, LimitParts, LimitsAssumption
  <1>2. CASE b <= Capacity
    <2>1. (Capacity - b) * BucketPeriod >= 0 /\ d * BucketCount >= 0
      BY <1>1, <1>2
    <2>2. (b - Capacity) * BucketPeriod = -((Capacity - b) * BucketPeriod)
      BY <1>1
    <2> QED BY <1>1, <2>1, <2>2
  <1>3. CASE b > Capacity
    <2> DEFINE e == b - Capacity
    <2>1. e \in Nat /\ Emission * b = Emission * e + Emission * Capacity
      BY <1>1, <1>3
    <2> HIDE DEF e
    <2>2. Emission * e \in Nat /\ Emission * e <= d
      BY <1>1, <2>1
    <2>3. e * BucketPeriod <= e * (BucketCount * Emission)
      BY <1>1, <2>1, TimesMonotone
    <2>4. BucketCount * (Emission * e) <= BucketCount * d
      BY <1>1, <2>2, TimesMonotone
    <2>5. e * (BucketCount * Emission) = BucketCount * (Emission * e)
      BY <1>1, <2>1
    <2>6. BucketCount * d = d * BucketCount
      BY <1>1
    <2>7. e * BucketPeriod \in Nat /\ BucketCount * (Emission * e) \in Nat /\ d * BucketCount \in Nat
      BY <1>1, <2>1, <2>2
    <2>8. e * BucketPeriod <= d * BucketCount
      BY <2>3, <2>4, <2>5, <2>6, <2>7
    <2> QED BY Zenon, <2>8 DEF e
  <1> QED BY <1>1, <1>2, <1>3

(* A limiter "that admits more than it was told to is a worse failure"     *)
(* (limit.go): over any stretch of time the script admits no more than the *)
(* burst and what the configured rate accrues, whatever the rounding.      *)
THEOREM ConfiguredRateHolds == ScriptSpec => []RateNeverExceeded
  <1>1. ScriptInv => RateNeverExceeded
    <2> SUFFICES ASSUME ScriptInv, NEW s \in 0..now, NEW t \in 0..now, s <= t
                 PROVE  (Between(s, t) - Capacity) * BucketPeriod <= (t - s) * BucketCount
      BY Zenon DEF RateNeverExceeded
    <2>1. Between(s, t) \in Nat /\ t - s \in Nat
      BY BetweenType DEF ScriptInv, ScriptTypeOK
    <2>2. Emission * Between(s, t) <= Tolerance + (t - s)
      BY Zenon DEF ScriptInv, RateHolds
    <2> QED BY Zenon, <2>1, <2>2, RateFromEmission
  <1> QED BY <1>1, ScriptInvariant, PTL

-----------------------------------------------------------------------------
(* The script refines the quota.                                           *)

LEMMA SameCount == \A S : Promise!Cardinality(S) = Cardinality(S)
  BY Zenon DEF Cardinality, Promise!Cardinality

LEMMA QuotaStarts == ScriptInit => Promise!Init
  <1> SUFFICES ASSUME ScriptInit PROVE Promise!Init
    BY Zenon
  <1>1. ScriptInv
    BY Zenon, ScriptStarts
  <1>2. now = 0 /\ bucket.tat = 0 /\ admitted = {}
    BY Zenon DEF ScriptInit
  <1>3. Tat(now) = 0
    BY <1>1, <1>2, TatIs DEF ScriptInv, Greatest
  <1> QED BY <1>2, <1>3, LimitParts DEF Promise!Init

LEMMA TatNow == ScriptTypeOK /\ DiesInTime => Tat(now) = Greatest(bucket.tat, now)
  BY Zenon, TatIs DEF ScriptTypeOK

LEMMA TatNext == (ScriptTypeOK /\ DiesInTime => Tat(now) = Greatest(bucket.tat, now))'
  BY TatNow, PTL

LEMMA QuotaTick ==
    ASSUME ScriptInv, ScriptInv', Tick
    PROVE  Promise!Tick
  <1>1. now' = now + 1 /\ now < MaxNow /\ bucket' = bucket /\ admitted' = admitted
    BY Zenon DEF Tick
  <1>2. now \in Nat /\ bucket.tat \in Nat /\ Tolerance = Emission * Capacity /\ Tolerance \in Nat
    BY Zenon, LimitParts DEF ScriptInv, ScriptTypeOK
  <1>3. Tat(now) = Greatest(bucket.tat, now)
    BY Zenon, <1>2, TatIs DEF ScriptInv
  <1>4. Tat(now)' = Greatest(bucket.tat, now + 1)
    <2>1. Tat(now + 1) = Greatest(bucket.tat, now + 1)
      BY <1>2, TatIs DEF ScriptInv
    <2> QED BY Zenon, <1>1, <2>1 DEF Tat, Gone
  <1> DEFINE l == Tolerance - (Tat(now) - now)
             l1 == Tolerance - (Tat(now)' - now')
  <1>5. l1 = IF l < Tolerance THEN l + 1 ELSE l
    BY <1>1, <1>2, <1>3, <1>4 DEF Greatest
  <1> QED BY Zenon, <1>1, <1>2, <1>5 DEF Promise!Tick

(* A check that admits takes its cost from the bucket and the window, and  *)
(* both have it.                                                           *)
LEMMA QuotaAdmit ==
    ASSUME ScriptInv, ScriptInv', NEW c \in Costs, Allowed(now, c), Check(c)
    PROVE  Promise!Admit(c)
  <1> DEFINE pruned == {u \in admitted : u[1] > now - Period}
             here == {u \in admitted : u[1] = now}
  <1>1. /\ now \in Nat /\ Period \in Nat \ {0} /\ bucket.tat \in Nat /\ Emission * c \in Nat
        /\ Tolerance \in Nat /\ bucket'.tat \in Nat
        /\ \A u \in admitted : u[1] \in Nat /\ u[1] <= now
    BY Zenon, LimitParts, LimitsAssumption, CostParts DEF ScriptInv, ScriptTypeOK
  <1>2. Live(now) = pruned /\ Tat(now) = Greatest(bucket.tat, now)
    BY <1>1, LiveIs, TatIs DEF ScriptInv
  <1>3. Promise!Within(now) = pruned
    BY Zenon, <1>1 DEF Promise!Within
  <1>4. Promise!Fits(c)
    <2>1. Tat(now) + Emission * c - Tolerance <= now /\ Tat(now) \in Nat
      BY Zenon, <1>1, <1>2 DEF Allowed, BucketAllows, Greatest
    <2>2. Emission * c <= Tolerance - (Tat(now) - now)
      BY <1>1, <2>1
    <2>3. Cardinality(pruned) + c <= Count
      BY Zenon, <1>2 DEF Allowed, WindowAllows
    <2> HIDE DEF pruned
    <2> QED BY Zenon, <1>3, <2>2, <2>3, SameCount DEF Promise!Fits
  <1>5. {m \in pruned : m[1] = now} = here
    BY <1>1
  <1>6. admitted' = admitted \cup Promise!Fresh(now, c) /\ now' = now
        /\ bucket'.tat = Tat(now) + Emission * c
    <2> DEFINE n == Cardinality(here)
               new == {now} \X ((n + 1)..(n + c))
    <2>1. {m \in Live(now) : m[1] = now} = here
      BY Zenon, <1>2, <1>5
    <2> DEFINE arrival == Tat(now) + Emission * c
    <2>2. /\ bucket' = [tat |-> arrival, dies |-> Deadline(Ttl(arrival - now))] /\ now' = now
          /\ admitted' = admitted \cup new
      <3> HIDE DEF here
      <3> QED BY Zenon, <2>1 DEF Check
    <2> HIDE DEF arrival
    <2>3. bucket'.tat = arrival
      BY Zenon, <2>2
    <2>4. Promise!Fresh(now, c) = new
      BY Zenon, SameCount DEF Promise!Fresh
    <2> QED BY Zenon, <2>2, <2>3, <2>4 DEF arrival
  <1>7. Tat(now)' = Greatest(bucket'.tat, now')
    BY Zenon, TatNext DEF ScriptInv, Greatest
  <1>8. Tolerance - (Tat(now)' - now') = Tolerance - (Tat(now) - now) - Emission * c
    BY <1>1, <1>2, <1>6, <1>7 DEF Greatest
  <1> QED BY Zenon, <1>4, <1>6, <1>8 DEF Promise!Admit

(* Every step of the script is a step of the quota or none of its steps.   *)
LEMMA QuotaStep ==
    ScriptInv /\ ScriptInv' /\ [ScriptNext]_scriptVars
        => [Promise!Next]_<<now, Tolerance - (Tat(now) - now), admitted>>
  <1> SUFFICES ASSUME ScriptInv, ScriptInv', [ScriptNext]_scriptVars
               PROVE  [Promise!Next]_<<now, Tolerance - (Tat(now) - now), admitted>>
    BY Zenon
  <1>1. CASE Tick
    BY Zenon, <1>1, QuotaTick DEF Promise!Next
  <1>2. ASSUME NEW c \in Costs, Check(c), Allowed(now, c)
        PROVE  Promise!Next
    <2>1. c \in 1..Least(MaxCost, Least(Capacity, Count))
      BY Zenon DEF Costs
    <2>2. Promise!Admit(c)
      BY Zenon, <1>2, QuotaAdmit
    <2> QED BY Zenon, <2>1, <2>2 DEF Promise!Next
  <1>3. ASSUME UNCHANGED scriptVars
        PROVE  UNCHANGED <<now, Tolerance - (Tat(now) - now), admitted>>
    BY Zenon, <1>3 DEF scriptVars, Tat, Gone, Ms
  <1>4. ASSUME NEW c \in Costs, Check(c), ~Allowed(now, c)
        PROVE  UNCHANGED scriptVars
    BY Zenon, <1>4 DEF Check, scriptVars
  <1> QED BY Zenon, <1>1, <1>2, <1>3, <1>4 DEF ScriptNext

(* With its timestamps, its expiries and its sorted set the script admits  *)
(* exactly what the bucket and the window promise, for every limit: a      *)
(* check takes its cost from both or from neither.                         *)
THEOREM ScriptKeepsThePromise == ScriptSpec => ImplementsQuota
  <1>1. ScriptSpec => []ScriptInv
    BY Zenon, ScriptInvariant
  <1> QED BY <1>1, QuotaStarts, QuotaStep, PTL DEF ScriptSpec, ImplementsQuota, Promise!Spec

-----------------------------------------------------------------------------
(* How long to wait.                                                       *)

LEMMA LeastNat ==
    ASSUME NEW T, T \subseteq Nat, T # {}
    PROVE  \E x \in T : \A y \in T : x <= y
  <1>1. PICK x \in T : \A y \in T : <<y, x>> \notin OpToRel(<, Nat)
    BY Zenon, NatLessThanWellFounded, WFMin
  <1>2. \A y \in T : ~(y < x)
    BY Zenon, <1>1 DEF OpToRel
  <1> QED BY <1>2

(* The bucket admits a cost from the end of its wait on and not before.    *)
LEMMA BucketWait ==
    ASSUME ScriptInv, NEW c \in Costs, NEW t \in Nat, now <= t
    PROVE  /\ BucketRetry(now, c) \in Nat
           /\ BucketAllows(t, c) <=> now + BucketRetry(now, c) <= t
  <1> DEFINE x == Emission * c
  <1>1. now \in Nat /\ bucket.tat \in Nat /\ x \in Nat /\ Tolerance \in Nat /\ x <= Tolerance
    BY Zenon, LimitParts, CostParts DEF ScriptInv, ScriptTypeOK
  <1>2. Tat(now) = Greatest(bucket.tat, now) /\ Tat(t) = Greatest(bucket.tat, t)
    BY Zenon, <1>1, TatIs DEF ScriptInv
  <1>3. BucketAllows(t, c) <=> Greatest(bucket.tat, t) + x - Tolerance <= t
    BY Zenon, <1>2 DEF BucketAllows
  <1>4. BucketRetry(now, c) = Greatest(0, Greatest(bucket.tat, now) + x - Tolerance - now)
    BY Zenon, <1>2 DEF BucketRetry
  <1> HIDE DEF x
  <1> QED BY <1>1, <1>3, <1>4 DEF Greatest

(* The k-th oldest of the live entries exists.                             *)
LEMMA KthExists ==
    ASSUME IsFiniteSet(Live(now)), now \in Nat,
           \A m \in Live(now) : m[1] \in Nat /\ m[1] <= now,
           NEW k \in Nat, 0 < k, k <= Cardinality(Live(now))
    PROVE  LET s == KthOldest(now, k)
           IN  /\ \E m \in Live(now) : m[1] = s
               /\ Cardinality({m \in Live(now) : m[1] < s}) < k
               /\ Cardinality({m \in Live(now) : m[1] <= s}) >= k
  <1> DEFINE L == Live(now)
             upTo(x) == {m \in L : m[1] <= x}
             below(x) == {m \in L : m[1] < x}
             W == {x \in Nat : Cardinality(upTo(x)) >= k}
  <1>1. \A x : /\ IsFiniteSet(upTo(x)) /\ Cardinality(upTo(x)) \in Nat
               /\ IsFiniteSet(below(x)) /\ Cardinality(below(x)) \in Nat
    <2> TAKE x
    <2>1. upTo(x) \in SUBSET L /\ below(x) \in SUBSET L
      BY Zenon
    <2> HIDE DEF L, upTo, below
    <2> QED BY Zenon, <2>1, FS_Subset, FS_CardinalityType DEF L
  <1>2. now \in W
    <2>1. upTo(now) = L
      BY Zenon
    <2> QED BY Zenon, <2>1
  <1>3. PICK s \in W : \A y \in W : s <= y
    <2>1. W \subseteq Nat /\ W # {}
      BY Zenon, <1>2
    <2> HIDE DEF W
    <2> QED BY Zenon, <2>1, LeastNat
  <1>4. s \in Nat /\ Cardinality(upTo(s)) >= k
    BY Zenon, <1>3
  <1>5. Cardinality(below(s)) < k
    <2>1. CASE s = 0
      <3>1. below(s) = {}
        BY <2>1
      <3> HIDE DEF below
      <3> QED BY Zenon, <3>1, FS_EmptySet
    <2>2. CASE s # 0
      <3>1. below(s) = upTo(s - 1)
        BY <1>4
      <3>2. s - 1 \in Nat /\ ~(s <= s - 1)
        BY <1>4, <2>2
      <3>3. ~(Cardinality(upTo(s - 1)) >= k)
        BY Zenon, <1>3, <3>2
      <3> HIDE DEF below, upTo
      <3> QED BY <1>1, <3>1, <3>3
    <2> QED BY Zenon, <2>1, <2>2
  <1>6. PICK m \in L : m[1] = s
    <2>1. below(s) # upTo(s)
      <3> HIDE DEF below, upTo
      <3> QED BY <1>1, <1>4, <1>5
    <2>2. PICK m \in upTo(s) : m \notin below(s)
      BY <2>1
    <2> QED BY <1>4, <2>2
  <1>7. /\ s \in {q[1] : q \in Live(now)}
        /\ Cardinality({q \in Live(now) : q[1] < s}) < k
        /\ Cardinality({q \in Live(now) : q[1] <= s}) >= k
    BY Zenon, <1>4, <1>5, <1>6
  <1> HIDE DEF L, upTo, below, W
  <1>8. /\ KthOldest(now, k) \in {q[1] : q \in Live(now)}
        /\ Cardinality({q \in Live(now) : q[1] < KthOldest(now, k)}) < k
        /\ Cardinality({q \in Live(now) : q[1] <= KthOldest(now, k)}) >= k
    BY Zenon, <1>7 DEF KthOldest
  <1> QED BY Zenon, <1>8

(* The window admits a cost from the end of its wait on and not before:    *)
(* when as many entries have left as the cost needs.                       *)
LEMMA WindowWait ==
    ASSUME ScriptInv, NEW c \in Costs, NEW t \in Nat, now <= t
    PROVE  /\ WindowRetry(now, c) \in Nat
           /\ WindowAllows(t, c) <=> now + WindowRetry(now, c) <= t
  <1> DEFINE L == Live(now)
             left == {m \in L : m[1] <= t - Period}
             k == Cardinality(L) + c - Count
  <1>1. /\ now \in Nat /\ Period \in Nat \ {0} /\ Count \in Nat /\ c \in Nat /\ c <= Count
        /\ IsFiniteSet(admitted) /\ \A u \in admitted : u[1] \in Nat /\ u[1] <= now
    BY Zenon, LimitsAssumption, CostParts DEF ScriptInv, ScriptTypeOK
  <1>2. L = {u \in admitted : u[1] > now - Period} /\ Live(t) = {u \in admitted : u[1] > t - Period}
    BY <1>1, LiveIs DEF ScriptInv
  <1>3. Live(t) = L \ left
    BY <1>1, <1>2
  <1>4. IsFiniteSet(L) /\ Cardinality(L) \in Nat
    <2>1. L \in SUBSET admitted
      BY Zenon, <1>2
    <2> QED BY Zenon, <1>1, <2>1, FS_Subset, FS_CardinalityType
  <1>5. IsFiniteSet(left) /\ Cardinality(left) \in Nat /\ left \in SUBSET L
    <2>1. left \in SUBSET L
      BY Zenon
    <2> QED BY Zenon, <1>4, <2>1, FS_Subset, FS_CardinalityType
  <1>6. Cardinality(Live(t)) = Cardinality(L) - Cardinality(left)
    <2>1. L \cap left = left
      BY Zenon, <1>5
    <2> HIDE DEF L, left
    <2> QED BY Zenon, <1>3, <1>4, <2>1, FS_Difference
  <1>7. WindowAllows(t, c) <=> k <= Cardinality(left)
    <2> HIDE DEF L, left
    <2> QED BY <1>1, <1>4, <1>5, <1>6 DEF WindowAllows
  <1>8. CASE WindowAllows(now, c)
    <2>1. WindowRetry(now, c) = 0
      BY Zenon, <1>8 DEF WindowRetry
    <2>2. k \in Int /\ k <= 0
      BY <1>1, <1>4, <1>8 DEF WindowAllows
    <2> HIDE DEF left, k
    <2> QED BY <1>1, <1>5, <1>7, <2>1, <2>2
  <1>9. CASE ~WindowAllows(now, c)
    <2>1. k \in Nat /\ 0 < k /\ k <= Cardinality(L)
      BY <1>1, <1>4, <1>9 DEF WindowAllows
    <2> DEFINE s == KthOldest(now, k)
    <2>2. \A m \in L : m[1] \in Nat /\ m[1] <= now /\ m[1] > now - Period
      BY Zenon, <1>1, <1>2
    <2> HIDE DEF k
    <2>3. /\ \E m \in L : m[1] = s
          /\ Cardinality({m \in L : m[1] < s}) < k
          /\ Cardinality({m \in L : m[1] <= s}) >= k
      BY Zenon, <1>1, <1>4, <2>1, <2>2, KthExists
    <2>4. s \in Nat /\ s > now - Period
      BY Zenon, <2>2, <2>3
    <2>5. WindowRetry(now, c) = s + Period - now
      BY Zenon, <1>9 DEF WindowRetry, k
    <2> HIDE DEF s, L
    <2>6. CASE s + Period <= t
      <3>1. {m \in L : m[1] <= s} \in SUBSET left
        BY <1>1, <2>2, <2>4, <2>6
      <3>2. Cardinality({m \in L : m[1] <= s}) <= Cardinality(left)
            /\ IsFiniteSet({m \in L : m[1] <= s})
        BY Zenon, <1>5, <3>1, FS_Subset
      <3>3. Cardinality({m \in L : m[1] <= s}) \in Nat
        BY Zenon, <3>2, FS_CardinalityType
      <3>4. k <= Cardinality(left)
        BY <1>5, <2>1, <2>3, <3>2, <3>3
      <3> QED BY <1>1, <1>7, <2>4, <2>5, <2>6, <3>4
    <2>7. CASE ~(s + Period <= t)
      <3>1. left \in SUBSET {m \in L : m[1] < s}
        BY <1>1, <2>2, <2>4, <2>7
      <3>2. IsFiniteSet({m \in L : m[1] < s})
        <4>1. {m \in L : m[1] < s} \in SUBSET L
          BY Zenon
        <4> QED BY Zenon, <1>4, <4>1, FS_Subset
      <3>3. Cardinality(left) <= Cardinality({m \in L : m[1] < s})
        BY Zenon, <3>1, <3>2, FS_Subset
      <3>4. Cardinality({m \in L : m[1] < s}) \in Nat
        BY Zenon, <3>2, FS_CardinalityType
      <3>5. ~(k <= Cardinality(left))
        BY <1>5, <2>1, <2>3, <3>3, <3>4
      <3> QED BY <1>1, <1>7, <2>4, <2>5, <2>7, <3>5
    <2> QED BY Zenon, <2>6, <2>7
  <1> QED BY Zenon, <1>8, <1>9

(* "How long the caller should wait" (limit.go): for every limit, cost and *)
(* instant the wait the script reports is the least that will do.          *)
THEOREM WaitsAreExact == ScriptSpec => []RetryAfterExact
  <1>1. ScriptInv => RetryAfterExact
    <2> SUFFICES ASSUME ScriptInv, NEW c \in Costs, ~Allowed(now, c)
                 PROVE  /\ RetryAfter(now, c) > 0
                        /\ Allowed(now + RetryAfter(now, c), c)
                        /\ \A d \in 0..(RetryAfter(now, c) - 1) : ~Allowed(now + d, c)
      BY Zenon DEF RetryAfterExact
    <2> DEFINE b == BucketRetry(now, c)
               w == WindowRetry(now, c)
    <2>1. now \in Nat
      BY Zenon DEF ScriptInv, ScriptTypeOK
    <2>2. \A t \in Nat : now <= t =>
            /\ b \in Nat /\ w \in Nat
            /\ BucketAllows(t, c) <=> now + b <= t
            /\ WindowAllows(t, c) <=> now + w <= t
      BY Zenon, BucketWait, WindowWait
    <2>3. b \in Nat /\ w \in Nat
      BY <2>1, <2>2
    <2>4. RetryAfter(now, c) = Greatest(b, w)
      BY Zenon DEF RetryAfter
    <2> HIDE DEF b, w
    <2>5. \A t \in Nat : now <= t => (Allowed(t, c) <=> now + Greatest(b, w) <= t)
      BY <2>1, <2>2, <2>3 DEF Allowed, Greatest
    <2> DEFINE r == Greatest(b, w)
    <2>6. r \in Nat
      BY Zenon, <2>3 DEF Greatest
    <2> HIDE DEF r
    <2>7. r > 0
      BY <2>1, <2>5, <2>6 DEF r
    <2>8. Allowed(now + r, c)
      BY <2>1, <2>5, <2>6 DEF r
    <2>9. \A d \in 0..(r - 1) : ~Allowed(now + d, c)
      BY <2>1, <2>5, <2>6 DEF r
    <2> QED BY Zenon, <2>4, <2>7, <2>8, <2>9 DEF r
  <1> QED BY <1>1, ScriptInvariant, PTL

-----------------------------------------------------------------------------
(* What is reported and what is kept.                                      *)

LEMMA DivisionAtLeast ==
    ASSUME NEW a \in Nat, NEW b \in Nat \ {0}, NEW c \in Nat
    PROVE  a \div b >= c <=> b * c <= a
  <1> DEFINE q == a \div b
  <1>1. q \in Int /\ b * q <= a /\ a < b * q + b
    BY Division
  <1> HIDE DEF q
  <1>2. b * q \in Int /\ b * c \in Int /\ b * (q + 1) = b * q + b
    BY <1>1
  <1>3. ASSUME q >= c PROVE b * c <= a
    <2>1. b * c <= b * q
      BY <1>1, <1>3, TimesMonotone
    <2> QED BY <1>1, <1>2, <2>1
  <1>4. ASSUME q < c PROVE ~(b * c <= a)
    <2>1. b * (q + 1) <= b * c
      BY <1>1, <1>4, TimesMonotone
    <2> QED BY <1>1, <1>2, <2>1
  <1>5. q >= c <=> b * c <= a
    BY <1>1, <1>3, <1>4
  <1> QED BY Zenon, <1>5 DEF q

(* The remaining units reported are the truth: a request is admitted       *)
(* exactly when its cost is no more than every limit says it has left.     *)
THEOREM RemainingIsExact == ScriptSpec => []RemainingExact
  <1>1. ScriptInv => RemainingExact
    <2> SUFFICES ASSUME ScriptInv, NEW c \in Costs
                 PROVE  Allowed(now, c) <=> BucketRemaining(now) >= c /\ WindowRemaining(now) >= c
      BY Zenon DEF RemainingExact
    <2>1. /\ now \in Nat /\ c \in Nat \ {0} /\ Emission \in Nat \ {0} /\ Emission * c \in Nat
          /\ Emission * c > 0 /\ Tolerance \in Nat /\ Count \in Nat /\ bucket.tat \in Nat
      BY LimitParts, LimitsAssumption, CostParts DEF ScriptInv, ScriptTypeOK
    <2>2. Tat(now) \in Nat
      BY Zenon, <2>1, TatIs DEF ScriptInv, Greatest
    <2> DEFINE room == Greatest(0, Tolerance - (Tat(now) - now))
    <2>3. room \in Nat /\ (Emission * c <= room <=> Emission * c <= Tolerance - (Tat(now) - now))
      BY <2>1, <2>2 DEF Greatest
    <2>4. BucketRemaining(now) >= c <=> Emission * c <= room
      <3> HIDE DEF room
      <3>1. room \div Emission >= c <=> Emission * c <= room
        BY Zenon, <2>1, <2>3, DivisionAtLeast
      <3> QED BY Zenon, <3>1 DEF BucketRemaining, room
    <2>5. BucketAllows(now, c) <=> BucketRemaining(now) >= c
      BY <2>1, <2>2, <2>3, <2>4 DEF BucketAllows
    <2>6. Cardinality(Live(now)) \in Nat
      <3>1. Live(now) \in SUBSET admitted
        BY <2>1, LiveIs DEF ScriptInv
      <3> QED BY Zenon, <3>1, FS_Subset, FS_CardinalityType DEF ScriptInv
    <2>7. WindowAllows(now, c) <=> WindowRemaining(now) >= c
      BY <2>1, <2>6 DEF WindowAllows, WindowRemaining, Greatest
    <2> QED BY Zenon, <2>5, <2>7 DEF Allowed
  <1> QED BY <1>1, ScriptInvariant, PTL

(* No unit takes the place of another in the sorted set, however many are  *)
(* admitted in one microsecond.                                            *)
THEOREM UnitsNeverCollide == ScriptSpec => EveryUnitIsKept
  <1> DEFINE Kept == \A c \in Costs : Check(c) /\ Allowed(now, c) =>
                        /\ Cardinality(admitted') = Cardinality(admitted) + c
                        /\ Cardinality(window'.log) = Cardinality(Live(now)) + c
  <1>1. ScriptInv => Kept
    <2> SUFFICES ASSUME ScriptInv, NEW c \in Costs, Check(c), Allowed(now, c)
                 PROVE  /\ Cardinality(admitted') = Cardinality(admitted) + c
                        /\ Cardinality(window'.log) = Cardinality(Live(now)) + c
      BY Zenon
    <2> DEFINE here == {u \in admitted : u[1] = now}
               n == Cardinality(here)
               new == {now} \X ((n + 1)..(n + c))
    <2>1. now \in Nat /\ c \in Nat /\ IsFiniteSet(admitted)
      BY Zenon, CostParts DEF ScriptInv, ScriptTypeOK
    <2>2. Live(now) = {u \in admitted : u[1] > now - Period}
      BY <2>1, LiveIs DEF ScriptInv
    <2>3. {m \in Live(now) : m[1] = now} = here
      BY <2>1, <2>2, LimitsAssumption
    <2>4. admitted' = admitted \cup new /\ window'.log = Live(now) \cup new
      <3> DEFINE same == Cardinality({m \in Live(now) : m[1] = now})
                 units == {now} \X ((same + 1)..(same + c))
      <3>1. admitted' = admitted \cup units /\ window' = [log |-> Live(now) \cup units,
                                                         dies |-> Deadline(Ttl(Period))]
        BY Zenon DEF Check
      <3>2. units = new
        BY Zenon, <2>3
      <3> HIDE DEF units, new
      <3>3. window'.log = Live(now) \cup units
        BY Zenon, <3>1
      <3> QED BY Zenon, <3>1, <3>2, <3>3
    <2>5. IsFiniteSet(Live(now)) /\ IsFiniteSet(here) /\ n \in Nat
      <3>1. Live(now) \in SUBSET admitted /\ here \in SUBSET admitted
        BY Zenon, <2>2
      <3> QED BY Zenon, <2>1, <3>1, FS_Subset, FS_CardinalityType
    <2>6. /\ IsFiniteSet(new) /\ Cardinality(new) = c
          /\ \A u \in new : u[1] = now /\ u[2] \in (n + 1)..(n + c)
      <3> HIDE DEF n
      <3> QED BY <2>1, <2>5, NewUnits
    <2>7. \A u \in here : u[2] \in 1..n
      BY Zenon DEF ScriptInv, Numbered
    <2>8. admitted \cap new = {}
      <3> SUFFICES ASSUME NEW u \in admitted, u \in new PROVE FALSE
        BY Zenon
      <3>1. u \in here
        BY Zenon, <2>6
      <3> HIDE DEF here, n, new
      <3> QED BY <2>1, <2>5, <2>6, <2>7, <3>1
    <2>9. Live(now) \cap new = {}
      BY Zenon, <2>2, <2>8
    <2> HIDE DEF new
    <2> QED BY Zenon, <2>1, <2>4, <2>5, <2>6, <2>8, <2>9, UnionBound
  <1> HIDE DEF Kept
  <1>2. ScriptInv /\ [ScriptNext]_scriptVars => [Kept]_scriptVars
    BY Zenon, <1>1
  <1>3. ScriptSpec => [][Kept]_scriptVars
    BY <1>2, ScriptInvariant, PTL DEF ScriptSpec
  <1> QED BY Zenon, <1>3 DEF EveryUnitIsKept, Kept

(* The oldest of some entries is the one before which there is none.       *)
LEMMA OldestIs ==
    ASSUME NEW L, IsFiniteSet(L), \A m \in L : m[1] \in Nat,
           NEW o \in L, \A m \in L : o[1] <= m[1]
    PROVE  (CHOOSE s \in {m[1] : m \in L} :
                /\ Cardinality({m \in L : m[1] < s}) < 1
                /\ Cardinality({m \in L : m[1] <= s}) >= 1) = o[1]
  <1> DEFINE below(s) == {m \in L : m[1] < s}
             upTo(s) == {m \in L : m[1] <= s}
             Fits(s) == Cardinality(below(s)) < 1 /\ Cardinality(upTo(s)) >= 1
  <1>1. ASSUME NEW s
        PROVE  /\ Cardinality(below(s)) \in Nat /\ Cardinality(upTo(s)) \in Nat
               /\ Cardinality(below(s)) = 0 <=> below(s) = {}
               /\ Cardinality(upTo(s)) = 0 <=> upTo(s) = {}
    <2>1. below(s) \in SUBSET L /\ upTo(s) \in SUBSET L
      BY Zenon
    <2> HIDE DEF below, upTo
    <2> QED BY Zenon, <2>1, FS_Subset, FS_CardinalityType, FS_EmptySet
  <1>2. \A s : Fits(s) <=> below(s) = {} /\ upTo(s) # {}
    <2> HIDE DEF below, upTo
    <2> QED BY <1>1
  <1>3. Fits(o[1])
    <2>1. below(o[1]) = {} /\ o \in upTo(o[1])
      OBVIOUS
    <2> HIDE DEF below, upTo, Fits
    <2> QED BY Zenon, <1>2, <2>1
  <1>4. \A s \in {m[1] : m \in L} : Fits(s) => s = o[1]
    <2> SUFFICES ASSUME NEW q \in L, Fits(q[1]) PROVE q[1] = o[1]
      BY Zenon
    <2>1. o \notin below(q[1])
      <3> HIDE DEF below, upTo, Fits
      <3> QED BY Zenon, <1>2
    <2> QED BY <2>1
  <1>5. o[1] \in {m[1] : m \in L}
    BY Zenon
  <1> HIDE DEF Fits
  <1>6. (CHOOSE s \in {m[1] : m \in L} : Fits(s)) = o[1]
    BY Zenon, <1>3, <1>4, <1>5
  <1> QED BY Zenon, <1>6 DEF Fits

LEMMA LiveNow ==
    ScriptTypeOK /\ DiesInTime /\ LogComplete => Live(now) = {u \in admitted : u[1] > now - Period}
  BY LiveIs DEF ScriptTypeOK

LEMMA LiveNext ==
    (ScriptTypeOK /\ DiesInTime /\ LogComplete => Live(now) = {u \in admitted : u[1] > now - Period})'
  BY LiveNow, PTL

(* What a check that is admitted leaves in the window.                     *)
LEMMA WindowGrows ==
    ASSUME ScriptInv, ScriptInv', NEW c \in Costs, Check(c), Allowed(now, c)
    PROVE  \E new : /\ Live(now)' = Live(now) \cup new
                    /\ new # {} /\ \A u \in new : u[1] = now
                    /\ IsFiniteSet(Live(now)') /\ Cardinality(Live(now)) \in Nat
                    /\ Cardinality(Live(now)') = Cardinality(Live(now)) + c
  <1> DEFINE here == {u \in admitted : u[1] = now}
             n == Cardinality(here)
             new == {now} \X ((n + 1)..(n + c))
  <1>1. /\ now \in Nat /\ c \in Nat \ {0} /\ IsFiniteSet(admitted) /\ now' = now
        /\ Period \in Nat \ {0} /\ \A u \in admitted : u[1] \in Nat
    BY Zenon, CostParts, LimitsAssumption DEF ScriptInv, ScriptTypeOK, Check
  <1>2. Live(now) = {u \in admitted : u[1] > now - Period}
    BY Zenon, LiveNow DEF ScriptInv
  <1>3. Live(now)' = {u \in admitted' : u[1] > now - Period}
    BY Zenon, <1>1, LiveNext DEF ScriptInv
  <1>4. {m \in Live(now) : m[1] = now} = here
    BY <1>1, <1>2
  <1>5. admitted' = admitted \cup new
    <2> HIDE DEF here
    <2> QED BY Zenon, <1>4 DEF Check
  <1>6. IsFiniteSet(Live(now)) /\ IsFiniteSet(here) /\ n \in Nat /\ Cardinality(Live(now)) \in Nat
    <2>1. Live(now) \in SUBSET admitted /\ here \in SUBSET admitted
      BY Zenon, <1>2
    <2> QED BY Zenon, <1>1, <2>1, FS_Subset, FS_CardinalityType
  <1>7. /\ IsFiniteSet(new) /\ Cardinality(new) = c
        /\ \A u \in new : u[1] = now /\ u[2] \in (n + 1)..(n + c)
    <2>1. now \in Nat /\ n \in Nat /\ c \in Nat
      BY Zenon, <1>1, <1>6
    <2> HIDE DEF n
    <2> QED BY <2>1, NewUnits
  <1>8. \A u \in here : u[2] \in 1..n
    BY Zenon DEF ScriptInv, Numbered
  <1>9. Live(now) \cap new = {}
    <2> SUFFICES ASSUME NEW u \in admitted, u \in new PROVE FALSE
      BY Zenon, <1>2
    <2>1. u \in here
      BY Zenon, <1>7
    <2> HIDE DEF here, n, new
    <2> QED BY <1>1, <1>6, <1>7, <1>8, <2>1
  <1> HIDE DEF here, n, new
  <1>10. Live(now)' = Live(now) \cup new
    BY <1>1, <1>2, <1>3, <1>5, <1>7
  <1>11. new # {}
    BY Zenon, <1>1, <1>7, FS_EmptySet
  <1>12. /\ IsFiniteSet(Live(now) \cup new)
         /\ Cardinality(Live(now) \cup new) = Cardinality(Live(now)) + c
    BY Zenon, <1>6, <1>7, <1>9, UnionBound
  <1> QED BY Zenon, <1>6, <1>7, <1>10, <1>11, <1>12

(* What an admitted request is told it leaves (the remaining and reset of  *)
(* check.lua) is what the next one will find, although the keys expire by  *)
(* the millisecond.                                                        *)
THEOREM ReportsAreTrue == ScriptSpec => ReportIsTrue
  <1> DEFINE Report(c) == /\ BucketAfter(c) = Tell(BucketRemaining(now), BucketReset(now))'
                          /\ WindowAfter(c) = Tell(WindowRemaining(now), WindowReset(now))'
  <1>1. ASSUME ScriptInv, ScriptInv', NEW c \in Costs, Check(c), Allowed(now, c)
        PROVE  Report(c)
    <2>1. /\ now \in Nat /\ c \in Nat \ {0} /\ now' = now /\ Period \in Nat \ {0} /\ Count \in Nat
          /\ Emission * c \in Nat /\ bucket.tat \in Nat /\ Tolerance \in Nat
          /\ \A u \in admitted : u[1] \in Nat /\ u[1] <= now
      BY Zenon, <1>1, CostParts, LimitParts, LimitsAssumption DEF ScriptInv, ScriptTypeOK, Check
    <2>2. Tat(now) \in Nat /\ Tat(now)' = Tat(now) + Emission * c
      <3>1. Tat(now) = Greatest(bucket.tat, now)
        BY Zenon, <1>1, TatNow DEF ScriptInv
      <3>2. Tat(now)' = Greatest(bucket'.tat, now)
        BY Zenon, <1>1, <2>1, TatNext DEF ScriptInv, Greatest
      <3>3. bucket'.tat = Tat(now) + Emission * c
        BY <1>1 DEF Check
      <3> QED BY <2>1, <3>1, <3>2, <3>3 DEF Greatest
    <2>3. BucketAfter(c) = Tell(BucketRemaining(now), BucketReset(now))'
      <3>1. PICK a \in Int : a = Tat(now) + Emission * c - now
        BY <2>1, <2>2
      <3>2. Tat(now)' - now' = a
        BY <2>1, <2>2, <3>1
      <3>3. BucketReset(now)' = a
        BY Zenon, <3>2 DEF BucketReset
      <3>4. BucketRemaining(now)' = Greatest(0, Tolerance - a) \div Emission
        BY Zenon, <3>2 DEF BucketRemaining, Greatest
      <3>5. BucketAfter(c) = Tell(Greatest(0, Tolerance - a) \div Emission, a)
        BY Zenon, <3>1 DEF BucketAfter
      <3> QED BY Zenon, <3>3, <3>4, <3>5 DEF Tell
    <2>4. PICK new : /\ Live(now)' = Live(now) \cup new
                     /\ new # {} /\ \A u \in new : u[1] = now
                     /\ IsFiniteSet(Live(now)') /\ Cardinality(Live(now)) \in Nat
                     /\ Cardinality(Live(now)') = Cardinality(Live(now)) + c
      BY Zenon, <1>1, WindowGrows
    <2>5. WindowRemaining(now)' = Greatest(0, Count - Cardinality(Live(now)) - c)
      BY <2>1, <2>4 DEF WindowRemaining, Greatest
    <2>6. \A m \in Live(now) : m[1] \in Nat /\ m[1] <= now
      BY Zenon, <1>1, <2>1, LiveNow DEF ScriptInv
    <2>7. IsFiniteSet(Live(now))
      BY Zenon, <2>4, FS_Subset
    <2>8. PICK L1 : L1 = Live(now)'
      BY Zenon
    <2>9. ASSUME NEW o \in L1, \A m \in L1 : o[1] <= m[1]
          PROVE  WindowReset(now)' = o[1] + Period - now
      <3>1. IsFiniteSet(L1) /\ L1 # {} /\ \A m \in L1 : m[1] \in Nat
        BY Zenon, <2>1, <2>4, <2>6, <2>8
      <3>2. KthOldest(now, 1)' = o[1]
        BY Zenon, <2>8, <2>9, <3>1, OldestIs DEF KthOldest
      <3> QED BY Zenon, <2>1, <2>8, <3>1, <3>2 DEF WindowReset
    <2>10. WindowReset(now)' = IF Live(now) = {} THEN Period ELSE KthOldest(now, 1) + Period - now
      <3>1. CASE Live(now) = {}
        <4>1. PICK o \in new : TRUE
          BY Zenon, <2>4
        <4>2. o \in L1 /\ o[1] = now /\ \A m \in L1 : m[1] = now
          BY Zenon, <2>4, <2>8, <3>1
        <4>3. WindowReset(now)' = o[1] + Period - now
          BY <2>1, <2>9, <4>2
        <4> QED BY <2>1, <3>1, <4>2, <4>3
      <3>2. CASE Live(now) # {}
        <4>1. {m[1] : m \in Live(now)} \subseteq Nat /\ {m[1] : m \in Live(now)} # {}
          BY Zenon, <2>6, <3>2
        <4>2. PICK x \in {m[1] : m \in Live(now)} : \A y \in {m[1] : m \in Live(now)} : x <= y
          BY Zenon, <4>1, LeastNat
        <4>3. PICK o \in Live(now) : o[1] = x
          BY Zenon, <4>2
        <4>4. \A m \in Live(now) : o[1] <= m[1]
          BY Zenon, <4>2, <4>3
        <4>5. KthOldest(now, 1) = o[1]
          BY Zenon, <2>6, <2>7, <4>4, OldestIs DEF KthOldest
        <4>6. o \in L1 /\ \A m \in L1 : o[1] <= m[1]
          BY Zenon, <2>4, <2>6, <2>8, <4>4
        <4>7. WindowReset(now)' = o[1] + Period - now
          BY Zenon, <2>9, <4>6
        <4> QED BY Zenon, <3>2, <4>5, <4>7
      <3> QED BY Zenon, <3>1, <3>2
    <2>11. WindowAfter(c) = Tell(WindowRemaining(now), WindowReset(now))'
      BY Zenon, <2>5, <2>10 DEF WindowAfter, Tell
    <2> QED BY Zenon, <2>3, <2>11
  <1>2. ASSUME NEW c \in Costs, Check(c), ~Allowed(now, c) PROVE UNCHANGED scriptVars
    BY Zenon, <1>2 DEF Check, scriptVars
  <1> DEFINE True == \A c \in Costs : Check(c) => Report(c)
  <1>3. ScriptInv /\ ScriptInv' => [True]_scriptVars
    <2> SUFFICES ASSUME ScriptInv, ScriptInv', ~UNCHANGED scriptVars, NEW c \in Costs, Check(c)
                 PROVE  Report(c)
      BY Zenon
    <2> HIDE DEF Report
    <2> QED BY Zenon, <1>1, <1>2
  <1> HIDE DEF True
  <1>4. ScriptSpec => [][True]_scriptVars
    BY <1>3, ScriptInvariant, PTL
  <1> QED BY Zenon, <1>4 DEF ReportIsTrue, True, Report

=============================================================================
