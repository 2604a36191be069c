---------------------------- MODULE ClusterState ----------------------------
(***************************************************************************)
(* What the cluster agrees about, and how one log entry changes it         *)
(* (internal/cluster/state.go).  Apply is a pure function of a state and   *)
(* an entry; an entry it refuses or that asks for what already holds       *)
(* leaves the state as it is, on every node alike.                         *)
(*                                                                         *)
(* Members, a list kept sorted by id, is the function from ids to the      *)
(* addresses they answer on; an id that is no member has no address.       *)
(***************************************************************************)
EXTENDS Naturals, FiniteSets

CONSTANTS
    Id,         \* shard ids
    Addr,       \* gRPC addresses
    MaxVNodes   \* ring.MaxVNodes

NoAddr == "no address"

ASSUME AddrAssumption == IsFiniteSet(Id) /\ NoAddr \notin Addr /\ MaxVNodes \in Nat

Membership == [Id -> Addr \cup {NoAddr}]
State == [members : Membership, vnodes : 0..MaxVNodes, epoch : Nat,
          pgen : Nat, sgen : Nat]

NoMembers == [i \in Id |-> NoAddr]
EmptyState == [members |-> NoMembers, vnodes |-> 0, epoch |-> 0, pgen |-> 0, sgen |-> 0]

Has(s, i) == s.members[i] # NoAddr
Ids(s) == {i \in Id : Has(s, i)}

(* Two ids on one address is one process answering as two shards.          *)
Distinct(m) == \A i, j \in Id : m[i] = m[j] /\ m[i] # NoAddr => i = j

(* The two things that decide which shard a tenant belongs to.             *)
SameRing(s, t) == Ids(s) = Ids(t) /\ s.vnodes = t.vnodes

-----------------------------------------------------------------------------
(* Mutant: an initial configuration replaces whatever is there. *)
SeedRingAlways(s, members, vnodes) ==
    IF members = NoMembers \/ ~Distinct(members) \/ vnodes > MaxVNodes
    THEN s
    ELSE [s EXCEPT !.members = members, !.vnodes = vnodes, !.epoch = @ + 1]

(* The whole initial membership in one entry, into a state that has none.  *)
SeedRing(s, members, vnodes) ==
    IF s.members # NoMembers \/ members = NoMembers \/ ~Distinct(members)
       \/ vnodes > MaxVNodes
    THEN s
    ELSE [s EXCEPT !.members = members, !.vnodes = vnodes, !.epoch = @ + 1]

(* Mutant: an address change counts as a move of tenants. *)
AddShardAlwaysBumps(s, i, a) ==
    IF s.members[i] = a \/ \E j \in Id \ {i} : s.members[j] = a THEN s
    ELSE [s EXCEPT !.members = [@ EXCEPT ![i] = a], !.epoch = @ + 1]

(* A new member moves tenants; a member on a new address keeps its own.    *)
AddShard(s, i, a) ==
    IF s.members[i] = a \/ \E j \in Id \ {i} : s.members[j] = a THEN s
    ELSE [s EXCEPT !.members = [@ EXCEPT ![i] = a],
                   !.epoch = IF Has(s, i) THEN @ ELSE @ + 1]

RemoveShard(s, i) ==
    IF ~Has(s, i) THEN s
    ELSE [s EXCEPT !.members = [@ EXCEPT ![i] = NoAddr], !.epoch = @ + 1]

SetVNodes(s, v) ==
    IF v > MaxVNodes \/ v = s.vnodes THEN s
    ELSE [s EXCEPT !.vnodes = v, !.epoch = @ + 1]

BumpPolicyGen(s) == [s EXCEPT !.pgen = @ + 1]

(* Only upwards.                                                           *)
SetStoreGen(s, g) == IF g <= s.sgen THEN s ELSE [s EXCEPT !.sgen = g]

-----------------------------------------------------------------------------
(* The state a node routes by before the log has told it anything: the     *)
(* members of its own file, added one by one (cluster.New).                *)
Configured(members, vnodes) ==
    [members |-> members, vnodes |-> vnodes,
     epoch |-> Cardinality({i \in Id : members[i] # NoAddr}), pgen |-> 0, sgen |-> 0]
=============================================================================
