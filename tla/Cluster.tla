------------------------------ MODULE Cluster ------------------------------
(***************************************************************************)
(* The replicated log and what each node makes of it: the state machine    *)
(* (internal/cluster/fsm.go), the view requests are routed by              *)
(* (cluster.go), the seeding of an empty cluster from a node's own file    *)
(* (consensus.go, main.go seedRing) and the membership changes of the      *)
(* admin API.                                                              *)
(*                                                                         *)
(* hashicorp/raft is taken at its contract: one leader's proposals are     *)
(* committed in one order, and every node applies a prefix of them, entry  *)
(* by entry or by restoring a snapshot.  The log is kept as the states it  *)
(* leads to; an entry that changes nothing leaves no trace.                *)
(***************************************************************************)
EXTENDS ClusterState, Sequences

CONSTANTS
    Node,        \* gateway processes, a subset of the ids
    File,        \* File[n]: the member list of node n's configuration file
    VNodes,      \* the vnode count of the files
    Gens,        \* store generations the guard may propose
    MaxStates,   \* bound on the states the log leads to
    MaxFaults    \* bound on restarts and elections

(* What config.Validate lets through: a node is in its own file, and no    *)
(* two members share an address.                                           *)
ASSUME FileAssumption ==
    /\ Node \subseteq Id
    /\ File \in [Node -> Membership]
    /\ \A n \in Node : File[n][n] # NoAddr /\ Distinct(File[n])
    /\ VNodes \in 0..MaxVNodes
    /\ Gens \subseteq Nat
    /\ MaxStates \in Nat /\ MaxFaults \in Nat

VARIABLES
    states,    \* the states the committed entries lead to, in order
    at,        \* at[n]: the state node n's state machine holds
    told,      \* told[n]: whether OnApply has been called for it
    view,      \* view[n]: the state its ring was built from
    gens,      \* gens[n]: the policyGen and storeGen atomics
    leader,    \* the node whose proposals commit
    heard,     \* heard[n]: LeaderCh holds the news that n leads
    seed,      \* seed[n]: the seeding goroutine
    faults

vars == <<states, at, told, view, gens, leader, heard, seed, faults>>

Last == states[Len(states)]
NoGens == [policy |-> 0, store |-> 0]

TypeOK ==
    /\ states \in Seq(State) /\ Len(states) >= 1
    /\ at \in [Node -> Nat] /\ \A n \in Node : at[n] \in 1..Len(states)
    /\ told \in [Node -> BOOLEAN]
    /\ view \in [Node -> State]
    /\ gens \in [Node -> [policy : Nat, store : Nat]]
    /\ leader \in Node
    /\ heard \in [Node -> BOOLEAN]
    /\ seed \in [Node -> {"waiting", "proposing"}]
    /\ faults \in Nat

(* Nothing committed; every node answers on the ring its file gave it.     *)
Init ==
    /\ states = <<EmptyState>>
    /\ at = [n \in Node |-> 1]
    /\ told = [n \in Node |-> TRUE]
    /\ view = [n \in Node |-> Configured(File[n], VNodes)]
    /\ gens = [n \in Node |-> NoGens]
    /\ leader \in Node
    /\ heard = [n \in Node |-> n = leader]
    /\ seed = [n \in Node |-> "waiting"]
    /\ faults = 0

-----------------------------------------------------------------------------
(* An entry commits; s is the state it leads to.                           *)
Commit(s) ==
    \/ s = Last /\ UNCHANGED states
    \/ s # Last /\ Len(states) < MaxStates /\ states' = Append(states, s)

(* Consensus.Propose from the admin API and from the store guard: only the *)
(* leader's entries commit.                                                *)
Propose ==
    /\ \/ \E i \in Id : Commit(RemoveShard(Last, i)) \/ \E a \in Addr : Commit(AddShard(Last, i, a))
       \/ \E v \in 0..MaxVNodes : Commit(SetVNodes(Last, v))
       \/ Commit(BumpPolicyGen(Last))
       \/ \E g \in Gens : Commit(SetStoreGen(Last, g))
    /\ UNCHANGED <<at, told, view, gens, leader, heard, seed, faults>>

(* Consensus.Seed looks at its own state machine, which may lag the log... *)
SeedLook(n) ==
    /\ seed[n] = "waiting" /\ heard[n]
    /\ heard' = [heard EXCEPT ![n] = FALSE]
    /\ seed' = [seed EXCEPT ![n] =
         IF states[at[n]].members # NoMembers THEN "waiting" ELSE "proposing"]
    /\ UNCHANGED <<states, at, told, view, gens, leader, faults>>

(* ... and proposes its file if that shows no members.                     *)
SeedPropose(n) ==
    /\ seed[n] = "proposing"
    /\ seed' = [seed EXCEPT ![n] = "waiting"]
    /\ IF leader = n THEN Commit(SeedRing(Last, File[n], VNodes)) ELSE UNCHANGED states
    /\ UNCHANGED <<at, told, view, gens, leader, heard, faults>>

(* The proposal times out or leadership is lost before it commits: logged, *)
(* and not tried again until this node is elected anew.                    *)
SeedFails(n) ==
    /\ seed[n] = "proposing" /\ faults < MaxFaults
    /\ faults' = faults + 1
    /\ seed' = [seed EXCEPT ![n] = "waiting"]
    /\ UNCHANGED <<states, at, told, view, gens, leader, heard>>

-----------------------------------------------------------------------------
(* FSM.Apply, or FSM.Restore of a snapshot that covers several entries.    *)
Apply(n) ==
    /\ told[n]
    /\ \E i \in (at[n] + 1)..Len(states) : at' = [at EXCEPT ![n] = i]
    /\ told' = [told EXCEPT ![n] = FALSE]
    /\ UNCHANGED <<states, view, gens, leader, heard, seed, faults>>

(* Mutant: a membership without this node is adopted too. *)
AdoptAny(n, s) == [view EXCEPT ![n] = s]

(* Mutant: only a state that moved tenants is worth adopting. *)
AdoptOnEpoch(n, s) ==
    IF Has(s, n) /\ s.epoch # view[n].epoch THEN [view EXCEPT ![n] = s] ELSE view

(* View.Adopt: a membership without this node is refused.                  *)
Adopt(n, s) == IF Has(s, n) THEN [view EXCEPT ![n] = s] ELSE view

(* Mutant: a refused membership holds back the generations. *)
OnApplyAdoptsFirst(n) ==
    LET s == states[at[n]]
    IN  /\ ~told[n]
        /\ told' = [told EXCEPT ![n] = TRUE]
        /\ gens' = IF Has(s, n) THEN [gens EXCEPT ![n] = [policy |-> s.pgen, store |-> s.sgen]]
                   ELSE gens
        /\ view' = Adopt(n, s)
        /\ UNCHANGED <<states, at, leader, heard, seed, faults>>

(* OnApply: the generations first, then the membership.                    *)
OnApply(n) ==
    LET s == states[at[n]]
    IN  /\ ~told[n]
        /\ told' = [told EXCEPT ![n] = TRUE]
        /\ gens' = [gens EXCEPT ![n] = [policy |-> s.pgen, store |-> s.sgen]]
        /\ view' = Adopt(n, s)
        /\ UNCHANGED <<states, at, leader, heard, seed, faults>>

-----------------------------------------------------------------------------
(* A node comes back with its file and its log on disk, nothing applied.   *)
Restart(n) ==
    /\ faults < MaxFaults
    /\ faults' = faults + 1
    /\ at' = [at EXCEPT ![n] = 1]
    /\ told' = [told EXCEPT ![n] = TRUE]
    /\ view' = [view EXCEPT ![n] = Configured(File[n], VNodes)]
    /\ gens' = [gens EXCEPT ![n] = NoGens]
    /\ heard' = [heard EXCEPT ![n] = FALSE]
    /\ seed' = [seed EXCEPT ![n] = "waiting"]
    /\ UNCHANGED <<states, leader>>

(* A node wins an election; LeaderCh keeps the latest news for each.       *)
Elect(n) ==
    /\ faults < MaxFaults
    /\ faults' = faults + 1
    /\ leader' = n
    /\ heard' = [heard EXCEPT ![leader] = FALSE, ![n] = TRUE]
    /\ UNCHANGED <<states, at, told, view, gens, seed>>

Next ==
    \/ Propose
    \/ \E n \in Node : \/ SeedLook(n) \/ SeedPropose(n) \/ SeedFails(n)
                       \/ Apply(n) \/ OnApply(n) \/ Restart(n) \/ Elect(n)

Spec == Init /\ [][Next]_vars
(* Committed entries reach every node that runs, and Raft's apply          *)
(* goroutine calls OnApply for each.                                       *)
Fairness == \A n \in Node : WF_vars(Apply(n)) /\ WF_vars(OnApply(n))
FairSpec == Spec /\ Fairness

-----------------------------------------------------------------------------
(* "Two ids on one address is one process answering as two shards, which   *)
(* makes ownership meaningless" (state.go): no state the log leads to, and *)
(* no view a node routes by, has two members on one address, whichever way *)
(* the members and their addresses came about.                             *)
AddressesDistinct ==
    /\ \A i \in 1..Len(states) : Distinct(states[i].members)
    /\ \A n \in Node : Distinct(view[n].members)

(* "RingEpoch advances when, and only when, the set of member ids changes  *)
(* or the vnode count changes" (state.go): two states of the log have the  *)
(* same epoch exactly when no tenant could have moved between them.        *)
EpochIsToken ==
    \A i, j \in 1..Len(states) : i <= j =>
        /\ states[i].epoch <= states[j].epoch
        /\ states[i].epoch = states[j].epoch <=> \A k \in i..j : SameRing(states[i], states[k])

(* "Otherwise a node that came back holding a stale file would put back a  *)
(* shard the cluster had removed" (README): a seed, decided on by a leader *)
(* whose own state machine may lag, never replaces members the log has.    *)
SeedNeverOverrides ==
    [][\A n \in Node : seed[n] = "proposing" /\ seed'[n] = "waiting" /\ states' # states
          => Last.members = NoMembers]_vars

(* "Once a membership has committed, the log is the truth and the file is  *)
(* never consulted again" (README).                                        *)
(* Does not hold: see README, section 6.                                   *)
SeedOnlyOnce ==
    [][\A n \in Node : seed[n] = "proposing" /\ seed'[n] = "waiting" /\ states' # states
          => \A i \in 1..Len(states) : states[i].members = NoMembers]_vars

(* A node routes by a membership it is in: what its file says until the    *)
(* log names it, after that a state of the log, and the very state it was  *)
(* last told of if that has it.  A node that is being drained keeps the    *)
(* last one (cluster.go, Adopt).                                           *)
RoutesByNewest ==
    \A n \in Node :
        /\ Has(view[n], n)
        /\ told[n] /\ Has(states[at[n]], n) => view[n] = states[at[n]]
        /\ \/ view[n] = Configured(File[n], VNodes)
           \/ \E i \in 1..at[n] : view[n] = states[i]

(* "A membership that failed to adopt must not hold them back" (main.go):  *)
(* a node carries the generations of the state it was told of, whether or  *)
(* not it is still a member.                                               *)
GensNotHeldBack ==
    \A n \in Node : told[n] =>
        gens[n] = [policy |-> states[at[n]].pgen, store |-> states[at[n]].sgen]

(* A generation that went backwards "would let a stale node's checks start *)
(* passing a fence they had already failed" (state.go): what a node        *)
(* carries falls only when it restarts.                                    *)
GensAscend ==
    [][\A n \in Node :
         \/ gens'[n].policy >= gens[n].policy /\ gens'[n].store >= gens[n].store
         \/ at'[n] = 1]_vars

(* Once the membership stops changing, every node still in it routes by it. *)
ViewsConverge ==
    <>[](\A n \in Node : Has(Last, n) => view[n] = Last)
=============================================================================
