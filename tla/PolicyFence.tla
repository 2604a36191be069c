---------------------------- MODULE PolicyFence ----------------------------
(***************************************************************************)
(* How one tenant's policy travels from Postgres to the counter store, and *)
(* the two fences that keep an old copy from being enforced: the policy    *)
(* cache with its single-flight fetch (internal/policy/cache.go), the      *)
(* change listener (internal/policy/notify.go), the admin edit and its     *)
(* generation (internal/gateway), the decision path                        *)
(* (internal/decide/decide.go) and the policy fence of check.lua.          *)
(*                                                                         *)
(* The rows of the tenant are a sequence of versions.  A copy of a policy  *)
(* is the version that was read and the generation stamped onto it.  The   *)
(* Raft log is abstracted to the committed BumpPolicyGen entries, one      *)
(* total order of which every node has applied a prefix.                   *)
(***************************************************************************)
EXTENDS Naturals, Sequences

CONSTANTS
    Node,        \* gateway processes
    Req,         \* handler goroutines
    Home,        \* Home[r]: the node goroutine r runs on
    Listeners,   \* nodes configured to listen for policy changes
    Editors,     \* nodes the admin API is used on
    ServeStale,  \* whether an expired entry may be served while Postgres fails
    Content,     \* what an edit may leave in the tenant's rows
    MaxVer,      \* bound on the versions of the rows
    MaxGen,      \* bound on the generations minted
    MaxFaults    \* bound on restarts and store wipes together

(* "closed" and "open" are policies by their failure_mode; the other two   *)
(* are answers about the tenant, not policies (policy.isAnswer).           *)
Gone == {"disabled", "deleted"}
Contents == {"closed", "open"} \cup Gone

ASSUME ConstantsAssumption ==
    /\ Home \in [Req -> Node]
    /\ Listeners \subseteq Node /\ Editors \subseteq Node
    /\ ServeStale \in BOOLEAN
    /\ Content \subseteq Contents
    /\ MaxVer \in Nat /\ MaxGen \in Nat /\ MaxFaults \in Nat

VARIABLES
    rows,      \* rows[v]: what version v of the tenant's rows holds (Postgres)
    log,       \* log[g]: the version whose edit proposed generation g (Raft)
    applied,   \* applied[n]: the policyGen atomic of node n
    admin,     \* admin[n]: the admin write node n is serving
    lst,       \* lst[n]: the change listener's connection
    notes,     \* notes[n]: notifications queued on it
    cache,     \* cache[n]: the tenant's entry in the policy cache
    flight,    \* flight[n]: the single-flight fetch
    req,       \* req[r]: the decision goroutine r is making
    bound,     \* policy_gen in the tenant's meta key, 0 when absent (Redis)
    faults     \* restarts and wipes so far

vars == <<rows, log, applied, admin, lst, notes, cache, flight, req, bound, faults>>

-----------------------------------------------------------------------------
(* An entry is live until its TTL lapses, expired while it may still be    *)
(* served should Postgres fail, dead afterwards.  overtaken is a history   *)
(* flag: the cache was invalidated after the rows had been read and before *)
(* the copy was stored.                                                    *)
Entry == [state : {"none", "live", "expired", "dead"}, ver : Nat, gen : Nat,
          overtaken : BOOLEAN]
NoEntry == [state |-> "none", ver |-> 0, gen |-> 0, overtaken |-> FALSE]

Flight == [phase : {"none", "begin", "stamped", "read", "landing", "failed"},
           ver : Nat, gen : Nat, overtaken : BOOLEAN]
NoFlight == [phase |-> "none", ver |-> 0, gen |-> 0, overtaken |-> FALSE]

Outcome == {"none", "decided", "fenced", "degraded", "unavailable", "nopolicy",
            "notfound"}
(* seen is a history field: the generation the self-check found the copy   *)
(* in hand to be older than.                                               *)
Request == [pc : {"idle", "lookup", "join", "waiting", "self", "invalidate",
                  "check", "done"},
            refreshed : BOOLEAN, held : Entry, ver : Nat, gen : Nat, seen : Nat,
            out : Outcome]
IdleRequest == [pc |-> "idle", refreshed |-> FALSE, held |-> NoEntry,
                ver |-> 0, gen |-> 0, seen |-> 0, out |-> "none"]

Write == [pc : {"idle", "written", "propose"}, ver : Nat]
NoWrite == [pc |-> "idle", ver |-> 0]

TypeOK ==
    /\ rows \in Seq(Contents) /\ Len(rows) >= 1
    /\ log \in Seq(Nat)
    /\ applied \in [Node -> Nat]
    /\ admin \in [Node -> Write]
    /\ lst \in [Node -> {"down", "subscribed", "up"}]
    /\ notes \in [Node -> Nat]
    /\ cache \in [Node -> Entry]
    /\ flight \in [Node -> Flight]
    /\ req \in [Req -> Request]
    /\ bound \in Nat
    /\ faults \in Nat

(* A tenant with a policy, no generation minted, every process just up.    *)
Init ==
    /\ rows \in {<<c>> : c \in Content \ Gone}
    /\ log = <<>>
    /\ applied = [n \in Node |-> 0]
    /\ admin = [n \in Node |-> NoWrite]
    /\ lst = [n \in Node |-> "down"]
    /\ notes = [n \in Node |-> 0]
    /\ cache = [n \in Node |-> NoEntry]
    /\ flight = [n \in Node |-> NoFlight]
    /\ req = [r \in Req |-> IdleRequest]
    /\ bound = 0
    /\ faults = 0

-----------------------------------------------------------------------------
(* The policy cache.                                                       *)

(* Cache.Invalidate and Cache.InvalidateAll, for this tenant.              *)
Invalidate(n) ==
    /\ cache' = [cache EXCEPT ![n] = NoEntry]
    /\ flight' = [flight EXCEPT ![n].overtaken = @ \/ flight[n].phase = "read"]

(* The TTL lapses: Cache.expired becomes true of the entry.                *)
Expire(n) ==
    /\ cache[n].state = "live"
    /\ cache' = [cache EXCEPT ![n].state = IF ServeStale THEN "expired" ELSE "dead"]
    /\ UNCHANGED <<rows, log, applied, admin, lst, notes, flight, req, bound, faults>>

(* The serve-stale window lapses too.                                      *)
StaleOut(n) ==
    /\ cache[n].state = "expired"
    /\ cache' = [cache EXCEPT ![n].state = "dead"]
    /\ UNCHANGED <<rows, log, applied, admin, lst, notes, flight, req, bound, faults>>

(* The function group.Do runs: look again, then stamp the generation...    *)
FlightStart(n) ==
    /\ flight[n].phase = "begin"
    /\ flight' = [flight EXCEPT ![n] =
         IF cache[n].state = "live"
         THEN [phase |-> "landing", ver |-> cache[n].ver, gen |-> cache[n].gen,
               overtaken |-> cache[n].overtaken]
         ELSE [phase |-> "stamped", ver |-> 0, gen |-> applied[n], overtaken |-> FALSE]]
    /\ UNCHANGED <<rows, log, applied, admin, lst, notes, cache, req, bound, faults>>

(* ... then read the rows ...                                              *)
FlightRead(n) ==
    /\ flight[n].phase = "stamped"
    /\ flight' = [flight EXCEPT ![n] = [@ EXCEPT !.phase = "read", !.ver = Len(rows)]]
    /\ UNCHANGED <<rows, log, applied, admin, lst, notes, cache, req, bound, faults>>

(* Mutant: a fetch that fails gives the expired entry another TTL. *)
FlightFailRenews(n) ==
    /\ flight[n].phase = "stamped"
    /\ flight' = [flight EXCEPT ![n] = [@ EXCEPT !.phase = "failed", !.gen = 0]]
    /\ cache' = [cache EXCEPT ![n].state = IF @ = "expired" THEN "live" ELSE @]
    /\ UNCHANGED <<rows, log, applied, admin, lst, notes, req, bound, faults>>

(* ... or fail to: Postgres is unreachable or the caller gave up ...       *)
FlightFail(n) ==
    /\ flight[n].phase = "stamped"
    /\ flight' = [flight EXCEPT ![n] = [@ EXCEPT !.phase = "failed", !.gen = 0]]
    /\ UNCHANGED <<rows, log, applied, admin, lst, notes, cache, req, bound, faults>>

(* Mutant: the generation is stamped after the fetch. *)
FlightStoreStampsLate(n) ==
    /\ flight[n].phase = "read"
    /\ cache' = [cache EXCEPT ![n] =
         [state |-> "live", ver |-> flight[n].ver, gen |-> applied[n],
          overtaken |-> flight[n].overtaken]]
    /\ flight' = [flight EXCEPT ![n] = [@ EXCEPT !.phase = "landing", !.gen = applied[n]]]
    /\ UNCHANGED <<rows, log, applied, admin, lst, notes, req, bound, faults>>

(* ... and store the entry.  The flight is still joinable until Do returns. *)
FlightStore(n) ==
    /\ flight[n].phase = "read"
    /\ cache' = [cache EXCEPT ![n] =
         [state |-> "live", ver |-> flight[n].ver, gen |-> flight[n].gen,
          overtaken |-> flight[n].overtaken]]
    /\ flight' = [flight EXCEPT ![n].phase = "landing"]
    /\ UNCHANGED <<rows, log, applied, admin, lst, notes, req, bound, faults>>

(* A handler that was given copy c of the policy: a cached "no such tenant" *)
(* answers it, a policy goes to the self-check.                            *)
Given(q, c) ==
    LET answered == rows[c.ver] \in Gone
    IN  [q EXCEPT !.pc = IF answered THEN "done" ELSE "self",
                  !.out = IF answered THEN "notfound" ELSE "none",
                  !.ver = c.ver, !.gen = c.gen, !.held = NoEntry]

(* Lookup after Do has returned: the fetched entry, or after a failure the *)
(* expired entry the handler set out with, while it may still be served.   *)
Woken(q, f) ==
    IF f.phase = "landing" THEN Given(q, f)
    ELSE IF q.held.state = "expired" THEN Given(q, q.held)
    ELSE [q EXCEPT !.pc = "done", !.out = "nopolicy", !.held = NoEntry]

(* Do returns to everyone who waited on it.                                *)
FlightLand(n) ==
    /\ flight[n].phase \in {"landing", "failed"}
    /\ req' = [r \in Req |-> IF Home[r] = n /\ req[r].pc = "waiting"
                             THEN Woken(req[r], flight[n]) ELSE req[r]]
    /\ flight' = [flight EXCEPT ![n] = NoFlight]
    /\ UNCHANGED <<rows, log, applied, admin, lst, notes, cache, bound, faults>>

-----------------------------------------------------------------------------
(* The decision path, Service.decideHere.                                  *)

Arrive(r) ==
    /\ req[r].pc = "idle"
    /\ req' = [req EXCEPT ![r].pc = "lookup"]
    /\ UNCHANGED <<rows, log, applied, admin, lst, notes, cache, flight, bound, faults>>

(* Cache.Lookup: a live entry is a hit ...                                 *)
Lookup(r) ==
    LET e == cache[Home[r]]
    IN  /\ req[r].pc = "lookup"
        /\ req' = [req EXCEPT ![r] = IF e.state = "live" THEN Given(@, e)
                                    ELSE [@ EXCEPT !.pc = "join", !.held = e]]
        /\ UNCHANGED <<rows, log, applied, admin, lst, notes, cache, flight, bound, faults>>

(* ... anything else calls group.Do, which starts a fetch or joins the one *)
(* under way.                                                              *)
Join(r) ==
    LET n == Home[r]
    IN  /\ req[r].pc = "join"
        /\ req' = [req EXCEPT ![r].pc = "waiting"]
        /\ flight' = IF flight[n].phase = "none"
                     THEN [flight EXCEPT ![n].phase = "begin"] ELSE flight
        /\ UNCHANGED <<rows, log, applied, admin, lst, notes, cache, bound, faults>>

(* The node compares its copy with the newest generation it has applied.   *)
SelfCheck(r) ==
    /\ req[r].pc = "self"
    /\ req' = [req EXCEPT ![r] =
         IF @.gen > 0 /\ ~@.refreshed /\ applied[Home[r]] > @.gen
         THEN [@ EXCEPT !.pc = "invalidate", !.seen = applied[Home[r]]]
         ELSE [@ EXCEPT !.pc = "check"]]
    /\ UNCHANGED <<rows, log, applied, admin, lst, notes, cache, flight, bound, faults>>

(* Mutant: the retry does not remember that it is one. *)
RefreshForgets(r) ==
    /\ req[r].pc = "invalidate"
    /\ Invalidate(Home[r])
    /\ req' = [req EXCEPT ![r] = [@ EXCEPT !.pc = "lookup", !.ver = 0, !.gen = 0]]
    /\ UNCHANGED <<rows, log, applied, admin, lst, notes, bound, faults>>

(* A copy found out of date is dropped and the decision retried, once.     *)
Refresh(r) ==
    /\ req[r].pc = "invalidate"
    /\ Invalidate(Home[r])
    /\ req' = [req EXCEPT ![r] = [@ EXCEPT !.pc = "lookup", !.refreshed = TRUE,
                                           !.ver = 0, !.gen = 0]]
    /\ UNCHANGED <<rows, log, applied, admin, lst, notes, bound, faults>>

(* Mutant: off by one, a copy one generation behind passes. *)
PolicyStaleByTwo(gen) == gen > 0 /\ bound > 0 /\ gen + 1 < bound

(* The fence of check.lua: what the stored generation refuses, and what it *)
(* becomes when the call passes, whether or not quota is granted.          *)
PolicyStale(gen) == gen > 0 /\ bound > 0 /\ gen < bound
Advance(gen) == IF gen > bound THEN gen ELSE bound

(* The script ran and its reply arrived.                                   *)
Check(r) ==
    LET q == req[r]
    IN  /\ q.pc = "check"
        /\ IF PolicyStale(q.gen)
           THEN /\ req' = [req EXCEPT ![r] =
                      IF q.refreshed THEN [q EXCEPT !.pc = "done", !.out = "fenced"]
                      ELSE [q EXCEPT !.pc = "invalidate"]]
                /\ UNCHANGED bound
           ELSE /\ req' = [req EXCEPT ![r] = [q EXCEPT !.pc = "done", !.out = "decided"]]
                /\ bound' = Advance(q.gen)
        /\ UNCHANGED <<rows, log, applied, admin, lst, notes, cache, flight, faults>>

(* The call failed, before the script ran or after: the failure mode of    *)
(* the policy in hand decides.                                             *)
CheckFails(r) ==
    LET q == req[r]
    IN  /\ q.pc = "check"
        /\ req' = [req EXCEPT ![r] = [q EXCEPT !.pc = "done", !.out =
                     IF rows[q.ver] = "open" THEN "degraded" ELSE "unavailable"]]
        /\ \/ UNCHANGED bound
           \/ ~PolicyStale(q.gen) /\ bound' = Advance(q.gen)
        /\ UNCHANGED <<rows, log, applied, admin, lst, notes, cache, flight, faults>>

Reply(r) ==
    /\ req[r].pc = "done"
    /\ req' = [req EXCEPT ![r] = IdleRequest]
    /\ UNCHANGED <<rows, log, applied, admin, lst, notes, cache, flight, bound, faults>>

-----------------------------------------------------------------------------
(* An admin edit: Postgres, then this node's cache, then the log.          *)

(* The write commits and its trigger notifies every open listener.         *)
AdminWrite(n, c) ==
    /\ admin[n].pc = "idle"
    /\ Len(rows) < MaxVer
    /\ rows' = Append(rows, c)
    /\ notes' = [m \in Node |-> IF lst[m] = "down" THEN 0 ELSE notes[m] + 1]
    /\ admin' = [admin EXCEPT ![n] = [pc |-> "written", ver |-> Len(rows) + 1]]
    /\ UNCHANGED <<log, applied, lst, cache, flight, req, bound, faults>>

(* The handler drops its node's copy.  Deleting a tenant stops here; an    *)
(* upsert goes on to mint a generation.                                    *)
AdminInvalidate(n) ==
    /\ admin[n].pc = "written"
    /\ Invalidate(n)
    /\ admin' = [admin EXCEPT ![n] = IF rows[admin[n].ver] = "deleted" THEN NoWrite
                                    ELSE [@ EXCEPT !.pc = "propose"]]
    /\ UNCHANGED <<rows, log, applied, lst, notes, req, bound, faults>>

(* An upsert of another tenant: its rows are none of ours, its generation  *)
(* is, because the counter is one for the whole cluster.  (An upsert of a  *)
(* policy drops every tenant's copy: AdminWrite with the content it had.)  *)
AdminOther(n) ==
    /\ admin[n].pc = "idle"
    /\ admin' = [admin EXCEPT ![n] = [pc |-> "propose", ver |-> 0]]
    /\ UNCHANGED <<rows, log, applied, lst, notes, cache, flight, req, bound, faults>>

(* bumpPolicyGen commits.  The answer may still be 409, if leadership was  *)
(* lost before the future resolved; nothing else depends on it.            *)
BumpPolicyGen(n) ==
    /\ admin[n].pc = "propose"
    /\ Len(log) < MaxGen
    /\ log' = Append(log, admin[n].ver)
    /\ admin' = [admin EXCEPT ![n] = NoWrite]
    /\ UNCHANGED <<rows, applied, lst, notes, cache, flight, req, bound, faults>>

(* Not the leader, or the entry could not be committed: 409, edit written, *)
(* not fenced.                                                             *)
BumpRefused(n) ==
    /\ admin[n].pc = "propose"
    /\ admin' = [admin EXCEPT ![n] = NoWrite]
    /\ UNCHANGED <<rows, log, applied, lst, notes, cache, flight, req, bound, faults>>

(* FSM.Apply, or FSM.Restore of a snapshot that covers several entries,    *)
(* and the OnApply that publishes the generation to every later check.     *)
Apply(n) ==
    /\ \E g \in (applied[n] + 1)..Len(log) : applied' = [applied EXCEPT ![n] = g]
    /\ UNCHANGED <<rows, log, admin, lst, notes, cache, flight, req, bound, faults>>

-----------------------------------------------------------------------------
(* The change listener, Listener.listen.                                   *)

Listen(n) ==
    /\ n \in Listeners /\ lst[n] = "down"
    /\ lst' = [lst EXCEPT ![n] = "subscribed"]
    /\ UNCHANGED <<rows, log, applied, admin, notes, cache, flight, req, bound, faults>>

(* Mutant: the listener trusts the cache it finds. *)
ListenNoFlush(n) ==
    /\ lst[n] = "subscribed"
    /\ lst' = [lst EXCEPT ![n] = "up"]
    /\ UNCHANGED <<rows, log, applied, admin, notes, cache, flight, req, bound, faults>>

(* Once subscribed, everything cached is dropped.                          *)
ListenFlush(n) ==
    /\ lst[n] = "subscribed"
    /\ lst' = [lst EXCEPT ![n] = "up"]
    /\ Invalidate(n)
    /\ UNCHANGED <<rows, log, applied, admin, notes, req, bound, faults>>

(* A notification is taken off the connection and what it names dropped.   *)
Notified(n) ==
    /\ lst[n] = "up" /\ notes[n] > 0
    /\ notes' = [notes EXCEPT ![n] = @ - 1]
    /\ Invalidate(n)
    /\ UNCHANGED <<rows, log, applied, admin, lst, req, bound, faults>>

(* The connection drops and what was queued on it is lost.                 *)
ListenerDrops(n) ==
    /\ lst[n] # "down"
    /\ lst' = [lst EXCEPT ![n] = "down"]
    /\ notes' = [notes EXCEPT ![n] = 0]
    /\ UNCHANGED <<rows, log, applied, admin, cache, flight, req, bound, faults>>

-----------------------------------------------------------------------------
(* A node stops and comes back with nothing but its Raft log, which it has *)
(* yet to replay: its atomics start at zero.                               *)
Restart(n) ==
    /\ faults < MaxFaults
    /\ faults' = faults + 1
    /\ applied' = [applied EXCEPT ![n] = 0]
    /\ admin' = [admin EXCEPT ![n] = NoWrite]
    /\ lst' = [lst EXCEPT ![n] = "down"]
    /\ notes' = [notes EXCEPT ![n] = 0]
    /\ cache' = [cache EXCEPT ![n] = NoEntry]
    /\ flight' = [flight EXCEPT ![n] = NoFlight]
    /\ req' = [r \in Req |-> IF Home[r] = n THEN IdleRequest ELSE req[r]]
    /\ UNCHANGED <<rows, log, bound>>

(* The counter store loses everything, the meta key included.              *)
Wipe ==
    /\ faults < MaxFaults
    /\ faults' = faults + 1
    /\ bound' = 0
    /\ UNCHANGED <<rows, log, applied, admin, lst, notes, cache, flight, req>>

FlightStep(n) ==
    FlightStart(n) \/ FlightRead(n) \/ FlightFail(n) \/ FlightStore(n) \/ FlightLand(n)

HandlerStep(r) ==
    Lookup(r) \/ Join(r) \/ SelfCheck(r) \/ Refresh(r) \/ Check(r) \/ CheckFails(r)

Next ==
    \/ \E n \in Node :
          \/ Expire(n) \/ StaleOut(n) \/ FlightStep(n)
          \/ AdminInvalidate(n) \/ BumpPolicyGen(n) \/ BumpRefused(n) \/ Apply(n)
          \/ Listen(n) \/ ListenFlush(n) \/ Notified(n) \/ ListenerDrops(n)
          \/ Restart(n)
    \/ \E n \in Editors : AdminOther(n) \/ \E c \in Content : AdminWrite(n, c)
    \/ \E r \in Req : Arrive(r) \/ HandlerStep(r) \/ Reply(r)
    \/ Wipe

Spec == Init /\ [][Next]_vars

(* Goroutines that can run do run, a fetch ends (it has a deadline), and   *)
(* the clock moves past every TTL.  Nothing is assumed of the log reaching *)
(* a node, of listeners, or of anyone arriving or editing.                 *)
Fairness ==
    /\ \A r \in Req : WF_vars(HandlerStep(r))
    /\ \A n \in Node : WF_vars(FlightStep(n)) /\ WF_vars(Expire(n))

FairSpec == Spec /\ Fairness

-----------------------------------------------------------------------------
(* Version ver has every edit whose generation is gen or older.            *)
Contains(ver, gen) == gen <= Len(log) /\ \A g \in 1..gen : log[g] <= ver
Sound(c) == Contains(c.ver, c.gen)

(* "The generation is read BEFORE the fetch, and that ordering is the      *)
(* whole safety of the fence" (policy/cache.go): wherever a copy is - in a *)
(* cache, in a fetch, held back to be served stale, in the hands of a      *)
(* request - its stamp never claims an edit the copy does not contain.     *)
StampSound ==
    /\ \A n \in Node : Sound(cache[n])
    /\ \A n \in Node : flight[n].phase \in {"read", "landing"} => Sound(flight[n])
    /\ \A r \in Req : Sound(req[r]) /\ Sound(req[r].held)

(* The point of the fence in check.lua: once a check carrying generation g *)
(* has passed for the tenant, no later check that carries a generation is  *)
(* decided under a copy that lacks the edit g stands for, whichever node   *)
(* sends it and however far behind that node is.                           *)
FencedNeverOutrun ==
    [][\A r \in Req :
         /\ req[r].pc = "check" /\ req'[r].pc = "done" /\ req'[r].out = "decided"
         /\ req[r].gen > 0 /\ bound > 0
         => log[bound] <= req[r].ver]_vars

(* "A tightened limit cannot be outrun by a node still holding the old     *)
(* one" (README, M6): the same of every check, stamped or not.             *)
(* Does not hold: see README, section 6.                                   *)
NeverOutrun ==
    [][\A r \in Req :
         /\ req[r].pc = "check" /\ req'[r].pc = "done" /\ req'[r].out = "decided"
         /\ bound > 0
         => log[bound] <= req[r].ver]_vars

(* "The node checks its own copy against the newest generation the cluster *)
(* has minted, and refreshes before enforcing anything older" (README): a  *)
(* decision that found its copy older than a generation is then made under *)
(* a copy that has the edits of that generation.                           *)
(* Does not hold: see README, section 6.                                   *)
RefreshedBeforeEnforcing ==
    \A r \in Req : req[r].out = "decided" =>
        \A g \in 1..req[r].seen : log[g] <= req[r].ver

(* With the listener connected and its queue empty, a live copy is the     *)
(* newest version, unless the fetch that stored it was overtaken by an     *)
(* invalidation (policy/notify.go subscribes before it drops the cache).   *)
ListenerKeepsFresh ==
    \A n \in Node :
        /\ lst[n] = "up" /\ notes[n] = 0
        /\ cache[n].state = "live" /\ ~cache[n].overtaken
        => cache[n].ver = Len(rows)

(* "There is no third": every decision ends, even on a node whose log is   *)
(* cut off and whose refreshed copy is refused again (decide.go).          *)
Answered ==
    \A r \in Req : req[r].pc = "lookup" ~> req[r].pc \in {"done", "idle"}

(* Once editing stops, the TTL alone makes every cache converge on the     *)
(* newest version, with no listener and no log (policy/cache.go).          *)
Converges ==
    <>[](\A n \in Node : cache[n].state = "live" => cache[n].ver = Len(rows))
=============================================================================
