---------------------------- MODULE PolicyStore ----------------------------
(***************************************************************************)
(* The policy store in Postgres: its tables and their constraints          *)
(* (migrations/0001_policy_store.up.sql), the statements and the one       *)
(* transaction that write them (internal/policy/postgres.go), the admin    *)
(* API in front (internal/gateway/admin.go), and another replica whose     *)
(* cache follows the triggers' notifications (internal/policy/notify.go).  *)
(*                                                                         *)
(* Transactions run at READ COMMITTED, the default: the rows below are the *)
(* committed ones, what a transaction has deleted and inserted is in its   *)
(* handler's record until it commits, and a row lock is held until then.   *)
(* A statement outside a transaction is one step.  How a fetch races with  *)
(* an invalidation inside one cache is the subject of PolicyFence; here a  *)
(* fetch is one step.                                                      *)
(***************************************************************************)
EXTENDS Naturals, Sequences, Functions

CONSTANTS
    Admin,       \* handlers of PUT /admin/v1/policies/{name}
    Policy,      \* names of policies
    TenantId,    \* ids of tenants
    Key,         \* generated secrets, identified with their hashes
    PrefixOf,    \* PrefixOf[k]: the characters of k kept for a human
    Body,        \* bodies an operator may PUT
    Storable,    \* limit names the CHECK of policy_limits accepts
    Demo,        \* the record, policy and tenant the migrations insert
    NoRow,       \* no row, no entry, nobody
    MaxWrites    \* bound on the admin requests

Modes == {"closed", "open"}

(* A body carries a sequence of limits, and the migrations insert a record *)
(* that PutPolicy would have stored.                                       *)
ASSUME StoreAssumption ==
    /\ NoRow \notin Admin /\ NoRow \notin Modes /\ NoRow \notin Body
    /\ \A b \in Body : b.limits \in Seq(Range(b.limits))
    /\ Demo.policy \in Policy /\ Demo.tenant \in TenantId /\ Demo.body \in Body
    /\ Demo.body.mode \in Modes /\ Demo.body.limits # <<>>
    /\ Range(Demo.body.limits) \subseteq Storable

VARIABLES
    policies,    \* policies[p]: failure_mode of the row, or NoRow
    limits,      \* rows of policy_limits
    tenants,     \* tenants[t]: the row, or NoRow
    keys,        \* rows of api_keys
    lock,        \* lock[p]: the transaction holding the row of policy p
    put,         \* put[a]: the PUT handler a is serving
    entries,     \* entries[t]: the replica's cached answer about t
    listener,    \* the replica's LISTEN connection
    notes,       \* notifications queued on it
    writes,      \* admin requests so far
    last,        \* history: the body of the last PUT of p to commit
    ended        \* history: keys revoked, or deleted with their tenant

store == <<policies, limits, tenants, keys>>
replica == <<entries, listener, notes>>
vars == <<policies, limits, tenants, keys, lock, put, entries, listener, notes,
          writes, last, ended>>

-----------------------------------------------------------------------------
Row(p, n) == [policy |-> p, name |-> n]
RowsOf(p) == {r \in limits : r.policy = p}

NoPut == [pc |-> "idle", policy |-> NoRow, body |-> NoRow, deleted |-> {},
          done |-> 0]
PutPcs == {"idle", "upsert", "clear", "insert", "commit"}

TypeOK ==
    /\ policies \in [Policy -> Modes \cup {NoRow}]
    /\ \A r \in limits : policies[r.policy] # NoRow /\ r.name \in Storable
    /\ \A t \in TenantId : tenants[t] # NoRow => policies[tenants[t].policy] \in Modes
    /\ \A r \in keys : tenants[r.tenant] # NoRow /\ r.revoked \in BOOLEAN
    /\ \A r, s \in keys : r.key = s.key => r = s
    /\ \A p \in Policy : lock[p] \in Admin \cup {NoRow}
    /\ \A a \in Admin : put[a].pc \in PutPcs
    /\ listener \in {"off", "subscribed", "flushed"}
    /\ writes \in 0..MaxWrites
    /\ ended \subseteq Key

(* The migrated store, which 0002_demo_tenants leaves with a tenant, and a *)
(* replica that has not connected yet.                                     *)
Init ==
    /\ policies = [p \in Policy |-> IF p = Demo.policy THEN Demo.body.mode ELSE NoRow]
    /\ limits = {Row(Demo.policy, n) : n \in Range(Demo.body.limits)}
    /\ tenants = [t \in TenantId |-> IF t = Demo.tenant
                                     THEN [policy |-> Demo.policy, disabled |-> FALSE]
                                     ELSE NoRow]
    /\ keys = {}
    /\ lock = [p \in Policy |-> NoRow]
    /\ put = [a \in Admin |-> NoPut]
    /\ entries = [t \in TenantId |-> NoRow]
    /\ listener = "off"
    /\ notes = <<>>
    /\ writes = 0
    /\ last = [p \in Policy |-> IF p = Demo.policy THEN Demo.body ELSE NoRow]
    /\ ended = {}

-----------------------------------------------------------------------------
(* Postgres.Lookup: one statement over the three tables, so one snapshot.  *)
Lookup(t) ==
    IF tenants[t] = NoRow THEN [kind |-> "notfound"]
    ELSE IF tenants[t].disabled THEN [kind |-> "disabled"]
    ELSE LET p == tenants[t].policy
         IN [kind |-> "policy", name |-> p, mode |-> policies[p],
             limits |-> {r.name : r \in RowsOf(p)}]

(* Postgres.TenantForKey: the live row of the key, joined to its tenant.   *)
TenantForKey(k) ==
    {r.tenant : r \in {s \in keys : s.key = k /\ ~s.revoked /\ tenants[s.tenant] # NoRow}}

(* The triggers: a note reaches every listening connection at commit.      *)
Notify(kind, name) ==
    notes' = IF listener = "off" THEN notes
             ELSE Append(notes, [kind |-> kind, name |-> name])

-----------------------------------------------------------------------------
(* PolicyRecord.Validate with Limit.Validate: a known mode or none, at     *)
(* least one limit, no two of one name.  The pattern a name has to match   *)
(* in the tables is not among its questions.                               *)
Validate(b) ==
    /\ b.mode \in Modes \cup {""}
    /\ b.limits # <<>>
    /\ IsInjective(b.limits)

AdminCall == writes < MaxWrites /\ writes' = writes + 1

(* adminUpsertPolicy up to the transaction.                                *)
PutPolicy(a, p, b) ==
    /\ put[a].pc = "idle"
    /\ AdminCall
    /\ put' = IF Validate(b)
              THEN [put EXCEPT ![a].pc = "upsert", ![a].policy = p, ![a].body = b]
              ELSE put
    /\ UNCHANGED <<store, lock, replica, last, ended>>

(* Mutant: a transaction that ends keeps its lock. *)
ReleaseNothing(a) == lock' = lock

(* A transaction that ends, by COMMIT or by the deferred Rollback,         *)
(* releases the row it locked.                                             *)
Release(a) == lock' = [p \in Policy |-> IF lock[p] = a THEN NoRow ELSE lock[p]]

RollBack(a) ==
    /\ put' = [put EXCEPT ![a] = NoPut]
    /\ Release(a)
    /\ UNCHANGED <<store, replica, writes, last, ended>>

(* Mutant: the row is written without its lock. *)
UpsertRowUnlocked(a) ==
    LET h == put[a] IN
    /\ h.pc = "upsert"
    /\ \/ h.body.mode \notin Modes /\ RollBack(a)
       \/ /\ h.body.mode \in Modes
          /\ put' = [put EXCEPT ![a].pc = "clear"]
          /\ UNCHANGED <<store, lock, replica, writes, last, ended>>

(* INSERT INTO policies ... ON CONFLICT DO UPDATE.  The CHECK on the mode  *)
(* comes first; then the row's lock is waited for and kept, whether the    *)
(* row is new or not.                                                      *)
UpsertRow(a) ==
    LET h == put[a] IN
    /\ h.pc = "upsert"
    /\ \/ h.body.mode \notin Modes /\ RollBack(a)
       \/ /\ h.body.mode \in Modes
          /\ lock[h.policy] = NoRow
          /\ lock' = [lock EXCEPT ![h.policy] = a]
          /\ put' = [put EXCEPT ![a].pc = "clear"]
          /\ UNCHANGED <<store, replica, writes, last, ended>>

(* Mutant: the DELETE is not part of the transaction. *)
ClearLimitsAutocommit(a) ==
    LET h == put[a] IN
    /\ h.pc = "clear"
    /\ limits' = limits \ RowsOf(h.policy)
    /\ put' = [put EXCEPT ![a].pc = "insert"]
    /\ UNCHANGED <<policies, tenants, keys, lock, replica, writes, last, ended>>

(* DELETE FROM policy_limits: the rows this statement's snapshot shows.    *)
ClearLimits(a) ==
    LET h == put[a] IN
    /\ h.pc = "clear"
    /\ put' = [put EXCEPT ![a].pc = IF h.body.limits = <<>> THEN "commit" ELSE "insert",
                          ![a].deleted = RowsOf(h.policy)]
    /\ UNCHANGED <<store, lock, replica, writes, last, ended>>

(* The rows a transaction has inserted: those of the limits it is past.    *)
Inserted(h) == {Row(h.policy, h.body.limits[i]) : i \in 1..h.done}

(* INSERT INTO policy_limits, one statement per limit of the body.  The    *)
(* primary key is checked against all the transaction sees, its own rows   *)
(* included.                                                               *)
InsertLimit(a) ==
    LET h == put[a]
        n == h.body.limits[h.done + 1]
        seen == (limits \ h.deleted) \cup Inserted(h)
    IN /\ h.pc = "insert"
       /\ \/ /\ n \notin Storable \/ Row(h.policy, n) \in seen
             /\ RollBack(a)
          \/ /\ n \in Storable /\ Row(h.policy, n) \notin seen
             /\ put' = [put EXCEPT
                    ![a].done = h.done + 1,
                    ![a].pc = IF h.done + 1 = Len(h.body.limits) THEN "commit" ELSE "insert"]
             /\ UNCHANGED <<store, lock, replica, writes, last, ended>>

(* COMMIT.  What follows (the local invalidation, the generation, the      *)
(* answer) is PolicyFence's; when the reply to COMMIT is lost none of it   *)
(* happens, but the rows have changed and the note is on its way.          *)
Commit(a) ==
    LET h == put[a] IN
    /\ h.pc = "commit"
    /\ policies' = [policies EXCEPT ![h.policy] = h.body.mode]
    /\ limits' = (limits \ h.deleted) \cup Inserted(h)
    /\ Release(a)
    /\ Notify("policy", h.policy)
    /\ last' = [last EXCEPT ![h.policy] = h.body]
    /\ put' = [put EXCEPT ![a] = NoPut]
    /\ UNCHANGED <<tenants, keys, entries, listener, writes, ended>>

(* A statement that fails for want of the connection, or a client that     *)
(* went away: the transaction is rolled back.                              *)
Abort(a) ==
    /\ put[a].pc \in {"upsert", "clear", "insert", "commit"}
    /\ RollBack(a)

-----------------------------------------------------------------------------
(* UpsertTenant: one statement.  The foreign key sees committed policies   *)
(* only, and does not wait for a PUT of the policy's other columns.        *)
UpsertTenant(t, p, disabled) ==
    /\ AdminCall
    /\ IF policies[p] = NoRow THEN UNCHANGED <<tenants, notes>>
       ELSE /\ tenants' = [tenants EXCEPT ![t] = [policy |-> p, disabled |-> disabled]]
            /\ Notify("tenant", t)
    /\ UNCHANGED <<policies, limits, keys, lock, put, entries, listener, last, ended>>

(* Mutant: no cascade. *)
DeleteTenantKeepsKeys(t) ==
    /\ AdminCall
    /\ IF tenants[t] = NoRow THEN UNCHANGED <<tenants, notes, ended>>
       ELSE /\ tenants' = [tenants EXCEPT ![t] = NoRow]
            /\ ended' = ended \cup {r.key : r \in {s \in keys : s.tenant = t}}
            /\ Notify("tenant", t)
    /\ UNCHANGED <<policies, limits, keys, lock, put, entries, listener, last>>

(* DeleteTenant: the row, and by cascade its keys.                         *)
DeleteTenant(t) ==
    /\ AdminCall
    /\ IF tenants[t] = NoRow THEN UNCHANGED <<tenants, keys, notes, ended>>
       ELSE /\ tenants' = [tenants EXCEPT ![t] = NoRow]
            /\ keys' = {r \in keys : r.tenant # t}
            /\ ended' = ended \cup {r.key : r \in keys \ keys'}
            /\ Notify("tenant", t)
    /\ UNCHANGED <<policies, limits, lock, put, entries, listener, last>>

(* CreateAPIKey: a freshly generated secret, refused without its tenant.   *)
CreateKey(t, k) ==
    /\ AdminCall
    /\ k \notin ended \cup {r.key : r \in keys}
    /\ keys' = IF tenants[t] = NoRow THEN keys
               ELSE keys \cup {[key |-> k, tenant |-> t, revoked |-> FALSE]}
    /\ UNCHANGED <<policies, limits, tenants, lock, put, replica, last, ended>>

(* RevokeAPIKey: every live key of the tenant with that prefix.            *)
RevokeKey(t, prefix) ==
    LET hit == {r \in keys : r.tenant = t /\ PrefixOf[r.key] = prefix /\ ~r.revoked}
    IN /\ AdminCall
       /\ keys' = (keys \ hit) \cup {[r EXCEPT !.revoked = TRUE] : r \in hit}
       /\ ended' = ended \cup {r.key : r \in hit}
       /\ UNCHANGED <<policies, limits, tenants, lock, put, replica, last>>

-----------------------------------------------------------------------------
(* The other replica.  A lookup that misses keeps whatever answer it got,  *)
(* "no such tenant" and "disabled" included; an entry's TTL lapses.        *)
Fetch(t) ==
    /\ entries[t] = NoRow
    /\ entries' = [entries EXCEPT ![t] = Lookup(t)]
    /\ UNCHANGED <<store, lock, put, listener, notes, writes, last, ended>>

Expire(t) ==
    /\ entries[t] # NoRow
    /\ entries' = [entries EXCEPT ![t] = NoRow]
    /\ UNCHANGED <<store, lock, put, listener, notes, writes, last, ended>>

(* Listener.listen: LISTEN, then drop everything, then the notifications;  *)
(* a connection that drops takes the ones still queued with it.            *)
Listen ==
    /\ listener = "off"
    /\ listener' = "subscribed"
    /\ UNCHANGED <<store, lock, put, entries, notes, writes, last, ended>>

Flush ==
    /\ listener = "subscribed"
    /\ listener' = "flushed"
    /\ entries' = [t \in TenantId |-> NoRow]
    /\ UNCHANGED <<store, lock, put, notes, writes, last, ended>>

Drop ==
    /\ listener # "off"
    /\ listener' = "off"
    /\ notes' = <<>>
    /\ UNCHANGED <<store, lock, put, entries, writes, last, ended>>

(* Mutant: a note drops the tenant it names, a policy's none. *)
CoversByName(note, t) == note.name = t

(* Listener.apply: a tenant's note drops that tenant, a policy's drops all.*)
Covers(note, t) == note.kind = "policy" \/ note.name = t
ApplyNote ==
    /\ listener = "flushed"
    /\ notes # <<>>
    /\ entries' = [t \in TenantId |-> IF Covers(Head(notes), t) THEN NoRow ELSE entries[t]]
    /\ notes' = Tail(notes)
    /\ UNCHANGED <<store, lock, put, listener, writes, last, ended>>

-----------------------------------------------------------------------------
PutStep(a) ==
    UpsertRow(a) \/ ClearLimits(a) \/ InsertLimit(a) \/ Commit(a)

Next ==
    \/ \E a \in Admin : PutStep(a) \/ Abort(a)
    \/ \E a \in Admin, p \in Policy, b \in Body : PutPolicy(a, p, b)
    \/ \E t \in TenantId, p \in Policy, d \in BOOLEAN : UpsertTenant(t, p, d)
    \/ \E t \in TenantId : DeleteTenant(t) \/ Fetch(t) \/ Expire(t)
    \/ \E t \in TenantId, k \in Key : CreateKey(t, k) \/ RevokeKey(t, PrefixOf[k])
    \/ Listen \/ Flush \/ Drop \/ ApplyNote

Spec == Init /\ [][Next]_vars

(* A statement sent to Postgres returns, and a lock waited for is granted  *)
(* once it is free.                                                        *)
Fairness == \A a \in Admin : WF_vars(PutStep(a))
FairSpec == Spec /\ Fairness

-----------------------------------------------------------------------------
Stored(p) == [mode |-> policies[p], limits |-> {r.name : r \in RowsOf(p)}]

(* UpsertPolicy "replaces its limits atomically": at every instant a       *)
(* policy's rows are the mode and the limits of one PUT, the last to       *)
(* commit, whatever PUTs of the same policy run beside it and wherever one *)
(* of them fails.                                                          *)
OneRecord ==
    \A p \in Policy :
        IF last[p] = NoRow THEN policies[p] = NoRow /\ RowsOf(p) = {}
        ELSE Stored(p) = [mode |-> last[p].mode, limits |-> Range(last[p].limits)]

(* No lookup of a tenant, on the store or from the replica's cache, ever   *)
(* finds a policy without limits: that tenant would be unlimited.          *)
NeverUnlimited ==
    \A t \in TenantId : \A e \in {Lookup(t), entries[t]} \ {NoRow} :
        e.kind = "policy" => e.limits # {}

(* A key that was revoked, or whose tenant was deleted, authenticates      *)
(* nobody again, not even when a tenant of that id is created anew.        *)
EndedKeysStayEnded ==
    \A k \in ended : TenantForKey(k) = {}

(* The replica's listener is connected and flushed: an entry that differs  *)
(* from the rows is about to be dropped by a queued notification, whether  *)
(* the tenant, the policy it points at or that policy's limits changed.    *)
ReplicaFollows ==
    listener = "flushed" =>
        \A t \in TenantId :
            \/ entries[t] \in {NoRow, Lookup(t)}
            \/ \E n \in Range(notes) : n.kind = "policy" \/ n.name = t

(* Every PUT is answered, also one that waits for the row another holds.   *)
PutsAnswered ==
    \A a \in Admin : put[a].pc = "upsert" ~> put[a].pc = "idle"
=============================================================================
