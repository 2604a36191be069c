------------------------------ MODULE Serving ------------------------------
(***************************************************************************)
(* A request from the surface it arrives on to the answer it gets: the     *)
(* decision API, the proxied data path and the gRPC service                *)
(* (internal/gateway, internal/grpcapi), who the request speaks for        *)
(* (internal/auth), and the decision: here, or on the node the ring names  *)
(* and here after all when that node does not answer (internal/decide,     *)
(* internal/forward).                                                      *)
(*                                                                         *)
(* A request is served by legs: the first on the node it reached, a second *)
(* on the node it was forwarded to.  The counter store is shared, and      *)
(* each tenant has one limit in it.  The nodes' views of the ring, the     *)
(* policy source, the store guard and the two fences answer whatever they  *)
(* like (Cluster, PolicyFence and StoreGuard say when), and every call may *)
(* fail.                                                                   *)
(***************************************************************************)
EXTENDS Naturals, Sequences, FiniteSets

CONSTANTS
    Server,       \* the nodes, numbered
    Size,         \* number of hashes of the ring
    PointHash,    \* PointHash[<<n, v>>]: where the ring puts point v of node n
    TenantHash,   \* TenantHash[t]
    MaxPoints,    \* bound on the points of a node
    Tenant,
    FailsClosed,  \* the tenants whose policy refuses when the store is down
    Trusts,       \* the nodes that take a tenant's name from the request
    Verifies,     \* the nodes that have authentication configured
    Capacity,     \* what the limit of a tenant can admit
    Req,          \* requests
    None

RingOf(VNodes) == INSTANCE RingOrder WITH Node <- Server

ASSUME ServingAssumption ==
    /\ Server \subseteq Nat /\ Size \in Nat \ {0} /\ MaxPoints \in Nat \ {0}
    /\ PointHash \in [Server \X (0..(MaxPoints - 1)) -> 0..(Size - 1)]
    /\ TenantHash \in [Tenant -> 0..(Size - 1)]
    /\ FailsClosed \subseteq Tenant /\ Trusts \cup Verifies \subseteq Server
    /\ Capacity \in Nat \ {0}
    /\ Tenant \cap {None, "bad", "badCredentials", "noCredentials", "tenantMissing"} = {}
    /\ None # "bad"

VARIABLES
    used,    \* used[t]: what has been charged to t's limit
    req      \* req[r]: a request and its legs

servingVars == <<used, req>>

Errors == {"unknown", "disabled", "cost", "fenced", "store", "other"}
Answers == {"allowed", "refused", "degraded"}

(* A leg: where, how far, whether the policy has been read again, and what *)
(* came of it.                                                             *)
Leg(n, pc) == [node |-> n, pc |-> pc, again |-> FALSE, out |-> "none"]

NewRequest == [pc |-> "new", surface |-> "none", tenant |-> None, cost |-> 0,
               peek |-> FALSE, legs |-> <<>>, code |-> "none",
               owner |-> None,    \* history: the tenant of the key presented
               badKey |-> FALSE,  \* history: the key presented is nobody's
               said |-> {},       \* history: what lookups and the store said
               charged |-> 0, published |-> 0, fell |-> FALSE]

ServingTypeOK ==
    /\ used \in [Tenant -> 0..Capacity]
    /\ \A r \in Req : /\ req[r].pc \in {"new", "serving", "upstream", "answered"}
                      /\ req[r].tenant \in Tenant \cup {None}
                      /\ \A i \in DOMAIN req[r].legs :
                           /\ req[r].legs[i].pc \in {"decide", "waiting", "policy",
                                                     "check", "done", "gone"}
                           /\ req[r].legs[i].out \in Errors \cup Answers
                                \cup {"none", "unauthenticated"}

ServingInit ==
    /\ used \in [Tenant -> 0..Capacity]   \* by other requests
    /\ req = [r \in Req |-> NewRequest]

-----------------------------------------------------------------------------
(* Who the request speaks for.                                             *)

(* A key, or over HTTP a token: one that cannot be looked up, for want of  *)
(* the store too, is a wrong one.                                          *)
Authenticate(key) == IF key \in Tenant THEN {key, "badCredentials"} ELSE {"badCredentials"}

(* Mutant: a key that is nobody's leaves the name in the request standing. *)
HttpSpeaksForFallback(n, key, field) ==
    CASE n \in Verifies /\ key \in Tenant -> Authenticate(key)
      [] n \in Trusts -> {IF field # None THEN field ELSE "tenantMissing"}
      [] OTHER -> {"noCredentials"}

(* resolveTenant: a key decides, and the header only where it is trusted.  *)
HttpSpeaksFor(n, key, field) ==
    CASE n \in Verifies /\ key # None -> Authenticate(key)
      [] ~(n \in Verifies /\ key # None) /\ n \in Trusts ->
           {IF field # None THEN field ELSE "tenantMissing"}
      [] OTHER -> {IF n \in Verifies THEN "noCredentials" ELSE "tenantMissing"}

(* tenant, of the gRPC service.                                            *)
GrpcSpeaksFor(n, key, field) ==
    CASE n \in Verifies /\ key # None -> Authenticate(key)
      [] ~(n \in Verifies /\ key # None) /\ field = None -> {"tenantMissing"}
      [] OTHER -> {IF n \in Trusts THEN field ELSE "badCredentials"}

HttpAuthCode(who) == IF who = "tenantMissing" THEN "400" ELSE "401"
GrpcAuthCode(who) == IF who = "tenantMissing" THEN "InvalidArgument" ELSE "Unauthenticated"

Reject(r, surface, code) ==
    /\ req[r].pc = "new"
    /\ req' = [req EXCEPT ![r] = [@ EXCEPT !.pc = "answered", !.surface = surface,
                                           !.code = code]]
    /\ UNCHANGED used

(* The question is put to this node's Decide.                              *)
Ask(r, n, surface, key, who, cost, peek) ==
    /\ req[r].pc = "new"
    /\ req' = [req EXCEPT ![r] =
         [@ EXCEPT !.pc = "serving", !.surface = surface, !.tenant = who, !.cost = cost,
                   !.peek = peek, !.legs = <<Leg(n, "decide")>>,
                   !.owner = IF n \in Verifies /\ key \in Tenant THEN key ELSE None,
                   !.badKey = (n \in Verifies /\ key = "bad")]]
    /\ UNCHANGED used

(* handleCheck; a cost that is no number is refused once the tenant is     *)
(* known.                                                                  *)
HandleCheck(r, n, key, field, cost) ==
    \E who \in HttpSpeaksFor(n, key, field) :
        \/ who \notin Tenant /\ Reject(r, "check", HttpAuthCode(who))
        \/ who \in Tenant /\ Reject(r, "check", "400")
        \/ \E peek \in BOOLEAN :
             who \in Tenant /\ Ask(r, n, "check", key, who, cost, peek)

(* handleProxy; a path no route matches is refused first.                  *)
HandleProxy(r, n, key, field, cost) ==
    \/ Reject(r, "proxy", "404")
    \/ \E who \in HttpSpeaksFor(n, key, field) :
        \/ who \notin Tenant /\ Reject(r, "proxy", HttpAuthCode(who))
        \/ who \in Tenant /\ Reject(r, "proxy", "400")
        \/ who \in Tenant /\ Ask(r, n, "proxy", key, who, cost, FALSE)

(* Check and GetQuota of the gRPC service.                                 *)
GrpcCheck(r, n, key, field, cost) ==
    \E who \in GrpcSpeaksFor(n, key, field) :
        \/ who \notin Tenant /\ Reject(r, "grpc", GrpcAuthCode(who))
        \/ who \in Tenant /\ Ask(r, n, "grpc", key, who, cost, FALSE)

GetQuota(r, n, key, field) ==
    \E who \in GrpcSpeaksFor(n, key, field) :
        \/ who \notin Tenant /\ Reject(r, "quota", GrpcAuthCode(who))
        \/ who \in Tenant /\ Ask(r, n, "quota", key, who, 1, TRUE)

-----------------------------------------------------------------------------
(* The decision.                                                           *)

SetLeg(r, i, l) == req' = [req EXCEPT ![r].legs[i] = l]
Finish(r, i, out) == SetLeg(r, i, [req[r].legs[i] EXCEPT !.pc = "done", !.out = out])

(* What node n may hold its tenant's owner to be: its view of the ring     *)
(* contains it, and otherwise may be any other node's or older than theirs. *)
Owners(n, t) ==
    {RingOf(v)!Nearest(PointHash, ms, TenantHash[t]) :
       v \in 1..MaxPoints, ms \in {m \in SUBSET Server : n \in m}}

(* Mutant: a question that was forwarded here may be forwarded again. *)
MayForwardAgain(i) == i <= 2

(* Only the first leg may forward: the second carries the hop header.      *)
MayForward(i) == i = 1

(* Decide: the guard first, then the ring.  The forwarded call names the   *)
(* tenant in its field and carries no key.                                 *)
Decide(r, i) ==
    LET l == req[r].legs[i]
        n == l.node
        owners == Owners(n, req[r].tenant)
    IN  /\ l.pc = "decide"
        /\ \/ Finish(r, i, "fenced")
           \/ /\ ~MayForward(i) \/ n \in owners
              /\ SetLeg(r, i, [l EXCEPT !.pc = "policy"])
           \/ /\ MayForward(i)
              /\ \E owner \in owners \ {n} :
                   req' = [req EXCEPT ![r] = [req[r] EXCEPT !.legs =
                     Append([req[r].legs EXCEPT ![i].pc = "waiting"],
                            IF owner \in Trusts THEN Leg(owner, "decide")
                            ELSE [Leg(owner, "done") EXCEPT !.out = "unauthenticated"])]]
        /\ UNCHANGED used

(* decideHere: the policy, read through or from a cache.  A copy older     *)
(* than what the cluster has minted is dropped and read again, once.       *)
LookupPolicy(r, i) ==
    LET l == req[r].legs[i]
    IN  /\ l.pc = "policy"
        /\ \E s \in {"active", "unknown", "disabled", "other"} :
             req' = [req EXCEPT ![r] = [req[r] EXCEPT
               !.legs[i] = IF s = "active" THEN [l EXCEPT !.pc = "check"]
                           ELSE [l EXCEPT !.pc = "done", !.out = s],
               !.said = @ \cup {s}]]
        /\ UNCHANGED used

(* Mutant: there is a third attempt, and a fourth. *)
RefreshForever(r, i) ==
    LET l == req[r].legs[i]
    IN  /\ l.pc = "check"
        /\ SetLeg(r, i, [l EXCEPT !.pc = "policy", !.again = TRUE])
        /\ UNCHANGED used

Refresh(r, i) ==
    LET l == req[r].legs[i]
    IN  /\ l.pc = "check" /\ ~l.again
        /\ SetLeg(r, i, [l EXCEPT !.pc = "policy", !.again = TRUE])
        /\ UNCHANGED used

(* The store refuses at a fence: a policy still old after it was read      *)
(* again, or counters of another lifetime.                                 *)
CheckFenced(r, i) ==
    /\ req[r].legs[i].pc = "check"
    /\ Finish(r, i, "fenced")
    /\ UNCHANGED used

(* A cost no limit could admit is an error before the store is asked.      *)
CheckCost(r, i) ==
    /\ req[r].legs[i].pc = "check"
    /\ ~req[r].peek /\ req[r].cost > Capacity
    /\ Finish(r, i, "cost")
    /\ UNCHANGED used

Fits(r) == used[req[r].tenant] + req[r].cost <= Capacity
Charges(r) == ~req[r].peek /\ req[r].cost <= Capacity /\ Fits(r)
Charge(r) == used' = [used EXCEPT ![req[r].tenant] = @ + req[r].cost]

(* The store decides; a peek costs nothing and is allowed.  Whatever is    *)
(* not a peek is published.                                                *)
CheckCounted(r, i) ==
    LET l == req[r].legs[i]
        out == IF req[r].peek \/ Fits(r) THEN "allowed" ELSE "refused"
    IN  /\ l.pc = "check"
        /\ req[r].peek \/ req[r].cost <= Capacity
        /\ IF Charges(r) THEN Charge(r) ELSE UNCHANGED used
        /\ req' = [req EXCEPT ![r] = [req[r] EXCEPT
             !.legs[i] = [l EXCEPT !.pc = "done", !.out = out],
             !.said = @ \cup {out},
             !.charged = @ + (IF Charges(r) THEN 1 ELSE 0),
             !.published = @ + (IF req[r].peek THEN 0 ELSE 1)]]

(* The store does not answer, having counted or not: the policy's failure  *)
(* mode decides, and an admission is published.                            *)
CheckFailed(r, i) ==
    LET l == req[r].legs[i]
        failsClosed == req[r].tenant \in FailsClosed
    IN  /\ l.pc = "check"
        /\ req[r].peek \/ req[r].cost <= Capacity
        /\ \E counted \in {FALSE} \cup {Charges(r)} :
             /\ IF counted THEN Charge(r) ELSE UNCHANGED used
             /\ req' = [req EXCEPT ![r] = [req[r] EXCEPT
                  !.legs[i] = [l EXCEPT !.pc = "done",
                                        !.out = IF failsClosed THEN "store" ELSE "degraded"],
                  !.said = @ \cup {"down"},
                  !.charged = @ + (IF counted THEN 1 ELSE 0),
                  !.published = @ + (IF failsClosed THEN 0 ELSE 1)]]

-----------------------------------------------------------------------------
(* The hop's answer.                                                       *)

StatusFor(out) ==
    CASE out = "unknown" -> "NotFound"
      [] out = "disabled" -> "PermissionDenied"
      [] out = "cost" -> "InvalidArgument"
      [] out \in {"fenced", "store"} -> "Unavailable"
      [] out = "unauthenticated" -> "Unauthenticated"
      [] out = "other" -> "Internal"
      [] OTHER -> "OK"

(* Mutant: an owner that has no answer has no such tenant. *)
TranslateAll(code) ==
    CASE code = "PermissionDenied" -> "disabled"
      [] code = "InvalidArgument" -> "cost"
      [] OTHER -> "unknown"

(* translate: three codes are answers about the tenant, the rest are none. *)
Translate(code) ==
    CASE code = "NotFound" -> "unknown"
      [] code = "PermissionDenied" -> "disabled"
      [] code = "InvalidArgument" -> "cost"
      [] OTHER -> "peerUnavailable"

FallBack(r, i) ==
    req' = [req EXCEPT ![r] = [@ EXCEPT !.fell = TRUE, !.legs[i].pc = "policy"]]

(* The owner's answer is the answer; no answer means deciding here.        *)
TakeReply(r, i) ==
    LET l == req[r].legs[i]
        code == StatusFor(req[r].legs[i + 1].out)
    IN  /\ l.pc = "waiting" /\ req[r].legs[i + 1].pc = "done"
        /\ \/ code = "OK" /\ Finish(r, i, req[r].legs[i + 1].out)
           \/ code # "OK" /\ Translate(code) # "peerUnavailable"
              /\ Finish(r, i, Translate(code))
           \/ code # "OK" /\ Translate(code) = "peerUnavailable"
              /\ FallBack(r, i)
        /\ UNCHANGED used

(* Mutant: an owner that does not answer has admitted. *)
HopFailsOpen(r, i) ==
    /\ req[r].legs[i].pc = "waiting"
    /\ Finish(r, i, "allowed")
    /\ UNCHANGED used

(* No reply in time, a lost one, or no connection: decided here, while the *)
(* owner may be deciding too.                                              *)
HopFails(r, i) ==
    /\ req[r].legs[i].pc = "waiting"
    /\ FallBack(r, i)
    /\ UNCHANGED used

(* The owner crashes, or stops because the call was cancelled.             *)
LegDies(r, i) ==
    /\ i > 1 /\ req[r].legs[i].pc \in {"decide", "policy", "check"}
    /\ req' = [req EXCEPT ![r].legs[i].pc = "gone"]
    /\ UNCHANGED used

-----------------------------------------------------------------------------
(* The answer.                                                             *)

HttpCode(out) ==
    CASE out = "unknown" -> "404"
      [] out = "disabled" -> "403"
      [] out = "cost" -> "400"
      [] out \in {"fenced", "store", "other"} -> "503"
      [] out \in {"allowed", "degraded"} -> "200"
      [] out = "refused" -> "429"

GrpcCode(out) ==
    CASE out \in {"allowed", "degraded"} -> "OK"
      [] out = "refused" -> "OKNotAllowed"
      [] OTHER -> StatusFor(out)

Respond(r) ==
    LET out == req[r].legs[1].out
        surface == req[r].surface
    IN  /\ req[r].pc = "serving" /\ req[r].legs[1].pc = "done"
        /\ req' = [req EXCEPT ![r] =
             IF surface = "proxy" /\ HttpCode(out) = "200" THEN [@ EXCEPT !.pc = "upstream"]
             ELSE [@ EXCEPT !.pc = "answered",
                            !.code = IF surface \in {"check", "proxy"} THEN HttpCode(out)
                                     ELSE GrpcCode(out)]]
        /\ UNCHANGED used

(* The upstream's own answer, or a bad gateway.                            *)
Upstream(r) ==
    /\ req[r].pc = "upstream"
    /\ \E c \in {"200", "502"} : req' = [req EXCEPT ![r] = [@ EXCEPT !.pc = "answered", !.code = c]]
    /\ UNCHANGED used

-----------------------------------------------------------------------------
LegStep(r, i) ==
    \/ Decide(r, i) \/ LookupPolicy(r, i) \/ Refresh(r, i) \/ CheckFenced(r, i) \/ CheckCost(r, i)
    \/ CheckCounted(r, i) \/ CheckFailed(r, i)
    \/ (i < Len(req[r].legs) /\ TakeReply(r, i)) \/ HopFails(r, i)

ServingNext ==
    \/ \E r \in Req, n \in Server, key \in Tenant \cup {None, "bad"}, field \in Tenant \cup {None} :
         \/ \E cost \in 1..(Capacity + 1) :
              \/ HandleCheck(r, n, key, field, cost) \/ HandleProxy(r, n, key, field, cost)
              \/ GrpcCheck(r, n, key, field, cost)
         \/ GetQuota(r, n, key, field)
    \/ \E r \in Req : \E i \in DOMAIN req[r].legs : LegStep(r, i) \/ LegDies(r, i)
    \/ \E r \in Req : Respond(r) \/ Upstream(r)

ServingSpec == ServingInit /\ [][ServingNext]_servingVars

(* The goroutines serving a request run; every call they make comes back,  *)
(* in time or by its timeout.  An upstream may take for ever.              *)
ServingFairness ==
    \A r \in Req :
        /\ WF_servingVars(\E i \in DOMAIN req[r].legs : i = 1 /\ LegStep(r, i))
        /\ WF_servingVars(Respond(r))

FairServing == ServingSpec /\ ServingFairness

-----------------------------------------------------------------------------
(* "two nodes with momentarily different views of the ring would otherwise *)
(* bounce it between them" (decide.go on Forwarded): whatever the views    *)
(* and however they change, a request crosses at most one hop, and a hop   *)
(* that has failed is not tried again.                                     *)
OneHop == \A r \in Req : Len(req[r].legs) <= 2

(* What was charged for a request is what its answer says: an admission    *)
(* the store agreed to is charged once, a refusal or an error not at all,  *)
(* except that each hop whose answer was given up on, and each check whose *)
(* reply was lost, may have charged as well.                               *)
ChargedAsAnswered ==
    \A r \in Req :
        LET out == req[r].legs[1].out
        IN  /\ req[r].charged <= 1 + (IF req[r].fell THEN 1 ELSE 0)
            /\ req[r].pc \in {"upstream", "answered"} /\ req[r].legs # <<>> =>
                 /\ out = "allowed" /\ ~req[r].peek => req[r].charged >= 1
                 /\ req[r].charged > 0 => \/ out = "allowed" \/ req[r].fell
                                          \/ "down" \in req[r].said

(* "Getting this backwards would turn an unreachable peer into no such     *)
(* tenant" (forward.go on translate): a caller hears that its tenant is    *)
(* unknown or disabled only if a policy lookup said so, and too many       *)
(* requests only if the store counted them, on both surfaces and across a  *)
(* hop.                                                                    *)
AnswersAreAboutTheTenant ==
    \A r \in Req : req[r].pc = "answered" /\ req[r].legs # <<>> =>
        /\ req[r].code \in {"404", "NotFound"} => "unknown" \in req[r].said
        /\ req[r].code \in {"403", "PermissionDenied"} => "disabled" \in req[r].said
        /\ req[r].code \in {"429", "OKNotAllowed"} => "refused" \in req[r].said

(* "publishing it again here would double-count every forwarded request"   *)
(* (decide.go): a request that did not fall back is in the streams at most *)
(* once, wherever it was decided.                                          *)
PublishedOnce ==
    \A r \in Req : req[r].published <= 1 + (IF req[r].fell THEN 1 ELSE 0)

(* "otherwise a bad key would be a way of becoming somebody else"          *)
(* (grpcapi, gateway): where keys are verified nothing is decided for a    *)
(* request with a wrong one, and a key's own tenant is the one decided     *)
(* about.                                                                  *)
SpeaksForItsKey ==
    \A r \in Req : /\ ~req[r].badKey
                   /\ req[r].owner # None => req[r].tenant = req[r].owner

(* Every request is answered, whatever the views, the guards, the policy   *)
(* source and the store do meanwhile.                                      *)
Answered == \A r \in Req : req[r].pc = "serving" ~> req[r].pc \in {"upstream", "answered"}

(* "A peek changes nothing, so it is not a decision and must not appear in *)
(* the stream" (decide_test.go).                                           *)
(* Does not hold: see README, section 6.                                   *)
PeekNotPublished == \A r \in Req : req[r].peek => req[r].published = 0
=============================================================================
