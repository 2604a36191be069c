--------------------------- MODULE ServingProofs ----------------------------
(***************************************************************************)
(* What a request may be charged and told on its way through at most one   *)
(* hop, for any number of nodes, tenants and requests, any views of the    *)
(* ring, and whatever the policy source, the guard and the store do.       *)
(***************************************************************************)
EXTENDS Serving, Integers, TLAPS

Place == Server \cup UNION {Owners(n, t) : n \in Server, t \in Tenant}
LegState == [node : Place, pc : {"decide", "waiting", "policy", "check", "done", "gone"},
             again : BOOLEAN, out : Errors \cup Answers \cup {"none", "unauthenticated"}]
Said == {"active", "unknown", "disabled", "other", "allowed", "refused", "down"}
Surfaces == {"none", "check", "proxy", "grpc", "quota"}
Codes == {"none", "200", "400", "401", "403", "404", "429", "502", "503", "OK", "OKNotAllowed",
          "NotFound", "PermissionDenied", "InvalidArgument", "Unavailable", "Unauthenticated",
          "Internal"}
Request == [pc : {"new", "serving", "upstream", "answered"}, surface : Surfaces,
            tenant : Tenant \cup {None}, cost : Nat, peek : BOOLEAN, legs : Seq(LegState),
            code : Codes, owner : Tenant \cup {None}, badKey : BOOLEAN, said : SUBSET Said,
            charged : Nat, published : Nat, fell : BOOLEAN]

(* How often a leg may still charge and publish.                           *)
Pending(l) == IF l.pc \in {"decide", "policy", "check"} THEN 1 ELSE 0
PendingAt(legs, i) == IF i <= Len(legs) THEN Pending(legs[i]) ELSE 0

(* There are at most two legs, and one that has not forwarded is alone.    *)
Hops(q) ==
    /\ Len(q.legs) <= 2
    /\ q.legs = <<>> <=> q.tenant = None
    /\ q.legs # <<>> => q.legs[1].node \in Server /\ q.legs[1].pc # "gone"
    /\ Len(q.legs) = 2 => q.legs[2].pc # "waiting"
    /\ q.legs # <<>> /\ q.legs[1].pc = "decide" => Len(q.legs) = 1 /\ ~q.fell
    /\ q.legs # <<>> /\ q.legs[1].pc = "waiting" => Len(q.legs) = 2 /\ ~q.fell

(* What a leg that is done may say.                                        *)
Founded(q, out) ==
    /\ out = "unknown" => "unknown" \in q.said
    /\ out = "disabled" => "disabled" \in q.said
    /\ out = "refused" => "refused" \in q.said
    /\ out = "allowed" /\ ~q.peek => q.charged > 0
Outs(q) ==
    \A i \in DOMAIN q.legs :
        /\ q.legs[i].pc = "done" => q.legs[i].out \in Errors \cup Answers
                                      \cup (IF i = 1 THEN {} ELSE {"unauthenticated"})
        /\ q.legs[i].pc # "done" => q.legs[i].out = "none"
        /\ Founded(q, q.legs[i].out)

(* What was charged and published, and what may still be.                  *)
Number(b) == IF b THEN 1 ELSE 0
Bills(q) ==
    LET pending == PendingAt(q.legs, 1) + PendingAt(q.legs, 2)
        most == 1 + Number(q.fell)
    IN  q.charged + pending <= most /\ q.published + pending <= most

(* A charge nobody gave up on and no lost reply hides is the last leg's,   *)
(* and the first leg repeats it.                                           *)
Traced(q) ==
    ~q.fell /\ q.legs # <<>> =>
        LET end == q.legs[Len(q.legs)] IN
        /\ q.charged > 0 => "down" \in q.said \/ end.out = "allowed"
        /\ Len(q.legs) = 2 => q.legs[1].pc \in {"waiting", "done"}
        /\ Len(q.legs) = 2 /\ q.legs[1].pc = "done" =>
             end.pc = "done" /\ (end.out = "allowed" => q.legs[1].out = "allowed")

Coded(q) ==
    /\ q.pc = "new" => q.legs = <<>> /\ q.charged = 0 /\ q.published = 0 /\ ~q.fell
    /\ q.pc = "serving" => q.legs # <<>>
    /\ q.pc \in {"upstream", "answered"} /\ q.legs # <<>> => q.legs[1].pc = "done"
    /\ q.pc = "answered" /\ q.legs # <<>> =>
         /\ q.code \in {"404", "NotFound"} => "unknown" \in q.said
         /\ q.code \in {"403", "PermissionDenied"} => "disabled" \in q.said
         /\ q.code \in {"429", "OKNotAllowed"} => "refused" \in q.said

Keyed(q) == ~q.badKey /\ (q.owner # None => q.tenant = q.owner)

Good(q) == q \in Request /\ Hops(q) /\ Outs(q) /\ Bills(q) /\ Traced(q) /\ Coded(q) /\ Keyed(q)
ServingInv == req \in [Req -> Request] /\ \A r \in Req : Good(req[r])

LEMMA ServingStarts == ServingInit => ServingInv
  <1> DEFINE q == NewRequest
  <1>1. q \in Request
    <2>1. "none" \in Surfaces /\ "none" \in Codes
      BY Zenon DEF Surfaces, Codes
    <2>2. <<>> \in Seq(LegState) /\ {} \in SUBSET Said
      OBVIOUS
    <2> QED BY Zenon, <2>1, <2>2 DEF NewRequest, Request
  <1>2. /\ q.pc = "new" /\ q.legs = <<>> /\ q.tenant = None /\ q.charged = 0 /\ q.published = 0
        /\ q.fell = FALSE /\ q.badKey = FALSE /\ q.owner = None /\ Len(q.legs) = 0
        /\ DOMAIN q.legs = {}
    BY DEF NewRequest
  <1> HIDE DEF q
  <1>3. Hops(q) /\ Outs(q) /\ Coded(q) /\ Keyed(q) /\ Traced(q)
    BY <1>2 DEF Hops, Outs, Coded, Keyed, Traced
  <1>4. Bills(q)
    BY <1>2 DEF Bills, PendingAt, Number
  <1>5. Good(q)
    BY Zenon, <1>1, <1>3, <1>4 DEF Good
  <1> QED BY Zenon, <1>1, <1>5 DEF ServingInit, ServingInv, q

LEMMA RequestPatched ==
    ASSUME ServingInv, NEW r \in Req, NEW q, Good(q), req' = [req EXCEPT ![r] = q]
    PROVE  ServingInv'
  BY Zenon DEF ServingInv, Good

(* The answers given before anything is decided.                           *)
LEMMA RejectKeeps ==
    ASSUME ServingInv, NEW r \in Req, NEW surface \in Surfaces, NEW code \in Codes,
           Reject(r, surface, code)
    PROVE  ServingInv'
  <1> DEFINE p == req[r]
             q == [p EXCEPT !.pc = "answered", !.surface = surface, !.code = code]
  <1>1. Good(p) /\ p \in Request /\ p.pc = "new" /\ req' = [req EXCEPT ![r] = q]
    BY Zenon DEF ServingInv, Good, Reject
  <1> HIDE DEF p
  <1>2. /\ q \in Request /\ q.pc = "answered" /\ q.legs = p.legs /\ q.tenant = p.tenant
        /\ q.charged = p.charged /\ q.published = p.published /\ q.fell = p.fell
        /\ q.badKey = p.badKey /\ q.owner = p.owner /\ q.said = p.said /\ q.peek = p.peek
    BY Zenon, <1>1 DEF Request
  <1>3. p.legs = <<>> /\ p.legs \in Seq(LegState)
    BY Zenon, <1>1 DEF Good, Coded, Request
  <1> HIDE DEF q
  <1>4. Hops(q) /\ Outs(q) /\ Coded(q) /\ Keyed(q) /\ Traced(q) /\ Bills(q)
    BY <1>1, <1>2, <1>3 DEF Good, Hops, Outs, Founded, Coded, Keyed, Traced, Bills
  <1> QED BY Zenon, <1>1, <1>2, <1>4, RequestPatched DEF Good

LEMMA Strangers ==
    ASSUME NEW who \in Tenant
    PROVE  who \notin {None, "bad", "badCredentials", "noCredentials", "tenantMissing"}
  BY ServingAssumption, Zenon

(* The first leg.  A key that is nobody's speaks for nobody.               *)
LEMMA NobodyElse ==
    ASSUME NEW n, NEW key \in Tenant \cup {None, "bad"}, NEW field \in Tenant \cup {None},
           NEW who \in Tenant, who \in HttpSpeaksFor(n, key, field) \cup GrpcSpeaksFor(n, key, field)
    PROVE  /\ ~(n \in Verifies /\ key = "bad")
           /\ n \in Verifies /\ key \in Tenant => who = key
  BY Zenon, ServingAssumption DEF HttpSpeaksFor, GrpcSpeaksFor, Authenticate

LEMMA AskKeeps ==
    ASSUME ServingInv, NEW r \in Req, NEW n \in Server, NEW surface \in Surfaces,
           NEW key \in Tenant \cup {None, "bad"}, NEW field \in Tenant \cup {None},
           NEW who \in Tenant, who \in HttpSpeaksFor(n, key, field) \cup GrpcSpeaksFor(n, key, field),
           NEW cost \in Nat, NEW peek \in BOOLEAN, Ask(r, n, surface, key, who, cost, peek)
    PROVE  ServingInv'
  <1> DEFINE p == req[r]
             l == Leg(n, "decide")
             owner == IF n \in Verifies /\ key \in Tenant THEN key ELSE None
             badKey == (n \in Verifies /\ key = "bad")
             q == [p EXCEPT !.pc = "serving", !.surface = surface, !.tenant = who, !.cost = cost,
                            !.peek = peek, !.legs = <<l>>, !.owner = owner, !.badKey = badKey]
  <1>1. Good(p) /\ p \in Request /\ p.pc = "new" /\ req' = [req EXCEPT ![r] = q]
    BY Zenon DEF ServingInv, Good, Ask
  <1>2. l \in LegState /\ l.pc = "decide" /\ l.out = "none" /\ l.node = n
    BY DEF Leg, LegState, Place
  <1>3. owner \in Tenant \cup {None} /\ badKey = FALSE /\ (owner # None => who = owner)
    BY Zenon, NobodyElse
  <1> HIDE DEF p, l, owner, badKey
  <1>4. <<l>> \in Seq(LegState) /\ Len(<<l>>) = 1 /\ <<l>>[1] = l /\ DOMAIN <<l>> = {1} /\ <<l>> # <<>>
    BY <1>2
  <1>5. /\ q \in Request /\ q.pc = "serving" /\ q.legs = <<l>> /\ q.tenant = who
        /\ q.charged = p.charged /\ q.published = p.published /\ q.fell = p.fell
        /\ q.badKey = FALSE /\ q.owner = owner /\ q.said = p.said
    BY Zenon, <1>1, <1>3, <1>4 DEF Request
  <1>6. p.legs = <<>> /\ p.tenant = None
    BY Zenon, <1>1 DEF Good, Coded, Hops
  <1> HIDE DEF q
  <1>7. p.charged = 0 /\ p.published = 0 /\ ~p.fell
    BY Zenon, <1>1 DEF Good, Coded
  <1>8. Hops(q) /\ Outs(q) /\ Coded(q) /\ Keyed(q)
    <2>1. Hops(q)
      <3>1. who # None
        BY Zenon, Strangers
      <3> QED BY <1>2, <1>4, <1>5, <1>7, <3>1 DEF Hops
    <2>2. Outs(q)
      BY Zenon, <1>2, <1>4, <1>5 DEF Outs, Founded
    <2>3. Coded(q)
      BY <1>5 DEF Coded
    <2>4. Keyed(q)
      BY Zenon, <1>3, <1>5 DEF Keyed
    <2> QED BY Zenon, <2>1, <2>2, <2>3, <2>4
  <1>9. Traced(q)
    BY <1>4, <1>5, <1>7 DEF Traced
  <1>10. Bills(q)
    BY <1>4, <1>5, <1>7, <1>2 DEF Bills, PendingAt, Pending, Number
  <1> QED BY Zenon, <1>1, <1>5, <1>8, <1>9, <1>10, RequestPatched DEF Good

-----------------------------------------------------------------------------
(* A leg's step.                                                           *)
Same(p, q) ==
    /\ q.pc = p.pc /\ q.tenant = p.tenant /\ q.peek = p.peek /\ q.code = p.code
    /\ q.owner = p.owner /\ q.badKey = p.badKey
    /\ p.said \subseteq q.said /\ p.charged <= q.charged

LEMMA Balance ==
    ASSUME NEW c \in Int, NEW d \in Int, NEW x1 \in Int, NEW x2 \in Int, NEW y1 \in Int, NEW y2 \in Int,
           NEW old \in Int, NEW new \in Int, NEW f \in Int, NEW g \in Int,
           c + (x1 + x2) <= 1 + f, y1 + y2 + old = x1 + x2 + new, d + new + f <= c + old + g
    PROVE  d + (y1 + y2) <= 1 + g
  OBVIOUS

LEMMA LegMoves ==
    ASSUME NEW p, Good(p), NEW i \in DOMAIN p.legs, NEW l \in LegState, NEW q \in Request,
           q.legs = [p.legs EXCEPT ![i] = l], Same(p, q), l.node = p.legs[i].node,
           p.legs[i].pc \in {"decide", "waiting", "policy", "check"},
           l.pc \in {"policy", "check", "done", "gone"}, i = 1 => l.pc # "gone", i # 1 => q.fell = p.fell,
           l.pc = "done" => l.out \in Errors \cup Answers /\ Founded(q, l.out),
           l.pc # "done" => l.out = "none",
           q.charged + Pending(l) + Number(p.fell)
             <= p.charged + Pending(p.legs[i]) + Number(q.fell),
           q.published + Pending(l) + Number(p.fell)
             <= p.published + Pending(p.legs[i]) + Number(q.fell)
    PROVE  Hops(q) /\ Outs(q) /\ Bills(q) /\ Coded(q) /\ Keyed(q)
  <1>1. /\ p \in Request /\ p.legs \in Seq(LegState) /\ DOMAIN p.legs = 1..Len(p.legs)
        /\ Len(p.legs) \in Nat /\ i \in 1..Len(p.legs) /\ p.legs # <<>>
    BY DEF Good, Request
  <1>2. /\ q.legs \in Seq(LegState) /\ Len(q.legs) = Len(p.legs) /\ DOMAIN q.legs = DOMAIN p.legs
        /\ q.legs[i] = l /\ q.legs # <<>>
        /\ \A j \in DOMAIN p.legs : j # i => q.legs[j] = p.legs[j]
    BY <1>1
  <1>3. Hops(q)
    <2>1. Hops(p) /\ q.tenant = p.tenant
      BY Zenon DEF Good, Same
    <2>2. CASE i = 1
      <3>1. q.legs[1] = l
        BY Zenon, <1>2, <2>2
      <3> QED BY <1>1, <1>2, <2>1, <2>2, <3>1 DEF Hops
    <2>3. CASE i # 1
      <3>1. q.legs[1] = p.legs[1]
        BY <1>1, <1>2, <2>3
      <3> QED BY <1>1, <1>2, <2>1, <2>3, <3>1 DEF Hops
    <2> QED BY Zenon, <2>2, <2>3
  <1>4. Outs(q)
    <2> SUFFICES ASSUME NEW j \in DOMAIN q.legs
                 PROVE  /\ q.legs[j].pc = "done" => q.legs[j].out \in Errors \cup Answers
                                      \cup (IF j = 1 THEN {} ELSE {"unauthenticated"})
                        /\ q.legs[j].pc # "done" => q.legs[j].out = "none"
                        /\ Founded(q, q.legs[j].out)
      BY Zenon DEF Outs
    <2>1. CASE j = i
      <3>1. Founded(q, "none")
        BY Zenon DEF Founded
      <3> QED BY Zenon, <1>2, <2>1, <3>1
    <2>2. CASE j # i
      <3>1. q.legs[j] = p.legs[j] /\ j \in DOMAIN p.legs
        BY Zenon, <1>2, <2>2
      <3>2. Founded(q, p.legs[j].out)
        <4>1. Founded(p, p.legs[j].out) /\ p.charged \in Nat /\ q.charged \in Nat
          BY Zenon, <1>1, <3>1 DEF Good, Outs, Request
        <4> QED BY <4>1 DEF Founded, Same
      <3> QED BY <3>1, <3>2 DEF Good, Outs
    <2> QED BY Zenon, <2>1, <2>2
  <1>5. Bills(q)
    <2>1. Bills(p) /\ Len(p.legs) <= 2
      BY Zenon DEF Good, Hops
    <2>2. \A m \in LegState : Pending(m) \in {0, 1}
      BY Zenon DEF Pending
    <2>3. /\ p.charged \in Nat /\ q.charged \in Nat /\ p.published \in Nat /\ q.published \in Nat
          /\ p.fell \in BOOLEAN /\ q.fell \in BOOLEAN
      BY Zenon, <1>1 DEF Request
    <2>4. PendingAt(p.legs, 1) \in {0, 1} /\ PendingAt(p.legs, 2) \in {0, 1}
          /\ Pending(l) \in {0, 1}
      BY <1>1, <2>2 DEF PendingAt
    <2>5. PendingAt(q.legs, 1) + PendingAt(q.legs, 2) + Pending(p.legs[i])
            = PendingAt(p.legs, 1) + PendingAt(p.legs, 2) + Pending(l)
      <3>1. CASE i = 1
        <4>1. PendingAt(q.legs, 1) = Pending(l) /\ PendingAt(p.legs, 1) = Pending(p.legs[i])
              /\ PendingAt(q.legs, 2) = PendingAt(p.legs, 2)
          BY <1>1, <1>2, <3>1 DEF PendingAt
        <4> QED BY <4>1, <2>4
      <3>2. CASE i = 2
        <4>1. PendingAt(q.legs, 2) = Pending(l) /\ PendingAt(p.legs, 2) = Pending(p.legs[i])
              /\ PendingAt(q.legs, 1) = PendingAt(p.legs, 1)
          BY <1>1, <1>2, <3>2 DEF PendingAt
        <4> QED BY <4>1, <2>4
      <3> QED BY <1>1, <2>1, <3>1, <3>2
    <2>6. Pending(p.legs[i]) \in {0, 1}
      BY <1>1, <2>2
    <2>7. PendingAt(q.legs, 1) \in {0, 1} /\ PendingAt(q.legs, 2) \in {0, 1}
      BY <1>2, <2>2 DEF PendingAt
    <2>8. Number(p.fell) \in {0, 1} /\ Number(q.fell) \in {0, 1}
      BY Zenon DEF Number
    <2>9. q.charged + (PendingAt(q.legs, 1) + PendingAt(q.legs, 2)) <= 1 + Number(q.fell)
      BY <2>1, <2>3, <2>4, <2>5, <2>6, <2>7, <2>8, Balance DEF Bills
    <2>10. q.published + (PendingAt(q.legs, 1) + PendingAt(q.legs, 2)) <= 1 + Number(q.fell)
      BY <2>1, <2>3, <2>4, <2>5, <2>6, <2>7, <2>8, Balance DEF Bills
    <2> QED BY Zenon, <2>9, <2>10 DEF Bills
  <1>6. Coded(q)
    <2>1. p.pc \in {"upstream", "answered"} => i # 1
      BY Zenon, <1>1 DEF Good, Coded
    <2>2. Coded(p) /\ q.pc = p.pc /\ q.code = p.code /\ p.said \subseteq q.said
      BY Zenon DEF Good, Same
    <2>3. i # 1 => q.legs[1] = p.legs[1]
      BY <1>1, <1>2
    <2>4. q.pc # "new"
      BY Zenon, <1>1, <2>2 DEF Coded
    <2>5. q.pc \in {"upstream", "answered"} => q.legs[1].pc = "done"
      BY Zenon, <1>1, <2>1, <2>2, <2>3 DEF Coded
    <2> QED BY <1>1, <2>2, <2>4, <2>5 DEF Coded
  <1>7. Keyed(q)
    BY Zenon DEF Good, Keyed, Same
  <1> QED BY Zenon, <1>3, <1>4, <1>5, <1>6, <1>7

LEMMA OneOrTwo ==
    ASSUME NEW n \in Nat, n <= 2, NEW i \in 1..n
    PROVE  /\ i \in {1, 2} /\ (i = 2 => n = 2) /\ (i = n \/ (i = 1 /\ n = 2))
           /\ i < n => i = 1 /\ n = 2 /\ i + 1 = 2
  OBVIOUS

(* A leg at work takes a step, or ends, charging and publishing at most    *)
(* once as it does.                                                        *)
LEMMA ActiveLeg ==
    ASSUME NEW p, Good(p), NEW i \in DOMAIN p.legs, NEW l \in LegState, NEW q \in Request,
           q.legs = [p.legs EXCEPT ![i] = l], Same(p, q), l.node = p.legs[i].node,
           p.legs[i].pc \in {"decide", "policy", "check"}, q.fell = p.fell,
           l.pc \in {"policy", "check", "done", "gone"}, i = 1 => l.pc # "gone",
           l.pc = "done" => l.out \in Errors \cup Answers /\ Founded(q, l.out),
           l.pc # "done" => l.out = "none",
           q.charged <= p.charged + 1 - Pending(l), q.published <= p.published + 1 - Pending(l),
           q.charged > p.charged => "down" \in q.said \/ l.out = "allowed"
    PROVE  Good(q)
  <1>1. /\ p \in Request /\ p.legs \in Seq(LegState) /\ DOMAIN p.legs = 1..Len(p.legs)
        /\ Len(p.legs) \in Nat /\ i \in 1..Len(p.legs) /\ p.legs # <<>> /\ Len(p.legs) <= 2
        /\ p.charged \in Nat /\ q.charged \in Nat /\ p.published \in Nat /\ q.published \in Nat
    BY DEF Good, Request, Hops
  <1>2. Pending(p.legs[i]) = 1 /\ Pending(l) \in {0, 1} /\ Number(p.fell) \in {0, 1}
    BY Zenon DEF Pending, Number
  <1>3. q.charged + Pending(l) + Number(p.fell) <= p.charged + Pending(p.legs[i]) + Number(q.fell)
        /\ q.published + Pending(l) + Number(p.fell) <= p.published + Pending(p.legs[i]) + Number(q.fell)
    <2>1. ASSUME NEW c \in Nat, NEW d \in Nat, NEW new \in {0, 1}, NEW f \in {0, 1}, d <= c + 1 - new
          PROVE  d + new + f <= c + 1 + f
      BY <2>1
    <2>2. Number(q.fell) = Number(p.fell)
      BY Zenon
    <2> QED BY Zenon, <1>1, <1>2, <2>1, <2>2
  <1>4. Hops(q) /\ Outs(q) /\ Bills(q) /\ Coded(q) /\ Keyed(q)
    BY Zenon, <1>3, LegMoves
  <1>5. Traced(q)
    <2> SUFFICES ASSUME ~q.fell PROVE Traced(q)
      BY Zenon DEF Traced
    <2>1. Traced(p) /\ ~p.fell /\ p.said \subseteq q.said
      BY Zenon DEF Good, Same
    <2>2. i = Len(p.legs) /\ p.legs[i].out # "allowed"
      <3>1. Len(p.legs) = 2 => p.legs[1].pc \in {"waiting", "done"}
        BY Zenon, <1>1, <2>1 DEF Traced
      <3>2. p.legs[i].out = "none"
        BY Zenon DEF Good, Outs
      <3>3. ~(i = 1 /\ Len(p.legs) = 2)
        BY Zenon, <3>1
      <3>4. i = Len(p.legs) \/ (i = 1 /\ Len(p.legs) = 2)
        BY <1>1, OneOrTwo, Zenon
      <3> QED BY Zenon, <3>2, <3>3, <3>4
    <2>3. /\ Len(q.legs) = Len(p.legs) /\ q.legs[i] = l /\ q.legs # <<>>
          /\ Len(q.legs) = 2 => q.legs[1] = p.legs[1]
      BY <1>1, <2>2
    <2>4. q.charged > 0 => "down" \in q.said \/ l.out = "allowed"
      BY <1>1, <2>1, <2>2 DEF Traced
    <2>5. Len(p.legs) = 2 => p.legs[1].pc = "waiting"
      BY Zenon, <1>1, <2>1, <2>2 DEF Traced
    <2> QED BY Zenon, <2>2, <2>3, <2>4, <2>5 DEF Traced
  <1> QED BY Zenon, <1>4, <1>5 DEF Good

(* The first leg gives up on the second and decides here.                  *)
LEMMA FallBackKeeps ==
    ASSUME ServingInv, NEW r \in Req, NEW i \in DOMAIN req[r].legs, req[r].legs[i].pc = "waiting",
           FallBack(r, i)
    PROVE  ServingInv'
  <1> DEFINE p == req[r]
             l == [p.legs[i] EXCEPT !.pc = "policy"]
             q == [p EXCEPT !.fell = TRUE, !.legs = [p.legs EXCEPT ![i] = l]]
  <1>1. Good(p) /\ p \in Request /\ req' = [req EXCEPT ![r] = q]
    BY Zenon DEF ServingInv, Good, FallBack
  <1>2. /\ p.legs \in Seq(LegState) /\ p.legs[i] \in LegState /\ i \in DOMAIN p.legs
        /\ DOMAIN p.legs = 1..Len(p.legs) /\ Len(p.legs) <= 2 /\ p.legs[i].pc = "waiting"
    BY <1>1 DEF Good, Request, Hops
  <1> HIDE DEF p
  <1>3. l \in LegState /\ l.pc = "policy" /\ l.out = p.legs[i].out /\ l.node = p.legs[i].node
    BY Zenon, <1>2 DEF LegState
  <1>4. i = 1 /\ ~p.fell /\ p.legs[i].out = "none" /\ p.legs # <<>>
    <2>1. Hops(p) /\ Outs(p) /\ p.legs # <<>> /\ Len(p.legs) \in Nat
      BY <1>1, <1>2 DEF Good
    <2>2. i \in {1, 2} /\ (i = 2 => Len(p.legs) = 2)
      BY Zenon, <1>2, <2>1, OneOrTwo
    <2>3. i = 1
      BY Zenon, <1>2, <2>1, <2>2 DEF Hops
    <2> QED BY Zenon, <1>2, <2>1, <2>3 DEF Hops, Outs
  <1> HIDE DEF l
  <1>5. [p.legs EXCEPT ![i] = l] \in Seq(LegState)
    BY <1>2, <1>3
  <1>6. /\ q \in Request /\ q.legs = [p.legs EXCEPT ![i] = l] /\ q.fell = TRUE
        /\ q.charged = p.charged /\ q.published = p.published
        /\ q.pc = p.pc /\ q.tenant = p.tenant /\ q.peek = p.peek /\ q.code = p.code
        /\ q.owner = p.owner /\ q.badKey = p.badKey /\ q.said = p.said
    BY Zenon, <1>1, <1>5 DEF Request
  <1> HIDE DEF q
  <1>7. Same(p, q) /\ p.charged \in Nat /\ p.published \in Nat
    BY <1>1, <1>6 DEF Same, Request
  <1>8. Pending(p.legs[i]) = 0 /\ Pending(l) = 1 /\ Number(p.fell) = 0 /\ Number(q.fell) = 1
    BY Zenon, <1>2, <1>3, <1>4, <1>6 DEF Pending, Number
  <1>9. Hops(q) /\ Outs(q) /\ Bills(q) /\ Coded(q) /\ Keyed(q)
    <2>1. /\ q.charged + Pending(l) + Number(p.fell)
               <= p.charged + Pending(p.legs[i]) + Number(q.fell)
          /\ q.published + Pending(l) + Number(p.fell)
               <= p.published + Pending(p.legs[i]) + Number(q.fell)
      <3>1. q.charged = p.charged /\ q.published = p.published
        BY Zenon, <1>6
      <3> QED BY <1>7, <1>8, <3>1
    <2> QED BY <1>1, <1>2, <1>3, <1>4, <1>6, <1>7, <2>1, LegMoves
  <1>10. Traced(q)
    BY Zenon, <1>6 DEF Traced
  <1> QED BY Zenon, <1>1, <1>6, <1>9, <1>10, RequestPatched DEF Good

(* The first leg takes the owner's answer.                                 *)
LEMMA StatusIs ==
    ASSUME NEW out \in Errors \cup Answers \cup {"unauthenticated"}
    PROVE  /\ StatusFor(out) = "OK" <=> out \in Answers
           /\ StatusFor(out) # "OK" /\ Translate(StatusFor(out)) # "peerUnavailable"
                => Translate(StatusFor(out)) = out /\ out \in {"unknown", "disabled", "cost"}
  BY Zenon DEF Errors, Answers, StatusFor, Translate

LEMMA LegSet ==
    ASSUME ServingInv, NEW r \in Req, NEW i \in DOMAIN req[r].legs, NEW l \in LegState, SetLeg(r, i, l)
    PROVE  \E q \in Request : /\ req' = [req EXCEPT ![r] = q]
                              /\ q.legs = [req[r].legs EXCEPT ![i] = l]
                              /\ q.fell = req[r].fell /\ q.said = req[r].said
                              /\ q.charged = req[r].charged /\ q.published = req[r].published
                              /\ Same(req[r], q)
  <1> DEFINE p == req[r]
             q == [p EXCEPT !.legs = [p.legs EXCEPT ![i] = l]]
  <1>1. p \in Request /\ req' = [req EXCEPT ![r] = q] /\ i \in DOMAIN p.legs
    BY Zenon DEF ServingInv, SetLeg
  <1> HIDE DEF p
  <1>2. [p.legs EXCEPT ![i] = l] \in Seq(LegState) /\ p.charged \in Nat
    BY <1>1 DEF Request
  <1>3. /\ q \in Request /\ q.legs = [p.legs EXCEPT ![i] = l] /\ q.fell = p.fell /\ q.said = p.said
        /\ q.charged = p.charged /\ q.published = p.published
        /\ q.pc = p.pc /\ q.tenant = p.tenant /\ q.peek = p.peek /\ q.code = p.code
        /\ q.owner = p.owner /\ q.badKey = p.badKey
    BY Zenon, <1>1, <1>2 DEF Request
  <1> HIDE DEF q
  <1>4. Same(p, q)
    BY <1>2, <1>3 DEF Same
  <1> QED BY Zenon, <1>1, <1>3, <1>4 DEF p

(* A step that changes nothing but one leg at work.                        *)
LEMMA QuietStep ==
    ASSUME ServingInv, NEW r \in Req, NEW i \in DOMAIN req[r].legs, NEW l \in LegState, SetLeg(r, i, l),
           req[r].legs[i].pc \in {"decide", "policy", "check"}, l.node = req[r].legs[i].node,
           \/ l.pc \in {"policy", "check"} /\ l.out = "none"
           \/ l.pc = "gone" /\ i # 1 /\ l.out = "none"
           \/ l.pc = "done" /\ l.out \in {"fenced", "cost"}
    PROVE  ServingInv'
  <1> DEFINE p == req[r]
  <1>1. PICK q \in Request : /\ req' = [req EXCEPT ![r] = q] /\ q.legs = [p.legs EXCEPT ![i] = l]
                             /\ q.fell = p.fell /\ q.charged = p.charged
                             /\ q.published = p.published /\ Same(p, q)
    BY Zenon, LegSet
  <1>2. Good(p) /\ p.charged \in Nat /\ p.published \in Nat
    BY Zenon DEF ServingInv, Good, Request
  <1> HIDE DEF p
  <1>3. l.pc = "done" => l.out \in Errors \cup Answers /\ Founded(q, l.out)
    BY Zenon DEF Errors, Founded
  <1>4. Pending(l) \in {0, 1}
    BY Zenon DEF Pending
  <1>5. ~(q.charged > p.charged) /\ q.charged <= p.charged + 1 - Pending(l)
        /\ q.published <= p.published + 1 - Pending(l)
    BY <1>1, <1>2, <1>4
  <1>6. /\ i \in DOMAIN p.legs /\ p.legs[i].pc \in {"decide", "policy", "check"}
        /\ l.node = p.legs[i].node
    BY Zenon DEF p
  <1>7. Good(q)
    BY Zenon, <1>1, <1>2, <1>3, <1>5, <1>6, ActiveLeg
  <1> QED BY Zenon, <1>1, <1>7, RequestPatched

LEMMA HopFailsKeeps ==
    ASSUME ServingInv, NEW r \in Req, NEW i \in DOMAIN req[r].legs, HopFails(r, i)
    PROVE  ServingInv'
  BY Zenon, FallBackKeeps DEF HopFails

LEMMA LegTyped ==
    ASSUME ServingInv, NEW r \in Req, NEW i \in DOMAIN req[r].legs
    PROVE  req[r].legs[i] \in LegState /\ (req[r].legs[i].pc # "done" => req[r].legs[i].out = "none")
  <1> DEFINE p == req[r]
  <1>1. p \in Request /\ Outs(p)
    BY Zenon DEF ServingInv, Good
  <1> HIDE DEF p
  <1>2. \A j \in DOMAIN p.legs : p.legs[j] \in LegState
    BY <1>1 DEF Request
  <1> QED BY Zenon, <1>1, <1>2 DEF p, Outs

LEMMA QuietSteps ==
    ASSUME ServingInv, NEW r \in Req, NEW i \in DOMAIN req[r].legs,
           Refresh(r, i) \/ CheckFenced(r, i) \/ CheckCost(r, i) \/ LegDies(r, i)
    PROVE  ServingInv'
  <1> DEFINE l == req[r].legs[i]
             again == [l EXCEPT !.pc = "policy", !.again = TRUE]
             over(out) == [l EXCEPT !.pc = "done", !.out = out]
             gone == [l EXCEPT !.pc = "gone"]
  <1>1. l \in LegState /\ (l.pc # "done" => l.out = "none")
    BY Zenon, LegTyped
  <1>2. CASE Refresh(r, i)
    <2>1. SetLeg(r, i, again) /\ l.pc = "check"
      BY Zenon, <1>2 DEF Refresh
    <2>2. again \in LegState /\ again.pc = "policy" /\ again.out = l.out /\ again.node = l.node
      BY Zenon, <1>1 DEF LegState
    <2> HIDE DEF again
    <2> QED BY Zenon, <1>1, <2>1, <2>2, QuietStep
  <1>3. CASE CheckFenced(r, i) \/ CheckCost(r, i)
    <2>1. PICK out \in {"fenced", "cost"} : Finish(r, i, out) /\ l.pc = "check"
      BY Zenon, <1>3 DEF CheckFenced, CheckCost
    <2>0. out \in Errors \cup Answers \cup {"none", "unauthenticated"}
      BY Zenon DEF Errors
    <2>2. over(out) \in LegState /\ over(out).pc = "done" /\ over(out).out = out
          /\ over(out).node = l.node
      BY Zenon, <1>1, <2>0 DEF LegState
    <2>3. SetLeg(r, i, over(out))
      BY Zenon, <2>1 DEF Finish
    <2> HIDE DEF over
    <2> QED BY Zenon, <2>1, <2>2, <2>3, QuietStep
  <1>4. CASE LegDies(r, i)
    <2>1. l.pc \in {"decide", "policy", "check"} /\ i # 1 /\ SetLeg(r, i, gone)
      BY <1>4 DEF LegDies, SetLeg
    <2>2. gone \in LegState /\ gone.pc = "gone" /\ gone.out = l.out /\ gone.node = l.node
      BY Zenon, <1>1 DEF LegState
    <2> HIDE DEF gone
    <2> QED BY Zenon, <1>1, <2>1, <2>2, QuietStep
  <1> QED BY Zenon, <1>2, <1>3, <1>4

LEMMA LookupKeeps ==
    ASSUME ServingInv, NEW r \in Req, NEW i \in DOMAIN req[r].legs, LookupPolicy(r, i)
    PROVE  ServingInv'
  <1> DEFINE p == req[r]
             o == p.legs[i]
             l(s) == IF s = "active" THEN [o EXCEPT !.pc = "check"]
                     ELSE [o EXCEPT !.pc = "done", !.out = s]
             q(s) == [p EXCEPT !.legs = [p.legs EXCEPT ![i] = l(s)], !.said = p.said \cup {s}]
  <1>1. PICK s \in {"active", "unknown", "disabled", "other"} : req' = [req EXCEPT ![r] = q(s)]
    BY Zenon DEF LookupPolicy
  <1>2. Good(p) /\ p \in Request /\ o \in LegState /\ o.pc = "policy" /\ o.out = "none"
        /\ i \in DOMAIN p.legs
    BY Zenon, LegTyped DEF ServingInv, Good, LookupPolicy
  <1> HIDE DEF p, o
  <1>3. /\ l(s) \in LegState /\ l(s).node = o.node
        /\ s = "active" => l(s).pc = "check" /\ l(s).out = "none"
        /\ s # "active" => l(s).pc = "done" /\ l(s).out = s
    <2>1. CASE s = "active"
      BY Zenon, <1>2, <2>1 DEF LegState
    <2>2. CASE s # "active"
      <3>1. s \in Errors \cup Answers \cup {"none", "unauthenticated"}
        BY Zenon, <2>2 DEF Errors
      <3> QED BY Zenon, <1>2, <2>2, <3>1 DEF LegState
    <2> QED BY Zenon, <2>1, <2>2
  <1> HIDE DEF l
  <1>4. /\ [p.legs EXCEPT ![i] = l(s)] \in Seq(LegState) /\ p.charged \in Nat /\ p.published \in Nat
        /\ p.said \cup {s} \in SUBSET Said
    BY <1>2, <1>3 DEF Request, Said
  <1>5. /\ q(s) \in Request /\ q(s).legs = [p.legs EXCEPT ![i] = l(s)] /\ q(s).fell = p.fell
        /\ q(s).said = p.said \cup {s} /\ q(s).charged = p.charged /\ q(s).published = p.published
        /\ q(s).pc = p.pc /\ q(s).tenant = p.tenant /\ q(s).peek = p.peek /\ q(s).code = p.code
        /\ q(s).owner = p.owner /\ q(s).badKey = p.badKey
    BY Zenon, <1>2, <1>4 DEF Request
  <1> HIDE DEF q
  <1>6. Same(p, q(s))
    BY <1>4, <1>5 DEF Same
  <1>7. s # "active" => s \in Errors \cup Answers /\ Founded(q(s), s)
    BY Zenon, <1>5 DEF Founded, Errors
  <1>8. ~(q(s).charged > p.charged) /\ q(s).charged <= p.charged + 1 - Pending(l(s))
        /\ q(s).published <= p.published + 1 - Pending(l(s))
    <2>1. Pending(l(s)) \in {0, 1}
      BY Zenon DEF Pending
    <2> QED BY <1>4, <1>5, <2>1
  <1>9. Good(q(s))
    BY <1>2, <1>3, <1>5, <1>6, <1>7, <1>8, ActiveLeg DEF o
  <1> QED BY Zenon, <1>1, <1>9, RequestPatched DEF p

(* What a leg at work says when it ends, having charged or published.      *)
LEMMA LegEnds ==
    ASSUME ServingInv, NEW r \in Req, NEW i \in DOMAIN req[r].legs, req[r].legs[i].pc = "check",
           NEW out \in Errors \cup Answers, NEW word \in Said, NEW c \in {0, 1}, NEW d \in {0, 1},
           req' = [req EXCEPT ![r] = [req[r] EXCEPT
             !.legs[i] = [req[r].legs[i] EXCEPT !.pc = "done", !.out = out],
             !.said = @ \cup {word}, !.charged = @ + c, !.published = @ + d]],
           out \notin {"unknown", "disabled"}, out = "refused" => word = "refused",
           out = "allowed" /\ ~req[r].peek => c = 1, c = 1 => word = "down" \/ out = "allowed"
    PROVE  ServingInv'
  <1> DEFINE p == req[r]
             o == p.legs[i]
             l == [o EXCEPT !.pc = "done", !.out = out]
             q == [p EXCEPT !.legs = [p.legs EXCEPT ![i] = l], !.said = p.said \cup {word},
                            !.charged = p.charged + c, !.published = p.published + d]
  <1>1. req' = [req EXCEPT ![r] = q]
    BY Zenon
  <1>2. Good(p) /\ p \in Request /\ o \in LegState /\ o.pc = "check" /\ i \in DOMAIN p.legs
    BY Zenon, LegTyped DEF ServingInv, Good
  <1>a. out = "allowed" /\ ~p.peek => c = 1
    BY Zenon
  <1> HIDE DEF p, o
  <1>3. l \in LegState /\ l.node = o.node /\ l.pc = "done" /\ l.out = out
    BY Zenon, <1>2 DEF LegState
  <1> HIDE DEF l
  <1>4. /\ [p.legs EXCEPT ![i] = l] \in Seq(LegState) /\ p.charged \in Nat /\ p.published \in Nat
        /\ p.said \cup {word} \in SUBSET Said
    BY <1>2, <1>3 DEF Request
  <1>5. p.charged + c \in Nat /\ p.published + d \in Nat
    BY <1>4
  <1>6. /\ q \in Request /\ q.legs = [p.legs EXCEPT ![i] = l] /\ q.fell = p.fell
        /\ q.said = p.said \cup {word} /\ q.charged = p.charged + c /\ q.published = p.published + d
        /\ q.pc = p.pc /\ q.tenant = p.tenant /\ q.peek = p.peek /\ q.code = p.code
        /\ q.owner = p.owner /\ q.badKey = p.badKey
    BY Zenon, <1>2, <1>4, <1>5 DEF Request
  <1> HIDE DEF q
  <1>7. Same(p, q)
    BY <1>4, <1>6 DEF Same
  <1>8. Founded(q, out)
    BY <1>4, <1>6, <1>a DEF Founded
  <1>9. /\ q.charged > p.charged => "down" \in q.said \/ l.out = "allowed"
        /\ q.charged <= p.charged + 1 - Pending(l) /\ q.published <= p.published + 1 - Pending(l)
    <2>1. Pending(l) = 0
      BY Zenon, <1>3 DEF Pending
    <2>2. q.charged > p.charged => c = 1
      BY <1>4, <1>6
    <2> QED BY <1>3, <1>4, <1>6, <2>1, <2>2
  <1>10. Good(q)
    BY Zenon, <1>2, <1>3, <1>6, <1>7, <1>8, <1>9, ActiveLeg DEF o
  <1> QED BY Zenon, <1>1, <1>10, RequestPatched DEF p

LEMMA CheckKeeps ==
    ASSUME ServingInv, NEW r \in Req, NEW i \in DOMAIN req[r].legs,
           CheckCounted(r, i) \/ CheckFailed(r, i)
    PROVE  ServingInv'
  <1>1. CASE CheckCounted(r, i)
    <2> DEFINE out == IF req[r].peek \/ Fits(r) THEN "allowed" ELSE "refused"
               c == IF Charges(r) THEN 1 ELSE 0
               d == IF req[r].peek THEN 0 ELSE 1
    <2>1. /\ req[r].legs[i].pc = "check" /\ (req[r].peek \/ req[r].cost <= Capacity)
          /\ req' = [req EXCEPT ![r] = [req[r] EXCEPT
               !.legs[i] = [req[r].legs[i] EXCEPT !.pc = "done", !.out = out],
               !.said = @ \cup {out}, !.charged = @ + c, !.published = @ + d]]
      BY Zenon, <1>1 DEF CheckCounted
    <2>2. /\ out \in Errors \cup Answers /\ out \in Said /\ c \in {0, 1} /\ d \in {0, 1}
          /\ out \notin {"unknown", "disabled"}
      BY Zenon DEF Answers, Said
    <2>3. (out = "allowed" /\ ~req[r].peek => c = 1) /\ (c = 1 => out = "allowed")
      BY <2>1 DEF Charges
    <2> HIDE DEF out, c, d
    <2> QED BY Zenon, <2>1, <2>2, <2>3, LegEnds
  <1>2. CASE CheckFailed(r, i)
    <2> DEFINE out == IF req[r].tenant \in FailsClosed THEN "store" ELSE "degraded"
               d == IF req[r].tenant \in FailsClosed THEN 0 ELSE 1
    <2>1. PICK c \in {0, 1} :
            /\ req[r].legs[i].pc = "check"
            /\ req' = [req EXCEPT ![r] = [req[r] EXCEPT
                 !.legs[i] = [req[r].legs[i] EXCEPT !.pc = "done", !.out = out],
                 !.said = @ \cup {"down"}, !.charged = @ + c, !.published = @ + d]]
      BY Zenon, <1>2 DEF CheckFailed
    <2>2. /\ out \in Errors \cup Answers /\ "down" \in Said /\ d \in {0, 1}
          /\ out \notin {"unknown", "disabled", "refused", "allowed"}
      BY Zenon DEF Answers, Errors, Said
    <2> HIDE DEF out, d
    <2> QED BY Zenon, <2>1, <2>2, LegEnds
  <1> QED BY Zenon, <1>1, <1>2

LEMMA ReplyTaken ==
    ASSUME ServingInv, NEW r \in Req, NEW i \in DOMAIN req[r].legs, i < Len(req[r].legs),
           req[r].legs[i].pc = "waiting", req[r].legs[i + 1].pc = "done",
           NEW out, out = req[r].legs[i + 1].out, out \in Errors \cup Answers, Finish(r, i, out)
    PROVE  ServingInv'
  <1> DEFINE p == req[r]
             o == p.legs[i]
             l == [o EXCEPT !.pc = "done", !.out = out]
  <1>1. Good(p) /\ p \in Request /\ o \in LegState /\ o.pc = "waiting" /\ i \in DOMAIN p.legs
        /\ i < Len(p.legs) /\ p.legs[i + 1].pc = "done" /\ p.legs[i + 1].out = out
    BY Zenon, LegTyped DEF ServingInv, Good
  <1> HIDE DEF o
  <1>2. l \in LegState /\ l.node = o.node /\ l.pc = "done" /\ l.out = out
    BY Zenon, <1>1 DEF LegState
  <1>3. SetLeg(r, i, l)
    BY Zenon DEF Finish, o
  <1> HIDE DEF l
  <1>4. PICK q \in Request : /\ req' = [req EXCEPT ![r] = q] /\ q.legs = [p.legs EXCEPT ![i] = l]
                             /\ q.fell = p.fell /\ q.said = p.said /\ q.charged = p.charged
                             /\ q.published = p.published /\ Same(p, q)
    BY Zenon, <1>2, <1>3, LegSet
  <1> HIDE DEF p
  <1>5. /\ p.legs \in Seq(LegState) /\ DOMAIN p.legs = 1..Len(p.legs) /\ Len(p.legs) \in Nat
        /\ Len(p.legs) <= 2 /\ p.legs # <<>> /\ p.charged \in Nat /\ p.published \in Nat
        /\ i \in 1..Len(p.legs)
    BY <1>1 DEF Good, Request, Hops
  <1>6. i = 1 /\ Len(p.legs) = 2 /\ i + 1 = 2
    BY <1>1, <1>5, OneOrTwo, Zenon
  <1>7. ~p.fell
    BY Zenon, <1>1, <1>5, <1>6 DEF Good, Hops, o
  <1>8. Founded(q, out)
    <2>1. 2 \in DOMAIN p.legs
      BY <1>5, <1>6
    <2>2. Founded(p, p.legs[2].out)
      BY Zenon, <1>1, <2>1 DEF Good, Outs
    <2>3. p.legs[2].out = out
      BY Zenon, <1>1, <1>6
    <2> QED BY Zenon, <1>4, <2>2, <2>3 DEF Founded, Same
  <1>9. Pending(o) = 0 /\ Pending(l) = 0 /\ Number(p.fell) = 0 /\ Number(q.fell) = 0
    BY Zenon, <1>1, <1>2, <1>4, <1>7 DEF Pending, Number
  <1>10. Hops(q) /\ Outs(q) /\ Bills(q) /\ Coded(q) /\ Keyed(q)
    <2>1. q.charged + Pending(l) + Number(p.fell) <= p.charged + Pending(p.legs[i]) + Number(q.fell)
          /\ q.published + Pending(l) + Number(p.fell)
               <= p.published + Pending(p.legs[i]) + Number(q.fell)
      BY <1>4, <1>5, <1>9 DEF o
    <2>2. p.legs[i].pc \in {"decide", "waiting", "policy", "check"} /\ l.node = p.legs[i].node
      BY Zenon, <1>1, <1>2 DEF o
    <2>3. /\ Good(p) /\ i \in DOMAIN p.legs /\ l \in LegState /\ q \in Request
          /\ q.legs = [p.legs EXCEPT ![i] = l] /\ Same(p, q) /\ (i # 1 => q.fell = p.fell)
      BY Zenon, <1>1, <1>2, <1>4
    <2>4. /\ l.pc \in {"policy", "check", "done", "gone"} /\ (i = 1 => l.pc # "gone")
          /\ (l.pc = "done" => l.out \in Errors \cup Answers /\ Founded(q, l.out))
          /\ (l.pc # "done" => l.out = "none")
      BY Zenon, <1>2, <1>8
    <2> QED BY <2>1, <2>2, <2>3, <2>4, LegMoves, Zenon
  <1>11. Traced(q)
    <2>1. Len(q.legs) = 2 /\ q.legs[1] = l /\ q.legs[2] = p.legs[2] /\ q.legs # <<>>
      BY <1>4, <1>5, <1>6
    <2>2. p.charged > 0 => "down" \in p.said \/ p.legs[2].out = "allowed"
      BY Zenon, <1>1, <1>5, <1>6, <1>7 DEF Good, Traced
    <2> QED BY <1>1, <1>2, <1>4, <1>6, <2>1, <2>2 DEF Traced
  <1> QED BY Zenon, <1>4, <1>10, <1>11, RequestPatched DEF Good, p

LEMMA TakeReplyKeeps ==
    ASSUME ServingInv, NEW r \in Req, NEW i \in DOMAIN req[r].legs, i < Len(req[r].legs),
           TakeReply(r, i)
    PROVE  ServingInv'
  <1> DEFINE out == req[r].legs[i + 1].out
             code == StatusFor(out)
  <1>1. req[r].legs[i].pc = "waiting" /\ req[r].legs[i + 1].pc = "done"
    BY Zenon DEF TakeReply
  <1>2. out \in Errors \cup Answers \cup {"unauthenticated"}
    <2> DEFINE p == req[r]
    <2>1. Outs(p) /\ p \in Request /\ i \in DOMAIN p.legs /\ i < Len(p.legs)
          /\ p.legs[i + 1].pc = "done"
      BY Zenon, <1>1 DEF ServingInv, Good
    <2> HIDE DEF p
    <2>2. i + 1 \in DOMAIN p.legs
      BY <2>1 DEF Request
    <2> QED BY Zenon, <2>1, <2>2 DEF Outs, p
  <1>3. CASE code = "OK" /\ Finish(r, i, out)
    <2>1. out \in Answers
      BY Zenon, <1>2, <1>3, StatusIs
    <2> QED BY Zenon, <1>1, <1>3, <2>1, ReplyTaken
  <1>4. CASE code # "OK" /\ Translate(code) # "peerUnavailable" /\ Finish(r, i, Translate(code))
    <2>1. Translate(code) = out /\ out \in {"unknown", "disabled", "cost"}
      BY Zenon, <1>2, <1>4, StatusIs
    <2>2. out \in Errors
      BY Zenon, <2>1 DEF Errors
    <2> QED BY Zenon, <1>1, <1>4, <2>1, <2>2, ReplyTaken
  <1>5. CASE FallBack(r, i)
    BY Zenon, <1>1, <1>5, FallBackKeeps
  <1> QED BY Zenon, <1>3, <1>4, <1>5 DEF TakeReply

LEMMA OneMore ==
    ASSUME NEW S, NEW w \in Seq(S), NEW m \in S
    PROVE  /\ Append(w, m) \in Seq(S) /\ Len(Append(w, m)) = Len(w) + 1
           /\ \A i \in 1..Len(w) : Append(w, m)[i] = w[i]
           /\ Append(w, m)[Len(w) + 1] = m
  OBVIOUS

LEMMA TwoLegs ==
    ASSUME NEW S, NEW w \in Seq(S), Len(w) = 1, NEW m \in S
    PROVE  /\ Append(w, m) \in Seq(S) /\ Len(Append(w, m)) = 2
           /\ Append(w, m)[1] = w[1] /\ Append(w, m)[2] = m
  <1>1. /\ Append(w, m) \in Seq(S) /\ Len(Append(w, m)) = Len(w) + 1
        /\ \A i \in 1..Len(w) : Append(w, m)[i] = w[i]
        /\ Append(w, m)[Len(w) + 1] = m
    BY OneMore, Zenon
  <1>2. 1 \in 1..Len(w) /\ Len(w) + 1 = 2
    OBVIOUS
  <1> QED BY <1>1, <1>2, Zenon

(* The question goes on to the owner.  Only a leg that is alone asks.      *)
LEMMA Forwarded ==
    ASSUME ServingInv, NEW r \in Req, 1 \in DOMAIN req[r].legs, req[r].legs[1].pc = "decide",
           NEW m \in LegState, \/ m.pc = "decide" /\ m.out = "none"
                               \/ m.pc = "done" /\ m.out = "unauthenticated",
           req' = [req EXCEPT ![r] = [req[r] EXCEPT !.legs =
                     Append([req[r].legs EXCEPT ![1].pc = "waiting"], m)]]
    PROVE  ServingInv'
  <1> DEFINE p == req[r]
             o == p.legs[1]
             l == [o EXCEPT !.pc = "waiting"]
             legs == Append([p.legs EXCEPT ![1] = l], m)
             q == [p EXCEPT !.legs = legs]
  <1>1. req' = [req EXCEPT ![r] = q]
    BY Zenon
  <1>2. Good(p) /\ p \in Request /\ o \in LegState /\ o.pc = "decide" /\ o.out = "none"
        /\ 1 \in DOMAIN p.legs
    BY Zenon, LegTyped DEF ServingInv, Good
  <1> HIDE DEF p, o
  <1>3. l \in LegState /\ l.pc = "waiting" /\ l.out = "none" /\ l.node = o.node
    BY Zenon, <1>2 DEF LegState
  <1> HIDE DEF l
  <1>4. p.legs \in Seq(LegState) /\ p.legs # <<>> /\ p.charged \in Nat /\ p.published \in Nat
    BY <1>2 DEF Request
  <1>5. Len(p.legs) = 1 /\ o.node \in Server /\ ~p.fell
    BY Zenon, <1>2, <1>4 DEF Good, Hops, o
  <1>6. legs \in Seq(LegState) /\ Len(legs) = 2 /\ legs[1] = l /\ legs[2] = m /\ legs # <<>>
        /\ DOMAIN legs = {1, 2}
    <2> DEFINE w == [p.legs EXCEPT ![1] = l]
    <2>1. w \in Seq(LegState) /\ Len(w) = 1 /\ w[1] = l
      BY <1>2, <1>3, <1>4, <1>5
    <2> HIDE DEF w
    <2>2. Append(w, m) \in Seq(LegState) /\ Len(Append(w, m)) = 2 /\ Append(w, m)[1] = l
          /\ Append(w, m)[2] = m
      BY <2>1, TwoLegs
    <2> QED BY <2>2 DEF w
  <1> HIDE DEF legs
  <1>7. /\ q \in Request /\ q.legs = legs /\ q.fell = p.fell
        /\ q.said = p.said /\ q.charged = p.charged /\ q.published = p.published
        /\ q.pc = p.pc /\ q.tenant = p.tenant /\ q.peek = p.peek /\ q.code = p.code
        /\ q.owner = p.owner /\ q.badKey = p.badKey
    BY Zenon, <1>2, <1>6 DEF Request
  <1> HIDE DEF q
  <1>8. p.pc = "serving"
    BY Zenon, <1>2, <1>4 DEF Good, Coded, Request, o
  <1>9. Pending(o) = 1 /\ Pending(l) = 0 /\ Pending(m) \in {0, 1}
    BY Zenon, <1>2, <1>3 DEF Pending
  <1>10. Bills(q)
    <2>1. PendingAt(p.legs, 1) = 1 /\ PendingAt(p.legs, 2) = 0
      BY <1>5, <1>9 DEF PendingAt, o
    <2>2. PendingAt(q.legs, 1) = 0 /\ PendingAt(q.legs, 2) \in {0, 1}
      BY Zenon, <1>6, <1>7, <1>9 DEF PendingAt
    <2>3. Number(p.fell) \in {0, 1} /\ Number(q.fell) = Number(p.fell)
      BY Zenon, <1>7 DEF Number
    <2>4. /\ p.charged + (PendingAt(p.legs, 1) + PendingAt(p.legs, 2)) <= 1 + Number(p.fell)
          /\ p.published + (PendingAt(p.legs, 1) + PendingAt(p.legs, 2)) <= 1 + Number(p.fell)
      BY Zenon, <1>2 DEF Good, Bills
    <2>5. /\ q.charged + (PendingAt(q.legs, 1) + PendingAt(q.legs, 2)) <= 1 + Number(q.fell)
          /\ q.published + (PendingAt(q.legs, 1) + PendingAt(q.legs, 2)) <= 1 + Number(q.fell)
      BY <1>4, <1>7, <2>1, <2>2, <2>3, <2>4
    <2> QED BY Zenon, <2>5 DEF Bills
  <1>11. Hops(q)
    <2>1. p.tenant # None
      BY Zenon, <1>2, <1>4 DEF Good, Hops
    <2>2. q.legs[1] = l /\ q.legs[2].pc # "waiting" /\ Len(q.legs) = 2 /\ q.legs # <<>>
      BY Zenon, <1>6, <1>7
    <2> QED BY <1>3, <1>5, <1>7, <2>1, <2>2 DEF Hops
  <1>12. Outs(q)
    <2>1. Founded(q, "none") /\ Founded(q, "unauthenticated")
      BY Zenon DEF Founded
    <2> QED BY <1>3, <1>6, <1>7, <2>1 DEF Outs
  <1>13. Traced(q)
    <2>1. p.charged > 0 => "down" \in p.said
      BY Zenon, <1>2, <1>4, <1>5 DEF Good, Traced, o
    <2> QED BY Zenon, <1>3, <1>6, <1>7, <2>1 DEF Traced
  <1>14. Coded(q) /\ Keyed(q)
    <2>1. q.pc = "serving" /\ q.legs # <<>>
      BY Zenon, <1>6, <1>7, <1>8
    <2> QED BY Zenon, <1>2, <1>7, <2>1 DEF Good, Coded, Keyed
  <1> QED BY Zenon, <1>1, <1>7, <1>10, <1>11, <1>12, <1>13, <1>14, RequestPatched DEF Good, p

LEMMA DecideKeeps ==
    ASSUME ServingInv, NEW r \in Req, NEW i \in DOMAIN req[r].legs, Decide(r, i)
    PROVE  ServingInv'
  <1> DEFINE l == req[r].legs[i]
             fenced == [l EXCEPT !.pc = "done", !.out = "fenced"]
             policy == [l EXCEPT !.pc = "policy"]
  <1>1. l \in LegState /\ l.pc = "decide" /\ l.out = "none"
    BY Zenon, LegTyped DEF Decide
  <1>2. CASE Finish(r, i, "fenced")
    <2>1. fenced \in LegState /\ fenced.pc = "done" /\ fenced.out = "fenced" /\ fenced.node = l.node
      BY Zenon, <1>1 DEF LegState, Errors
    <2>2. SetLeg(r, i, fenced)
      BY Zenon, <1>2 DEF Finish
    <2> HIDE DEF fenced
    <2> QED BY Zenon, <1>1, <2>1, <2>2, QuietStep
  <1>3. CASE SetLeg(r, i, policy)
    <2>1. policy \in LegState /\ policy.pc = "policy" /\ policy.out = "none" /\ policy.node = l.node
      BY Zenon, <1>1 DEF LegState
    <2> HIDE DEF policy
    <2> QED BY Zenon, <1>1, <1>3, <2>1, QuietStep
  <1>4. ASSUME MayForward(i), NEW owner \in Owners(l.node, req[r].tenant) \ {l.node},
               req' = [req EXCEPT ![r] = [req[r] EXCEPT !.legs =
                     Append([req[r].legs EXCEPT ![i].pc = "waiting"],
                            IF owner \in Trusts THEN Leg(owner, "decide")
                            ELSE [Leg(owner, "done") EXCEPT !.out = "unauthenticated"])]]
        PROVE  ServingInv'
    <2> DEFINE m == IF owner \in Trusts THEN Leg(owner, "decide")
                    ELSE [Leg(owner, "done") EXCEPT !.out = "unauthenticated"]
    <2>1. i = 1
      BY Zenon, <1>4 DEF MayForward
    <2>2. owner \in Place
      <3> DEFINE p == req[r]
      <3>1. Hops(p) /\ p.tenant \in Tenant \cup {None} /\ p.legs \in Seq(LegState)
        BY Zenon DEF ServingInv, Good, Request
      <3>2. p.legs # <<>>
        BY <3>1
      <3>3. l.node \in Server /\ p.tenant \in Tenant
        BY Zenon, <2>1, <3>1, <3>2 DEF Hops
      <3> QED BY <1>4, <3>3 DEF Place
    <2>3. /\ m \in LegState
          /\ \/ m.pc = "decide" /\ m.out = "none"
             \/ m.pc = "done" /\ m.out = "unauthenticated"
      BY Zenon, <2>2 DEF Leg, LegState
    <2>4. req' = [req EXCEPT ![r] = [req[r] EXCEPT !.legs =
                     Append([req[r].legs EXCEPT ![1].pc = "waiting"], m)]]
      BY Zenon, <1>4, <2>1
    <2> HIDE DEF m
    <2> QED BY Zenon, <1>1, <2>1, <2>3, <2>4, Forwarded
  <1> QED BY Zenon, <1>2, <1>3, <1>4 DEF Decide

(* The answer, and what became of it upstream.                             *)
LEMMA HttpCodes ==
    ASSUME NEW out \in Errors \cup Answers
    PROVE  /\ HttpCode(out) \in Codes /\ GrpcCode(out) \in Codes
           /\ HttpCode(out) = "404" => out = "unknown"
           /\ HttpCode(out) = "403" => out = "disabled"
           /\ HttpCode(out) = "429" => out = "refused"
           /\ HttpCode(out) \notin {"NotFound", "PermissionDenied", "OKNotAllowed"}
           /\ GrpcCode(out) = "NotFound" => out = "unknown"
           /\ GrpcCode(out) = "PermissionDenied" => out = "disabled"
           /\ GrpcCode(out) = "OKNotAllowed" => out = "refused"
           /\ GrpcCode(out) \notin {"404", "403", "429"}
  BY Zenon DEF Errors, Answers, HttpCode, GrpcCode, StatusFor, Codes

LEMMA AnswerGiven ==
    ASSUME ServingInv, NEW r \in Req, req[r].pc \in {"serving", "upstream"},
           NEW stage \in {"upstream", "answered"}, NEW code \in Codes,
           req' = [req EXCEPT ![r] = [req[r] EXCEPT !.pc = stage, !.code = code]],
           req[r].legs # <<>> => req[r].legs[1].pc = "done",
           stage = "answered" =>
             /\ code \in {"404", "NotFound"} => "unknown" \in req[r].said
             /\ code \in {"403", "PermissionDenied"} => "disabled" \in req[r].said
             /\ code \in {"429", "OKNotAllowed"} => "refused" \in req[r].said
    PROVE  ServingInv'
  <1> DEFINE p == req[r]
             q == [p EXCEPT !.pc = stage, !.code = code]
  <1>1. req' = [req EXCEPT ![r] = q] /\ Good(p) /\ p \in Request
        /\ (p.legs # <<>> => p.legs[1].pc = "done")
    BY Zenon DEF ServingInv, Good
  <1>2. stage = "answered" =>
          /\ code \in {"404", "NotFound"} => "unknown" \in p.said
          /\ code \in {"403", "PermissionDenied"} => "disabled" \in p.said
          /\ code \in {"429", "OKNotAllowed"} => "refused" \in p.said
    BY Zenon
  <1> HIDE DEF p
  <1>3. /\ q \in Request /\ q.pc = stage /\ q.code = code /\ q.legs = p.legs /\ q.fell = p.fell
        /\ q.said = p.said /\ q.charged = p.charged /\ q.published = p.published
        /\ q.tenant = p.tenant /\ q.peek = p.peek /\ q.owner = p.owner /\ q.badKey = p.badKey
    BY Zenon, <1>1 DEF Request
  <1> HIDE DEF q
  <1>4. Hops(q) /\ Traced(q) /\ Keyed(q)
    BY <1>1, <1>3 DEF Good, Hops, Traced, Keyed
  <1>5. Outs(q) /\ Bills(q)
    BY <1>1, <1>3 DEF Good, Outs, Founded, Bills
  <1>6. Coded(q)
    BY Zenon, <1>1, <1>2, <1>3 DEF Coded
  <1> QED BY Zenon, <1>1, <1>3, <1>4, <1>5, <1>6, RequestPatched DEF Good, p

LEMMA RespondKeeps ==
    ASSUME ServingInv, NEW r \in Req, Respond(r)
    PROVE  ServingInv'
  <1> DEFINE out == req[r].legs[1].out
             code == IF req[r].surface \in {"check", "proxy"} THEN HttpCode(out) ELSE GrpcCode(out)
  <1>1. req[r].pc = "serving" /\ req[r].legs[1].pc = "done" /\ req[r] \in Request
    BY Zenon DEF ServingInv, Respond
  <1>3. req[r].legs # <<>>
    BY Zenon, <1>1 DEF ServingInv, Good, Coded
  <1>4. ServingInv'
    <2>1. 1 \in DOMAIN req[r].legs
      <3>1. req[r].legs \in Seq(LegState)
        BY Zenon, <1>1 DEF Request
      <3> QED BY <1>3, <3>1
    <2>2. out \in Errors \cup Answers /\ Founded(req[r], out)
      BY Zenon, <1>1, <2>1 DEF ServingInv, Good, Outs
    <2>3. CASE req' = [req EXCEPT ![r] = [req[r] EXCEPT !.pc = "upstream"]]
      <3>1. req[r].code \in Codes
        BY Zenon, <1>1 DEF Request
      <3> DEFINE p == req[r]
                 q == [p EXCEPT !.pc = "upstream", !.code = p.code]
      <3>2. p \in Request /\ req' = [req EXCEPT ![r] = [p EXCEPT !.pc = "upstream"]]
        BY Zenon, <1>1, <2>3
      <3> HIDE DEF p
      <3>3. [p EXCEPT !.pc = "upstream"] = q
        BY Zenon, <3>2 DEF Request
      <3>4. req' = [req EXCEPT ![r] = q]
        BY Zenon, <3>2, <3>3
      <3> QED BY Zenon, <1>1, <3>1, <3>4, AnswerGiven DEF p
    <2>4. CASE req' = [req EXCEPT ![r] = [req[r] EXCEPT !.pc = "answered", !.code = code]]
      <3>1. /\ code \in Codes
            /\ code \in {"404", "NotFound"} => "unknown" \in req[r].said
            /\ code \in {"403", "PermissionDenied"} => "disabled" \in req[r].said
            /\ code \in {"429", "OKNotAllowed"} => "refused" \in req[r].said
        BY Zenon, <2>2, HttpCodes DEF Founded
      <3> HIDE DEF code
      <3> QED BY Zenon, <1>1, <2>4, <3>1, AnswerGiven
    <2> QED BY Zenon, <2>3, <2>4 DEF Respond
  <1> QED BY Zenon, <1>4

LEMMA UpstreamKeeps ==
    ASSUME ServingInv, NEW r \in Req, Upstream(r)
    PROVE  ServingInv'
  <1>1. PICK c \in {"200", "502"} :
          req' = [req EXCEPT ![r] = [req[r] EXCEPT !.pc = "answered", !.code = c]]
    BY Zenon DEF Upstream
  <1>2. req[r].pc = "upstream" /\ (req[r].legs # <<>> => req[r].legs[1].pc = "done")
    BY Zenon DEF Upstream, ServingInv, Good, Coded
  <1>3. c \in Codes /\ c \notin {"404", "NotFound", "403", "PermissionDenied", "429", "OKNotAllowed"}
    BY Zenon DEF Codes
  <1> QED BY Zenon, <1>1, <1>2, <1>3, AnswerGiven

(* Every handler answers at once or asks.                                  *)
LEMMA HandlersKeep ==
    ASSUME ServingInv, NEW r \in Req, NEW n \in Server, NEW key \in Tenant \cup {None, "bad"},
           NEW field \in Tenant \cup {None}, NEW cost \in 1..(Capacity + 1),
           \/ HandleCheck(r, n, key, field, cost) \/ HandleProxy(r, n, key, field, cost)
           \/ GrpcCheck(r, n, key, field, cost) \/ GetQuota(r, n, key, field)
    PROVE  ServingInv'
  <1>1. \A who : HttpAuthCode(who) \in Codes /\ GrpcAuthCode(who) \in Codes
    BY Zenon DEF HttpAuthCode, GrpcAuthCode, Codes
  <1>2. {"400", "404"} \subseteq Codes /\ {"check", "proxy", "grpc", "quota"} \subseteq Surfaces
    BY Zenon DEF Codes, Surfaces
  <1>3. cost \in Nat /\ 1 \in Nat
    BY ServingAssumption
  <1>4. CASE HandleCheck(r, n, key, field, cost)
    BY Zenon, <1>1, <1>2, <1>3, <1>4, RejectKeeps, AskKeeps DEF HandleCheck
  <1>5. CASE HandleProxy(r, n, key, field, cost)
    BY Zenon, <1>1, <1>2, <1>3, <1>5, RejectKeeps, AskKeeps DEF HandleProxy
  <1>6. CASE GrpcCheck(r, n, key, field, cost)
    BY Zenon, <1>1, <1>2, <1>3, <1>6, RejectKeeps, AskKeeps DEF GrpcCheck
  <1>7. CASE GetQuota(r, n, key, field)
    BY Zenon, <1>1, <1>2, <1>3, <1>7, RejectKeeps, AskKeeps DEF GetQuota
  <1> QED BY Zenon, <1>4, <1>5, <1>6, <1>7

LEMMA LegStepKeeps ==
    ASSUME ServingInv, NEW r \in Req, NEW i \in DOMAIN req[r].legs,
           LegStep(r, i) \/ LegDies(r, i)
    PROVE  ServingInv'
  <1>1. CASE Refresh(r, i) \/ CheckFenced(r, i) \/ CheckCost(r, i) \/ LegDies(r, i)
    BY Zenon, <1>1, QuietSteps
  <1>2. CASE CheckCounted(r, i) \/ CheckFailed(r, i)
    BY Zenon, <1>2, CheckKeeps
  <1>3. CASE i < Len(req[r].legs) /\ TakeReply(r, i)
    BY Zenon, <1>3, TakeReplyKeeps
  <1>4. CASE Decide(r, i)
    BY Zenon, <1>4, DecideKeeps
  <1>5. CASE LookupPolicy(r, i)
    BY Zenon, <1>5, LookupKeeps
  <1>6. CASE HopFails(r, i)
    BY Zenon, <1>6, HopFailsKeeps
  <1> QED BY Zenon, <1>1, <1>2, <1>3, <1>4, <1>5, <1>6 DEF LegStep

LEMMA ServingStep == ServingInv /\ [ServingNext]_servingVars => ServingInv'
  <1> SUFFICES ASSUME ServingInv, [ServingNext]_servingVars PROVE ServingInv'
    BY Zenon
  <1>1. CASE UNCHANGED servingVars
    BY Zenon, <1>1 DEF servingVars, ServingInv
  <1>2. ASSUME NEW r \in Req, NEW n \in Server, NEW key \in Tenant \cup {None, "bad"},
               NEW field \in Tenant \cup {None},
               \/ \E cost \in 1..(Capacity + 1) :
                    \/ HandleCheck(r, n, key, field, cost) \/ HandleProxy(r, n, key, field, cost)
                    \/ GrpcCheck(r, n, key, field, cost)
               \/ GetQuota(r, n, key, field)
        PROVE  ServingInv'
    <2>1. 1 \in 1..(Capacity + 1)
      BY ServingAssumption
    <2> QED BY Zenon, <1>2, <2>1, HandlersKeep
  <1>3. ASSUME NEW r \in Req, NEW i \in DOMAIN req[r].legs, LegStep(r, i) \/ LegDies(r, i)
        PROVE  ServingInv'
    BY Zenon, <1>3, LegStepKeeps
  <1>4. ASSUME NEW r \in Req, Respond(r) \/ Upstream(r)
        PROVE  ServingInv'
    BY Zenon, <1>4, RespondKeeps, UpstreamKeeps
  <1> QED BY Zenon, <1>1, <1>2, <1>3, <1>4 DEF ServingNext

LEMMA ServingHolds == ServingSpec => []ServingInv
  BY ServingStarts, ServingStep, PTL DEF ServingSpec

(* Whatever the nodes believe of the ring and however that changes while a *)
(* request is served, it is forwarded at most once (maybeForward of        *)
(* decide.go and the Forwarded of its query).                              *)
THEOREM OneHopOnly == ServingSpec => []OneHop
  <1>1. ServingInv => OneHop
    BY Zenon DEF ServingInv, Good, Hops, OneHop
  <1> QED BY <1>1, ServingHolds, PTL

(* A caller hears "unknown", "disabled" or "too many" only where a lookup  *)
(* or the store said so, on both surfaces and across a hop (translate of   *)
(* forward.go, writeDecideError of gateway and statusFor of grpcapi).      *)
THEOREM AnswersAreFounded == ServingSpec => []AnswersAreAboutTheTenant
  <1>1. ServingInv => AnswersAreAboutTheTenant
    BY Zenon DEF ServingInv, Good, Coded, AnswersAreAboutTheTenant
  <1> QED BY <1>1, ServingHolds, PTL

(* Nothing is decided for a request whose key is wrong, and a key's own    *)
(* tenant is the one decided about (resolveTenant of gateway/server.go and *)
(* tenant of grpcapi/server.go).                                           *)
THEOREM KeysSpeakForTheirTenant == ServingSpec => []SpeaksForItsKey
  <1>1. ServingInv => SpeaksForItsKey
    BY Zenon DEF ServingInv, Good, Keyed, SpeaksForItsKey
  <1> QED BY <1>1, ServingHolds, PTL

LEMMA BillsBounded ==
    ASSUME NEW q, Good(q)
    PROVE  /\ q.charged <= 1 + (IF q.fell THEN 1 ELSE 0)
           /\ q.published <= 1 + (IF q.fell THEN 1 ELSE 0)
  <1>1. q.charged \in Nat /\ q.published \in Nat
    BY Zenon DEF Good, Request
  <1>2. \A l : Pending(l) \in Nat
    BY Zenon DEF Pending
  <1>3. PendingAt(q.legs, 1) \in Nat /\ PendingAt(q.legs, 2) \in Nat
    BY Zenon, <1>2 DEF PendingAt
  <1>4. /\ q.charged + (PendingAt(q.legs, 1) + PendingAt(q.legs, 2)) <= 1 + Number(q.fell)
        /\ q.published + (PendingAt(q.legs, 1) + PendingAt(q.legs, 2)) <= 1 + Number(q.fell)
    BY Zenon DEF Good, Bills
  <1>5. Number(q.fell) \in Nat
    BY Zenon DEF Number
  <1>6. q.charged <= 1 + Number(q.fell) /\ q.published <= 1 + Number(q.fell)
    BY <1>1, <1>3, <1>4, <1>5
  <1> QED BY Zenon, <1>6 DEF Number

(* What a request was charged is what its answer says: once for an         *)
(* admission, never for a refusal or an error, but for a hop given up on   *)
(* or a reply lost (maybeForward and decideHere of decide.go).             *)
THEOREM ChargesMatchAnswers == ServingSpec => []ChargedAsAnswered
  <1>1. ASSUME ServingInv, NEW r \in Req, req[r].pc \in {"upstream", "answered"}, req[r].legs # <<>>
        PROVE  /\ req[r].legs[1].out = "allowed" /\ ~req[r].peek => req[r].charged >= 1
               /\ req[r].charged > 0 => \/ req[r].legs[1].out = "allowed" \/ req[r].fell
                                        \/ "down" \in req[r].said
    <2> DEFINE p == req[r]
    <2>1. Good(p) /\ p.pc \in {"upstream", "answered"} /\ p.legs # <<>>
      BY Zenon, <1>1 DEF ServingInv
    <2> HIDE DEF p
    <2>2. /\ p.legs \in Seq(LegState) /\ p.charged \in Nat /\ Len(p.legs) \in Nat
          /\ DOMAIN p.legs = 1..Len(p.legs) /\ Len(p.legs) # 0
      BY <2>1 DEF Good, Request
    <2>3. 1 \in DOMAIN p.legs /\ (Len(p.legs) = 1 \/ Len(p.legs) = 2)
      <3> DEFINE k == Len(p.legs)
      <3>1. k \in Nat /\ k # 0 /\ k <= 2 /\ DOMAIN p.legs = 1..k
        BY Zenon, <2>1, <2>2 DEF Good, Hops
      <3> HIDE DEF k
      <3>2. 1 \in 1..k /\ (k = 1 \/ k = 2)
        BY <3>1
      <3> QED BY Zenon, <3>1, <3>2 DEF k
    <2>4. p.legs[1].out = "allowed" /\ ~p.peek => p.charged >= 1
      BY <2>1, <2>2, <2>3 DEF Good, Outs, Founded
    <2>5. p.legs[1].pc = "done"
      BY Zenon, <2>1 DEF Good, Coded
    <2>6. p.charged > 0 => p.legs[1].out = "allowed" \/ p.fell \/ "down" \in p.said
      BY Zenon, <2>1, <2>3, <2>5 DEF Good, Traced
    <2> QED BY Zenon, <2>4, <2>6 DEF p
  <1>2. ASSUME ServingInv, NEW r \in Req
        PROVE  req[r].charged <= 1 + (IF req[r].fell THEN 1 ELSE 0)
    BY Zenon, <1>2, BillsBounded DEF ServingInv
  <1>3. ServingInv => ChargedAsAnswered
    BY Zenon, <1>1, <1>2 DEF ChargedAsAnswered
  <1> QED BY <1>3, ServingHolds, PTL

(* A decision is published once wherever it was made, but for a fallback   *)
(* (publish of decide.go: the owner publishes, the forwarder does not).    *)
THEOREM DecisionsArePublishedOnce == ServingSpec => []PublishedOnce
  <1>1. ServingInv => PublishedOnce
    BY Zenon, BillsBounded DEF ServingInv, PublishedOnce
  <1> QED BY <1>1, ServingHolds, PTL

=============================================================================
