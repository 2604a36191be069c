------------------------- MODULE PolicyFenceProofs -------------------------
(***************************************************************************)
(* Proofs about PolicyFence for any number of nodes, handlers, edits,      *)
(* generations, restarts and wipes.                                        *)
(***************************************************************************)
EXTENDS PolicyFence, TLAPS

(* The empty records belong to their types. *)
LEMMA EmptyTypes ==
    NoEntry \in Entry /\ NoFlight \in Flight /\ IdleRequest \in Request /\ NoWrite \in Write
  BY Zenon DEF NoEntry, Entry, NoFlight, Flight, IdleRequest, Request, Outcome, NoWrite, Write

(* The fields an action assigns keep a record in its type. *)
LEMMA EntryUpdate ==
    ASSUME NEW e \in Entry
    PROVE  /\ e.ver \in Nat /\ e.gen \in Nat /\ e.overtaken \in BOOLEAN
           /\ \A s \in {"expired", "dead"} : [e EXCEPT !.state = s] \in Entry
  BY Zenon DEF Entry

LEMMA FlightUpdate ==
    ASSUME NEW f \in Flight
    PROVE  /\ f.ver \in Nat /\ f.gen \in Nat /\ f.overtaken \in BOOLEAN
           /\ \A v \in Nat : [f EXCEPT !.phase = "read", !.ver = v] \in Flight
           /\ [f EXCEPT !.phase = "failed", !.gen = 0] \in Flight
           /\ [f EXCEPT !.phase = "landing"] \in Flight
           /\ [f EXCEPT !.phase = "begin"] \in Flight
           /\ \A b \in BOOLEAN : [f EXCEPT !.overtaken = b] \in Flight
  BY Zenon DEF Flight

LEMMA RequestUpdate ==
    ASSUME NEW q \in Request
    PROVE  /\ q.ver \in Nat /\ q.gen \in Nat /\ q.held \in Entry
           /\ \A p \in {"lookup", "waiting", "check", "invalidate"} : [q EXCEPT !.pc = p] \in Request
           /\ \A e \in Entry : [q EXCEPT !.pc = "join", !.held = e] \in Request
           /\ \A g \in Nat : [q EXCEPT !.pc = "invalidate", !.seen = g] \in Request
           /\ [q EXCEPT !.pc = "lookup", !.refreshed = TRUE, !.ver = 0, !.gen = 0] \in Request
           /\ \A o \in Outcome : [q EXCEPT !.pc = "done", !.out = o] \in Request
  BY Zenon, EmptyTypes DEF Request

LEMMA GivenType ==
    ASSUME NEW q \in Request, NEW c, c.ver \in Nat, c.gen \in Nat
    PROVE  Given(q, c) \in Request
  BY Zenon, EmptyTypes DEF Request, Given, Outcome

LEMMA WokenType ==
    ASSUME NEW q \in Request, NEW f \in Flight
    PROVE  Woken(q, f) \in Request
  <1>1. Given(q, f) \in Request
    BY Zenon, GivenType, FlightUpdate
  <1>2. Given(q, q.held) \in Request
    BY Zenon, GivenType, RequestUpdate, EntryUpdate
  <1>3. [q EXCEPT !.pc = "done", !.out = "nopolicy", !.held = NoEntry] \in Request
    BY Zenon, EmptyTypes DEF Request, Outcome
  <1> QED BY Zenon, <1>1, <1>2, <1>3 DEF Woken

LEMMA InvalidateType ==
    ASSUME TypeOK, NEW n \in Node, Invalidate(n)
    PROVE  cache' \in [Node -> Entry] /\ flight' \in [Node -> Flight]
  <1>1. cache' \in [Node -> Entry]
    BY Zenon, EmptyTypes DEF TypeOK, Invalidate
  <1>2. flight' \in [Node -> Flight]
    BY ZenonT(40) DEF TypeOK, Invalidate, Flight
  <1> QED BY Zenon, <1>1, <1>2

(* Every action keeps every variable in its type. *)
LEMMA TypeStep == TypeOK /\ [Next]_vars => TypeOK'
  <1> SUFFICES ASSUME TypeOK, [Next]_vars PROVE TypeOK'
    BY Zenon
  <1> USE ConstantsAssumption, EmptyTypes
  <1>1. ASSUME NEW n \in Node, Expire(n) PROVE TypeOK'
    BY Zenon, <1>1, EntryUpdate DEF TypeOK, Expire
  <1>2. ASSUME NEW n \in Node, StaleOut(n) PROVE TypeOK'
    BY Zenon, <1>2, EntryUpdate DEF TypeOK, StaleOut
  <1>3. ASSUME NEW n \in Node, FlightStep(n) PROVE TypeOK'
    <2>1. CASE FlightStart(n)
      <3>1. flight' \in [Node -> Flight]
        BY Zenon, <2>1, EntryUpdate DEF TypeOK, FlightStart, Flight
      <3> QED BY Zenon, <2>1, <3>1 DEF TypeOK, FlightStart
    <2>2. CASE FlightRead(n)
      <3>1. Len(rows) \in Nat /\ flight[n] \in Flight
        BY DEF TypeOK
      <3>2. [flight[n] EXCEPT !.phase = "read", !.ver = Len(rows)] \in Flight
        BY Zenon, <3>1, FlightUpdate
      <3> QED BY Zenon, <2>2, <3>2 DEF TypeOK, FlightRead
    <2>3. CASE FlightFail(n)
      BY Zenon, <2>3, FlightUpdate DEF TypeOK, FlightFail
    <2>4. CASE FlightStore(n)
      BY Zenon, <2>4, FlightUpdate DEF TypeOK, FlightStore, Entry
    <2>5. CASE FlightLand(n)
      BY Zenon, <2>5, WokenType DEF TypeOK, FlightLand
    <2> QED BY Zenon, <1>3, <2>1, <2>2, <2>3, <2>4, <2>5 DEF FlightStep
  <1>4. ASSUME NEW n \in Node, AdminInvalidate(n) PROVE TypeOK'
    <2>1. [admin[n] EXCEPT !.pc = "propose"] \in Write
      BY Zenon DEF TypeOK, Write
    <2> QED BY Zenon, <1>4, <2>1, InvalidateType DEF TypeOK, AdminInvalidate
  <1>5. ASSUME NEW n \in Node, BumpPolicyGen(n) PROVE TypeOK'
    BY <1>5 DEF TypeOK, BumpPolicyGen, Write
  <1>6. ASSUME NEW n \in Node, BumpRefused(n) PROVE TypeOK'
    BY Zenon, <1>6 DEF TypeOK, BumpRefused
  <1>7. ASSUME NEW n \in Node, Apply(n) PROVE TypeOK'
    BY <1>7 DEF TypeOK, Apply
  <1>8. ASSUME NEW n \in Node, Listen(n) PROVE TypeOK'
    BY Zenon, <1>8 DEF TypeOK, Listen
  <1>9. ASSUME NEW n \in Node, ListenFlush(n) PROVE TypeOK'
    BY Zenon, <1>9, InvalidateType DEF TypeOK, ListenFlush
  <1>10. ASSUME NEW n \in Node, Notified(n) PROVE TypeOK'
    BY <1>10, InvalidateType DEF TypeOK, Notified
  <1>11. ASSUME NEW n \in Node, ListenerDrops(n) PROVE TypeOK'
    BY Zenon, <1>11 DEF TypeOK, ListenerDrops
  <1>12. ASSUME NEW n \in Node, Restart(n) PROVE TypeOK'
    BY <1>12 DEF TypeOK, Restart
  <1>13. ASSUME NEW n \in Editors, AdminOther(n) PROVE TypeOK'
    BY Zenon, <1>13 DEF TypeOK, AdminOther, Write
  <1>14. ASSUME NEW n \in Editors, NEW c \in Content, AdminWrite(n, c) PROVE TypeOK'
    BY <1>14 DEF TypeOK, AdminWrite, Write
  <1>15. ASSUME NEW r \in Req, Arrive(r) PROVE TypeOK'
    BY Zenon, <1>15, RequestUpdate DEF TypeOK, Arrive
  <1>16. ASSUME NEW r \in Req, HandlerStep(r) PROVE TypeOK'
    <2>1. CASE Lookup(r)
      BY Zenon, <2>1, EntryUpdate, GivenType, RequestUpdate DEF TypeOK, Lookup
    <2>2. CASE Join(r)
      BY Zenon, <2>2, FlightUpdate, RequestUpdate DEF TypeOK, Join
    <2>3. CASE SelfCheck(r)
      BY Zenon, <2>3, RequestUpdate DEF TypeOK, SelfCheck
    <2>4. CASE Refresh(r)
      BY Zenon, <2>4, InvalidateType, RequestUpdate DEF TypeOK, Refresh
    <2>5. CASE Check(r)
      <3>1. req' \in [Req -> Request]
        <4> DEFINE q == req[r]
        <4>1. /\ [q EXCEPT !.pc = "done", !.out = "fenced"] \in Request
              /\ [q EXCEPT !.pc = "done", !.out = "decided"] \in Request
              /\ [q EXCEPT !.pc = "invalidate"] \in Request
          BY Zenon, RequestUpdate DEF TypeOK, Outcome
        <4> QED BY Zenon, <2>5, <4>1 DEF TypeOK, Check
      <3>2. bound' \in Nat
        BY Zenon, <2>5, RequestUpdate DEF TypeOK, Check, Advance
      <3> QED BY Zenon, <2>5, <3>1, <3>2 DEF TypeOK, Check
    <2>6. CASE CheckFails(r)
      <3>1. req' \in [Req -> Request]
        BY Zenon, <2>6, RequestUpdate DEF TypeOK, CheckFails, Outcome
      <3>2. bound' \in Nat
        BY Zenon, <2>6, RequestUpdate DEF TypeOK, CheckFails, Advance
      <3> QED BY Zenon, <2>6, <3>1, <3>2 DEF TypeOK, CheckFails
    <2> QED BY Zenon, <1>16, <2>1, <2>2, <2>3, <2>4, <2>5, <2>6 DEF HandlerStep
  <1>17. ASSUME NEW r \in Req, Reply(r) PROVE TypeOK'
    BY Zenon, <1>17 DEF TypeOK, Reply
  <1>18. ASSUME Wipe PROVE TypeOK'
    BY <1>18 DEF TypeOK, Wipe
  <1>19. ASSUME UNCHANGED vars PROVE TypeOK'
    BY Zenon, <1>19 DEF TypeOK, vars
  <1> QED
    BY Zenon, <1>1, <1>2, <1>3, <1>4, <1>5, <1>6, <1>7, <1>8, <1>9, <1>10, <1>11, <1>12,
       <1>13, <1>14, <1>15, <1>16, <1>17, <1>18, <1>19 DEF Next

LEMMA InitType == Init => TypeOK
  <1> SUFFICES ASSUME Init PROVE TypeOK
    BY Zenon
  <1>1. PICK c \in Contents : rows = <<c>>
    BY Zenon, ConstantsAssumption DEF Init
  <1>2. rows \in Seq(Contents) /\ Len(rows) >= 1
    BY <1>1
  <1> QED BY <1>2, EmptyTypes DEF Init, TypeOK

(* Every variable keeps its type in every behaviour. *)
THEOREM TypeCorrect == Spec => []TypeOK
  BY InitType, TypeStep, PTL DEF Spec

-----------------------------------------------------------------------------
(* The strengthening StampSound needs: an edit is written before its       *)
(* generation is minted, and no node is ahead of the log.                  *)
LogWritten == \A g \in 1..Len(log) : log[g] <= Len(rows)
Minted == \A n \in Node : /\ applied[n] <= Len(log)
                          /\ flight[n].gen <= Len(log)
                          /\ admin[n].ver <= Len(rows)
StampInv == TypeOK /\ LogWritten /\ Minted /\ StampSound

(* What a step that leaves the rows and the log alone has to respect.      *)
LEMMA StampFrame ==
    ASSUME StampInv, UNCHANGED <<rows, log>>, TypeOK',
           \A n \in Node : applied'[n] <= Len(log) /\ flight'[n].gen <= Len(log)
                           /\ admin'[n].ver <= Len(rows),
           \A n \in Node : Sound(cache'[n]),
           \A n \in Node : flight'[n].phase \in {"read", "landing"} => Sound(flight'[n]),
           \A r \in Req : Sound(req'[r]) /\ Sound(req'[r].held)
    PROVE  StampInv'
  BY Zenon DEF StampInv, LogWritten, Minted, StampSound, Sound, Contains

(* Copies stay sound as edits are written and generations minted.          *)
LEMMA LogGrows ==
    ASSUME TypeOK, NEW ver \in Nat, NEW gen \in Nat, Contains(ver, gen), NEW v \in Nat,
           log' = Append(log, v)
    PROVE  Contains(ver, gen)'
  <1>1. Len(log') = Len(log) + 1 /\ \A g \in 1..Len(log) : log'[g] = log[g]
    BY DEF TypeOK
  <1>2. gen <= Len(log) /\ Len(log) \in Nat
    BY DEF Contains, TypeOK
  <1> QED BY <1>1, <1>2 DEF Contains

LEMMA NoEntrySound == TypeOK => Sound(NoEntry)
  BY DEF TypeOK, Sound, NoEntry, Contains

(* What a handler is given has the stamp of the copy it was given.         *)
LEMMA GivenSound ==
    ASSUME NEW q \in Request, NEW c, Sound(c), Sound(NoEntry)
    PROVE  Sound(Given(q, c)) /\ Sound(Given(q, c).held)
  <1>1. Given(q, c).ver = c.ver /\ Given(q, c).gen = c.gen /\ Given(q, c).held = NoEntry
    BY Zenon DEF Given, Request
  <1> QED BY Zenon, <1>1 DEF Sound

LEMMA WokenSound ==
    ASSUME NEW q \in Request, NEW f \in Flight, f.phase = "landing" => Sound(f),
           Sound(q), Sound(q.held), Sound(NoEntry)
    PROVE  Sound(Woken(q, f)) /\ Sound(Woken(q, f).held)
  <1>1. CASE f.phase = "landing"
    BY Zenon, <1>1, GivenSound DEF Woken
  <1>2. CASE f.phase # "landing" /\ q.held.state = "expired"
    BY Zenon, <1>2, GivenSound DEF Woken
  <1>3. CASE f.phase # "landing" /\ q.held.state # "expired"
    <2> DEFINE w == [q EXCEPT !.pc = "done", !.out = "nopolicy", !.held = NoEntry]
    <2>1. w.ver = q.ver /\ w.gen = q.gen /\ w.held = NoEntry
      BY Zenon DEF Request
    <2> QED BY Zenon, <1>3, <2>1 DEF Woken, Sound
  <1> QED BY Zenon, <1>1, <1>2, <1>3

(* Moving on leaves a handler's copy alone.                                *)
SameCopy(p, q) == p.ver = q.ver /\ p.gen = q.gen /\ p.held = q.held

LEMMA MovesOn ==
    ASSUME NEW q \in Request, NEW p, NEW x
    PROVE  /\ SameCopy(q, q)
           /\ SameCopy([q EXCEPT !.pc = p], q)
           /\ SameCopy([q EXCEPT !.pc = p, !.out = x], q)
           /\ SameCopy([q EXCEPT !.pc = p, !.seen = x], q)
  BY Zenon DEF Request, SameCopy

(* Dropping a node's entry.                                                *)
LEMMA InvalidateSound ==
    ASSUME TypeOK, StampSound, NEW n \in Node, Invalidate(n)
    PROVE  \A m \in Node :
             /\ Sound(cache'[m])
             /\ flight'[m].gen = flight[m].gen
             /\ flight'[m].phase \in {"read", "landing"} => Sound(flight'[m])
  <1> SUFFICES ASSUME NEW m \in Node
               PROVE  /\ Sound(cache'[m])
                      /\ flight'[m].gen = flight[m].gen
                      /\ flight'[m].phase \in {"read", "landing"} => Sound(flight'[m])
    BY Zenon
  <1>1. Sound(cache'[m])
    BY Zenon, NoEntrySound DEF TypeOK, StampSound, Invalidate
  <1>2. /\ flight'[m].gen = flight[m].gen /\ flight'[m].ver = flight[m].ver
        /\ flight'[m].phase = flight[m].phase
    BY Zenon DEF TypeOK, Invalidate, Flight
  <1> QED BY Zenon, <1>1, <1>2 DEF StampSound, Sound

(* Every action preserves the strengthened invariant.                      *)
LEMMA StampStep == StampInv /\ [Next]_vars => StampInv'
  <1> SUFFICES ASSUME StampInv, [Next]_vars PROVE StampInv'
    BY Zenon
  <1>0. TypeOK /\ TypeOK' /\ Sound(NoEntry) /\ Minted /\ StampSound
    BY Zenon, TypeStep, NoEntrySound DEF StampInv
  <1> USE <1>0, ConstantsAssumption
  <1>1. ASSUME NEW n \in Node, Expire(n) PROVE StampInv'
    <2>1. ASSUME NEW m \in Node
          PROVE  cache'[m].ver = cache[m].ver /\ cache'[m].gen = cache[m].gen
      BY <1>1, SMTT(30) DEF Expire, TypeOK, Entry
    <2> QED BY Zenon, <1>1, <2>1, StampFrame DEF Expire, Minted, StampSound, Sound
  <1>2. ASSUME NEW n \in Node, StaleOut(n) PROVE StampInv'
    <2>1. ASSUME NEW m \in Node
          PROVE  cache'[m].ver = cache[m].ver /\ cache'[m].gen = cache[m].gen
      BY <1>2, SMTT(30) DEF StaleOut, TypeOK, Entry
    <2> QED BY Zenon, <1>2, <2>1, StampFrame DEF StaleOut, Minted, StampSound, Sound
  <1>3. ASSUME NEW n \in Node, FlightStep(n) PROVE StampInv'
    <2>1. CASE FlightStart(n)
      <3>1. ASSUME NEW m \in Node
            PROVE  /\ flight'[m].gen <= Len(log)
                   /\ flight'[m].phase \in {"read", "landing"} => Sound(flight'[m])
        BY Zenon, <2>1 DEF FlightStart, TypeOK, Minted, StampSound, Sound, Contains
      <3> QED BY Zenon, <2>1, <3>1, StampFrame DEF FlightStart, Minted, StampSound
    <2>2. CASE FlightRead(n)
      <3>1. ASSUME NEW m \in Node, m # n PROVE flight'[m] = flight[m]
        BY Zenon, <2>2, <3>1 DEF FlightRead, TypeOK
      <3>2. flight'[n].gen = flight[n].gen /\ flight'[n].ver = Len(rows)
        BY <2>2 DEF FlightRead, TypeOK, Flight
      <3>3. Contains(Len(rows), flight[n].gen)
        BY DEF StampInv, LogWritten, Minted, Contains, TypeOK, Flight
      <3>4. Sound(flight'[n])
        BY Zenon, <3>2, <3>3 DEF Sound
      <3> QED BY Zenon, <2>2, <3>1, <3>2, <3>4, StampFrame DEF FlightRead, Minted, StampSound
    <2>3. CASE FlightFail(n)
      <3>1. ASSUME NEW m \in Node, m # n PROVE flight'[m] = flight[m]
        BY Zenon, <2>3, <3>1 DEF FlightFail, TypeOK
      <3>2. flight'[n].gen = 0 /\ flight'[n].phase = "failed" /\ 0 <= Len(log)
        BY <2>3 DEF FlightFail, TypeOK, Flight
      <3> QED BY Zenon, <2>3, <3>1, <3>2, StampFrame DEF FlightFail, Minted, StampSound
    <2>4. CASE FlightStore(n)
      <3>1. Sound(flight[n])
        BY Zenon, <2>4 DEF FlightStore, StampSound
      <3>2. ASSUME NEW m \in Node PROVE Sound(cache'[m])
        BY Zenon, <2>4, <3>1 DEF FlightStore, StampSound, TypeOK, Sound
      <3>3. ASSUME NEW m \in Node
            PROVE  flight'[m].gen = flight[m].gen /\ flight'[m].ver = flight[m].ver
        BY <2>4, SMTT(30) DEF FlightStore, TypeOK, Flight
      <3>4. ASSUME NEW m \in Node, m # n PROVE flight'[m] = flight[m]
        BY Zenon, <2>4, <3>4 DEF FlightStore, TypeOK
      <3>5. Sound(flight'[n])
        BY Zenon, <3>1, <3>3 DEF Sound
      <3> QED
        BY Zenon, <2>4, <3>2, <3>3, <3>4, <3>5, StampFrame DEF FlightStore, Minted, StampSound
    <2>5. CASE FlightLand(n)
      <3>1. flight[n].phase = "landing" => Sound(flight[n])
        BY Zenon DEF StampSound
      <3>2. ASSUME NEW q \in Req PROVE Sound(req'[q]) /\ Sound(req'[q].held)
        BY Zenon, <2>5, <3>1, WokenSound DEF FlightLand, TypeOK, StampSound
      <3>3. ASSUME NEW m \in Node
            PROVE  /\ flight'[m].gen <= Len(log)
                   /\ flight'[m].phase \in {"read", "landing"} => Sound(flight'[m])
        BY <2>5 DEF FlightLand, TypeOK, NoFlight, Minted, StampSound
      <3> QED BY Zenon, <2>5, <3>2, <3>3, StampFrame DEF FlightLand, Minted, StampSound
    <2> QED BY Zenon, <1>3, <2>1, <2>2, <2>3, <2>4, <2>5 DEF FlightStep
  <1>4. ASSUME NEW n \in Node, AdminInvalidate(n) PROVE StampInv'
    <2>1. ASSUME NEW m \in Node PROVE admin'[m].ver <= Len(rows)
      BY <1>4 DEF AdminInvalidate, TypeOK, Minted, Write, NoWrite
    <2> QED BY Zenon, <1>4, <2>1, InvalidateSound, StampFrame DEF AdminInvalidate, Minted, StampSound
  <1>5. ASSUME NEW n \in Node, BumpPolicyGen(n) PROVE StampInv'
    <2>1. TypeOK' /\ UNCHANGED <<rows, applied, cache, flight, req>>
      BY Zenon, <1>5 DEF BumpPolicyGen
    <2>2. log' = Append(log, admin[n].ver) /\ admin[n].ver \in Nat
      BY Zenon, <1>5 DEF BumpPolicyGen, TypeOK, Write
    <2>3. Len(log') = Len(log) + 1 /\ \A g \in 1..Len(log) : log'[g] = log[g]
      BY <2>2 DEF TypeOK
    <2>4. LogWritten'
      BY <2>1, <2>2, <2>3 DEF LogWritten, TypeOK, StampInv, Minted
    <2>5. Minted'
      BY <1>5, <2>1, <2>3 DEF BumpPolicyGen, Minted, TypeOK, NoWrite, Flight
    <2>6. StampSound'
      BY Zenon, <2>1, <2>2, LogGrows, EntryUpdate, FlightUpdate, RequestUpdate DEF StampSound, Sound, TypeOK
    <2> QED BY Zenon, <2>1, <2>4, <2>5, <2>6 DEF StampInv
  <1>6. ASSUME NEW n \in Node, BumpRefused(n) PROVE StampInv'
    <2>1. ASSUME NEW m \in Node PROVE admin'[m].ver <= Len(rows)
      BY <1>6 DEF BumpRefused, TypeOK, Minted, NoWrite
    <2> QED BY Zenon, <1>6, <2>1, StampFrame DEF BumpRefused, Minted, StampSound
  <1>7. ASSUME NEW n \in Node, Apply(n) PROVE StampInv'
    <2>1. ASSUME NEW m \in Node PROVE applied'[m] <= Len(log)
      BY <1>7 DEF Apply, TypeOK, Minted
    <2> QED BY Zenon, <1>7, <2>1, StampFrame DEF Apply, Minted, StampSound
  <1>8. ASSUME NEW n \in Node, Listen(n) PROVE StampInv'
    BY Zenon, <1>8, StampFrame DEF Listen, Minted, StampSound
  <1>9. ASSUME NEW n \in Node, ListenFlush(n) PROVE StampInv'
    BY Zenon, <1>9, InvalidateSound, StampFrame DEF ListenFlush, Minted, StampSound
  <1>10. ASSUME NEW n \in Node, Notified(n) PROVE StampInv'
    BY Zenon, <1>10, InvalidateSound, StampFrame DEF Notified, Minted, StampSound
  <1>11. ASSUME NEW n \in Node, ListenerDrops(n) PROVE StampInv'
    BY Zenon, <1>11, StampFrame DEF ListenerDrops, Minted, StampSound
  <1>12. ASSUME NEW n \in Node, Restart(n) PROVE StampInv'
    <2>1. ASSUME NEW m \in Node
          PROVE  /\ applied'[m] <= Len(log) /\ flight'[m].gen <= Len(log)
                 /\ admin'[m].ver <= Len(rows)
                 /\ Sound(cache'[m])
                 /\ flight'[m].phase \in {"read", "landing"} => Sound(flight'[m])
      BY <1>12 DEF Restart, TypeOK, Minted, StampSound, NoFlight, NoWrite
    <2>2. Sound(IdleRequest) /\ Sound(IdleRequest.held)
      BY DEF IdleRequest, Sound, Contains, TypeOK
    <2>3. ASSUME NEW q \in Req PROVE Sound(req'[q]) /\ Sound(req'[q].held)
      BY Zenon, <1>12, <2>2 DEF Restart, TypeOK, StampSound
    <2> QED BY Zenon, <1>12, <2>1, <2>3, StampFrame DEF Restart
  <1>13. ASSUME NEW n \in Editors, AdminOther(n) PROVE StampInv'
    <2>1. ASSUME NEW m \in Node PROVE admin'[m].ver <= Len(rows)
      BY <1>13 DEF AdminOther, TypeOK, Minted
    <2> QED BY Zenon, <1>13, <2>1, StampFrame DEF AdminOther, Minted, StampSound
  <1>14. ASSUME NEW n \in Editors, NEW c \in Content, AdminWrite(n, c) PROVE StampInv'
    <2>1. Len(rows') = Len(rows) + 1 /\ Len(rows) \in Nat
      BY <1>14 DEF AdminWrite, TypeOK
    <2>2. LogWritten'
      BY <1>14, <2>1 DEF AdminWrite, StampInv, LogWritten, TypeOK
    <2>3. Minted'
      BY <1>14, <2>1 DEF AdminWrite, Minted, TypeOK, Write
    <2>4. StampSound'
      BY Zenon, <1>14 DEF AdminWrite, StampSound, Sound, Contains
    <2> QED BY Zenon, <2>2, <2>3, <2>4 DEF StampInv
  <1>15. ASSUME NEW r \in Req, Arrive(r) PROVE StampInv'
    <2>1. ASSUME NEW q \in Req PROVE SameCopy(req'[q], req[q])
      BY Zenon, <1>15, MovesOn DEF Arrive, TypeOK
    <2> QED BY Zenon, <1>15, <2>1, StampFrame DEF Arrive, Minted, StampSound, Sound, SameCopy
  <1>16. ASSUME NEW r \in Req, HandlerStep(r) PROVE StampInv'
    <2>1. CASE Lookup(r)
      <3> DEFINE e == cache[Home[r]]
      <3>1. Sound(e) /\ req[r] \in Request /\ Sound(req[r]) /\ Sound(req[r].held)
        BY Zenon DEF TypeOK, StampSound
      <3>2. Sound([req[r] EXCEPT !.pc = "join", !.held = e])
            /\ Sound([req[r] EXCEPT !.pc = "join", !.held = e].held)
        BY Zenon, <3>1 DEF Request, Sound
      <3>3. Sound(Given(req[r], e)) /\ Sound(Given(req[r], e).held)
        BY Zenon, <3>1, GivenSound
      <3>4. ASSUME NEW q \in Req PROVE Sound(req'[q]) /\ Sound(req'[q].held)
        BY Zenon, <2>1, <3>2, <3>3 DEF Lookup, TypeOK, StampSound
      <3> QED BY Zenon, <2>1, <3>4, StampFrame DEF Lookup, Minted, StampSound
    <2>2. CASE Join(r)
      <3>1. ASSUME NEW q \in Req PROVE SameCopy(req'[q], req[q])
        BY Zenon, <2>2, MovesOn DEF Join, TypeOK
      <3>2. ASSUME NEW m \in Node
            PROVE  /\ flight'[m].gen = flight[m].gen
                   /\ flight'[m] = flight[m] \/ flight'[m].phase = "begin"
        BY Zenon, <2>2 DEF Join, TypeOK, Flight
      <3> QED BY Zenon, <2>2, <3>1, <3>2, StampFrame DEF Join, Minted, StampSound, Sound, SameCopy
    <2>3. CASE SelfCheck(r)
      <3>1. ASSUME NEW q \in Req PROVE SameCopy(req'[q], req[q])
        BY Zenon, <2>3, MovesOn DEF SelfCheck, TypeOK
      <3> QED BY Zenon, <2>3, <3>1, StampFrame DEF SelfCheck, Minted, StampSound, Sound, SameCopy
    <2>4. CASE Refresh(r)
      <3>1. ASSUME NEW q \in Req
            PROVE  /\ req'[q].held = req[q].held
                   /\ \/ req'[q] = req[q]
                      \/ req'[q].ver = 0 /\ req'[q].gen = 0
        BY <2>4 DEF Refresh, TypeOK, Request
      <3>2. Contains(0, 0)
        BY DEF Contains, TypeOK
      <3>3. ASSUME NEW q \in Req PROVE Sound(req'[q]) /\ Sound(req'[q].held)
        BY Zenon, <3>1, <3>2 DEF StampSound, Sound
      <3> QED BY Zenon, <2>4, <3>3, InvalidateSound, StampFrame DEF Refresh, Minted, StampSound
    <2>5. CASE Check(r)
      <3>1. ASSUME NEW q \in Req PROVE SameCopy(req'[q], req[q])
        <4>1. /\ SameCopy([req[r] EXCEPT !.pc = "done", !.out = "fenced"], req[r])
              /\ SameCopy([req[r] EXCEPT !.pc = "invalidate"], req[r])
              /\ SameCopy([req[r] EXCEPT !.pc = "done", !.out = "decided"], req[r])
              /\ SameCopy(req[q], req[q])
          BY Zenon, MovesOn DEF TypeOK
        <4> QED BY Zenon, <2>5, <4>1 DEF Check, TypeOK
      <3> QED BY Zenon, <2>5, <3>1, StampFrame DEF Check, Minted, StampSound, Sound, SameCopy
    <2>6. CASE CheckFails(r)
      <3>1. ASSUME NEW q \in Req PROVE SameCopy(req'[q], req[q])
        BY Zenon, <2>6, MovesOn DEF CheckFails, TypeOK
      <3> QED BY Zenon, <2>6, <3>1, StampFrame DEF CheckFails, Minted, StampSound, Sound, SameCopy
    <2> QED BY Zenon, <1>16, <2>1, <2>2, <2>3, <2>4, <2>5, <2>6 DEF HandlerStep
  <1>17. ASSUME NEW r \in Req, Reply(r) PROVE StampInv'
    <2>1. Sound(IdleRequest) /\ Sound(IdleRequest.held)
      BY DEF IdleRequest, Sound, Contains, TypeOK
    <2> QED BY Zenon, <1>17, <2>1, StampFrame DEF Reply, TypeOK, Minted, StampSound
  <1>18. ASSUME Wipe PROVE StampInv'
    BY Zenon, <1>18, StampFrame DEF Wipe, Minted, StampSound
  <1>19. ASSUME UNCHANGED vars PROVE StampInv'
    BY Zenon, <1>19, StampFrame DEF vars, Minted, StampSound
  <1> QED
    BY Zenon, <1>1, <1>2, <1>3, <1>4, <1>5, <1>6, <1>7, <1>8, <1>9, <1>10, <1>11, <1>12,
       <1>13, <1>14, <1>15, <1>16, <1>17, <1>18, <1>19 DEF Next

LEMMA InitStamp == Init => StampInv
  <1> SUFFICES ASSUME Init PROVE StampInv
    BY Zenon
  <1>1. TypeOK
    BY Zenon, InitType
  <1>2. LogWritten /\ Minted
    BY DEF Init, LogWritten, Minted, NoFlight, NoWrite, TypeOK
  <1>3. StampSound
    BY DEF Init, StampSound, Sound, Contains, NoEntry, NoFlight, IdleRequest
  <1> QED BY Zenon, <1>1, <1>2, <1>3 DEF StampInv

(* "The generation is read BEFORE the fetch" is enough, in every cache,    *)
(* fetch and request at once, whatever fails and whoever lags.             *)
THEOREM StampsAreSound == Spec => []StampSound
  <1>1. StampInv => StampSound
    BY Zenon DEF StampInv
  <1> QED BY <1>1, InitStamp, StampStep, PTL DEF Spec

(* A handler leaves "check" with a decision only by its own script call.   *)
LEMMA DecidedByCheck ==
    ASSUME TypeOK, Next, NEW r \in Req, req[r].pc = "check",
           req'[r].pc = "done", req'[r].out = "decided"
    PROVE  Check(r)
  <1> USE ConstantsAssumption
  <1>1. req'[r] # req[r]
    BY Zenon
  <1>2. ASSUME NEW n \in Node, FlightLand(n) PROVE FALSE
    BY Zenon, <1>1, <1>2 DEF FlightLand, TypeOK
  <1>3. ASSUME NEW n \in Node, Restart(n) PROVE FALSE
    BY Zenon, <1>1, <1>3 DEF Restart, TypeOK, IdleRequest
  <1>4. ASSUME NEW q \in Req, Arrive(q) PROVE FALSE
    BY Zenon, <1>1, <1>4 DEF Arrive, TypeOK
  <1>5. ASSUME NEW q \in Req, Reply(q) PROVE FALSE
    BY Zenon, <1>1, <1>5 DEF Reply, TypeOK
  <1>6. ASSUME NEW q \in Req, HandlerStep(q) PROVE Check(r)
    <2>1. q = r
      BY Zenon, <1>1, <1>6 DEF HandlerStep, Lookup, Join, SelfCheck, Refresh, Check, CheckFails, TypeOK
    <2>2. ~CheckFails(r)
      BY ZenonT(40) DEF CheckFails, TypeOK, Request
    <2> QED BY Zenon, <1>6, <2>1, <2>2 DEF HandlerStep, Lookup, Join, SelfCheck, Refresh
  <1>7. UNCHANGED req => FALSE
    BY Zenon, <1>1
  <1> QED
    BY Zenon, <1>2, <1>3, <1>4, <1>5, <1>6, <1>7
    DEF Next, Expire, StaleOut, FlightStep, FlightStart, FlightRead, FlightFail, FlightStore,
        AdminInvalidate, BumpPolicyGen, BumpRefused, Apply, Listen, ListenFlush, Notified,
        ListenerDrops, AdminOther, AdminWrite, Wipe

(* The fence of check.lua, from the soundness of the stamps: a call it     *)
(* passes carries a generation no older than the stored one, and its copy  *)
(* contains the edits of every generation up to the one it carries.        *)
THEOREM FenceHolds == Spec => FencedNeverOutrun
  <1> DEFINE Fenced == \A r \in Req :
                /\ req[r].pc = "check" /\ req'[r].pc = "done" /\ req'[r].out = "decided"
                /\ req[r].gen > 0 /\ bound > 0
                => log[bound] <= req[r].ver
  <1>1. StampInv /\ [Next]_vars => [Fenced]_vars
    <2> SUFFICES ASSUME StampInv, Next, NEW r \in Req,
                        req[r].pc = "check", req'[r].pc = "done", req'[r].out = "decided",
                        req[r].gen > 0, bound > 0
                 PROVE  log[bound] <= req[r].ver
      BY Zenon
    <2>1. TypeOK /\ Sound(req[r]) /\ req[r].gen \in Nat /\ bound \in Nat
      BY Zenon, RequestUpdate DEF StampInv, StampSound, TypeOK
    <2>2. Check(r)
      BY Zenon, <2>1, DecidedByCheck
    <2>3. ~PolicyStale(req[r].gen)
      BY Zenon, <2>1, <2>2 DEF Check, TypeOK, Request
    <2>4. bound \in 1..req[r].gen
      BY <2>1, <2>3 DEF PolicyStale
    <2> QED BY Zenon, <2>1, <2>4 DEF Sound, Contains
  <1> QED BY <1>1, InitStamp, StampStep, PTL DEF Spec, FencedNeverOutrun

-----------------------------------------------------------------------------
(* ListenerKeepsFresh needs the same of a fetch that has read the rows and *)
(* not yet stored them: an edit since then is queued on the listener, or   *)
(* the flush that answered it marked the fetch overtaken.                  *)
FetchFresh ==
    \A n \in Node :
        /\ lst[n] = "up" /\ notes[n] = 0
        /\ flight[n].phase = "read" /\ ~flight[n].overtaken
        => flight[n].ver = Len(rows)
FreshInv == TypeOK /\ FetchFresh /\ ListenerKeepsFresh

(* What a step that leaves the rows and the listeners alone has to respect. *)
LEMMA FreshFrame ==
    ASSUME FreshInv, TypeOK', UNCHANGED <<rows, lst, notes>>,
           \A n \in Node : \/ cache'[n] = cache[n]
                           \/ cache'[n].state # "live",
           \A n \in Node : \/ flight'[n] = flight[n]
                           \/ flight'[n].phase # "read"
                           \/ flight'[n].overtaken
    PROVE  FreshInv'
  BY Zenon DEF FreshInv, FetchFresh, ListenerKeepsFresh

(* An invalidation leaves nothing behind that is both stored and believed  *)
(* fresh.                                                                  *)
LEMMA InvalidateFresh ==
    ASSUME TypeOK, NEW n \in Node, Invalidate(n)
    PROVE  /\ cache'[n].state = "none"
           /\ flight'[n].phase = "read" => flight'[n].overtaken
           /\ \A m \in Node \ {n} : cache'[m] = cache[m] /\ flight'[m] = flight[m]
  <1>1. cache'[n].state = "none"
    BY Zenon DEF TypeOK, Invalidate, NoEntry
  <1>2. flight'[n].phase = "read" => flight'[n].overtaken
    BY Zenon DEF TypeOK, Invalidate, Flight
  <1>3. \A m \in Node \ {n} : cache'[m] = cache[m] /\ flight'[m] = flight[m]
    BY Zenon DEF TypeOK, Invalidate
  <1> QED BY Zenon, <1>1, <1>2, <1>3

LEMMA FreshStep == FreshInv /\ [Next]_vars => FreshInv'
  <1> SUFFICES ASSUME FreshInv, [Next]_vars PROVE FreshInv'
    BY Zenon
  <1>0. TypeOK /\ TypeOK' /\ FetchFresh /\ ListenerKeepsFresh
    BY Zenon, TypeStep DEF FreshInv
  <1> USE <1>0, ConstantsAssumption
  <1>1. ASSUME NEW n \in Node, Expire(n) PROVE FreshInv'
    <2>1. cache'[n].state # "live" /\ \A m \in Node \ {n} : cache'[m] = cache[m]
      BY <1>1 DEF Expire, TypeOK, Entry
    <2> QED BY Zenon, <1>1, <2>1, FreshFrame DEF Expire
  <1>2. ASSUME NEW n \in Node, StaleOut(n) PROVE FreshInv'
    <2>1. cache'[n].state # "live" /\ \A m \in Node \ {n} : cache'[m] = cache[m]
      BY <1>2 DEF StaleOut, TypeOK, Entry
    <2> QED BY Zenon, <1>2, <2>1, FreshFrame DEF StaleOut
  <1>3. ASSUME NEW n \in Node, FlightStep(n) PROVE FreshInv'
    <2>1. CASE FlightStart(n)
      <3>1. flight'[n].phase # "read" /\ \A m \in Node \ {n} : flight'[m] = flight[m]
        BY Zenon, <2>1 DEF FlightStart, TypeOK
      <3> QED BY Zenon, <2>1, <3>1, FreshFrame DEF FlightStart
    <2>2. CASE FlightRead(n)
      <3>1. flight'[n].ver = Len(rows) /\ \A m \in Node \ {n} : flight'[m] = flight[m]
        BY <2>2 DEF FlightRead, TypeOK, Flight
      <3>2. FetchFresh' /\ ListenerKeepsFresh'
        BY Zenon, <2>2, <3>1 DEF FlightRead, FetchFresh, ListenerKeepsFresh
      <3> QED BY Zenon, <3>2 DEF FreshInv
    <2>3. CASE FlightFail(n)
      <3>1. flight'[n].phase # "read" /\ \A m \in Node \ {n} : flight'[m] = flight[m]
        BY <2>3 DEF FlightFail, TypeOK, Flight
      <3> QED BY Zenon, <2>3, <3>1, FreshFrame DEF FlightFail
    <2>4. CASE FlightStore(n)
      <3>1. flight'[n].phase # "read" /\ \A m \in Node \ {n} : flight'[m] = flight[m]
        BY <2>4 DEF FlightStore, TypeOK, Flight
      <3>2. /\ cache'[n].ver = flight[n].ver /\ cache'[n].overtaken = flight[n].overtaken
            /\ \A m \in Node \ {n} : cache'[m] = cache[m]
        BY Zenon, <2>4 DEF FlightStore, TypeOK
      <3>3. FetchFresh' /\ ListenerKeepsFresh'
        BY Zenon, <2>4, <3>1, <3>2 DEF FlightStore, FetchFresh, ListenerKeepsFresh
      <3> QED BY Zenon, <3>3 DEF FreshInv
    <2>5. CASE FlightLand(n)
      <3>1. flight'[n].phase # "read" /\ \A m \in Node \ {n} : flight'[m] = flight[m]
        BY Zenon, <2>5 DEF FlightLand, TypeOK, NoFlight
      <3> QED BY Zenon, <2>5, <3>1, FreshFrame DEF FlightLand
    <2> QED BY Zenon, <1>3, <2>1, <2>2, <2>3, <2>4, <2>5 DEF FlightStep
  <1>4. ASSUME NEW n \in Node, AdminInvalidate(n) PROVE FreshInv'
    BY Zenon, <1>4, InvalidateFresh, FreshFrame DEF AdminInvalidate
  <1>5. ASSUME NEW n \in Node, ListenFlush(n) PROVE FreshInv'
    <2>1. FetchFresh' /\ ListenerKeepsFresh'
      BY <1>5, InvalidateFresh DEF ListenFlush, TypeOK, FetchFresh, ListenerKeepsFresh
    <2> QED BY Zenon, <2>1 DEF FreshInv
  <1>6. ASSUME NEW n \in Node, Notified(n) PROVE FreshInv'
    <2>1. FetchFresh' /\ ListenerKeepsFresh'
      BY <1>6, InvalidateFresh DEF Notified, TypeOK, FetchFresh, ListenerKeepsFresh
    <2> QED BY Zenon, <2>1 DEF FreshInv
  <1>7. ASSUME NEW n \in Node, Listen(n) \/ ListenerDrops(n) PROVE FreshInv'
    <2>1. FetchFresh' /\ ListenerKeepsFresh'
      BY Zenon, <1>7 DEF Listen, ListenerDrops, TypeOK, FetchFresh, ListenerKeepsFresh
    <2> QED BY Zenon, <2>1 DEF FreshInv
  <1>8. ASSUME NEW n \in Node, Restart(n) PROVE FreshInv'
    <2>1. FetchFresh' /\ ListenerKeepsFresh'
      BY Zenon, <1>8 DEF Restart, TypeOK, FetchFresh, ListenerKeepsFresh
    <2> QED BY Zenon, <2>1 DEF FreshInv
  <1>9. ASSUME NEW n \in Editors, NEW c \in Content, AdminWrite(n, c) PROVE FreshInv'
    <2>1. ASSUME NEW m \in Node PROVE ~(lst'[m] = "up" /\ notes'[m] = 0)
      BY <1>9 DEF AdminWrite, TypeOK
    <2>2. FetchFresh' /\ ListenerKeepsFresh'
      BY Zenon, <2>1 DEF FetchFresh, ListenerKeepsFresh
    <2> QED BY Zenon, <2>2 DEF FreshInv
  <1>10. ASSUME NEW r \in Req, HandlerStep(r) PROVE FreshInv'
    <2>1. CASE Join(r)
      <3>1. \A m \in Node : flight'[m] = flight[m] \/ flight'[m].phase # "read"
        BY Zenon, <2>1 DEF Join, TypeOK, Flight
      <3> QED BY Zenon, <2>1, <3>1, FreshFrame DEF Join
    <2>2. CASE Refresh(r)
      BY Zenon, <2>2, InvalidateFresh, FreshFrame DEF Refresh
    <2>3. CASE Lookup(r) \/ SelfCheck(r) \/ Check(r) \/ CheckFails(r)
      BY Zenon, <2>3, FreshFrame DEF Lookup, SelfCheck, Check, CheckFails
    <2> QED BY Zenon, <1>10, <2>1, <2>2, <2>3 DEF HandlerStep
  <1>11. ASSUME UNCHANGED <<rows, lst, notes, cache, flight>> PROVE FreshInv'
    BY Zenon, <1>11, FreshFrame
  <1> QED
    BY Zenon, <1>1, <1>2, <1>3, <1>4, <1>5, <1>6, <1>7, <1>8, <1>9, <1>10, <1>11
    DEF Next, vars, BumpPolicyGen, BumpRefused, Apply, AdminOther, Arrive, Reply, Wipe

(* policy/notify.go: subscribing before dropping the cache is enough for   *)
(* every copy no invalidation overtook.                                    *)
THEOREM ListenerKeepsCachesFresh == Spec => []ListenerKeepsFresh
  <1>1. Init => FreshInv
    BY Zenon, InitType DEF Init, FreshInv, FetchFresh, ListenerKeepsFresh
  <1>2. FreshInv => ListenerKeepsFresh
    BY Zenon DEF FreshInv
  <1> QED BY <1>1, <1>2, FreshStep, PTL DEF Spec

-----------------------------------------------------------------------------

=============================================================================
