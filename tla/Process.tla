------------------------------ MODULE Process ------------------------------
(***************************************************************************)
(* One gateway process from start to exit (cmd/gateway/main.go): what run  *)
(* builds and in which order, the goroutines it leaves behind, the two     *)
(* servers, and the shutdown, in which the HTTP server drains first and    *)
(* the deferred calls then undo the rest, last in first out.  Handlers run *)
(* over what was built and publish to the event hub; streams of the gRPC   *)
(* server subscribe to it.                                                 *)
(***************************************************************************)
EXTENDS EventHub

CONSTANTS
    Configs,    \* configurations: backend, store, ring, raft, grpc
    Redis       \* what CONFIG GET may say: known, noeviction, limited

VARIABLES
    cfg,        \* the configuration
    pc,         \* the step of run the main goroutine is at
    defers,     \* the deferred calls, in the order they were deferred
    built,      \* what handlers use and is usable
    done,       \* the context of run is done
    servers,    \* servers accepting requests
    listen,     \* ListenAndServe, "off", "starting", "up" or "failed"
    via,        \* via[h]: the server handler h was called by
    work,       \* work[h]: the handler, "none", "deciding", "telling", "done"
    forced      \* history: a grace period ran out over a running handler

main == <<cfg, pc, defers, built, done, servers, listen, forced>>
vars == <<main, via, work, sub, pub>>

-----------------------------------------------------------------------------
Steps == {"policy", "backend", "ring", "consensus", "guard", "grpc", "http", "select",
          "drain", "unwind", "stopGRPC", "exited"}
Guarded(c) == c.backend = "redis" /\ c.raft

(* What decide.Service and the servers are given under configuration c.    *)
Needs(c) ==
    {"policies", "backend"} \cup (IF c.ring THEN {"forwarder"} ELSE {})
        \cup (IF c.raft THEN {"consensus"} ELSE {})
        \cup (IF Guarded(c) THEN {"guard"} ELSE {})

Busy(server) == {h \in Handler : via[h] = server /\ work[h] \in {"deciding", "telling"}}
Streaming == {s \in Stream : sub[s].loop \in {"reading", "leaving"}}

TypeOK ==
    /\ HubTypeOK
    /\ cfg \in Configs /\ pc \in Steps
    /\ \A i, j \in DOMAIN defers : defers[i] = defers[j] => i = j
    /\ built \subseteq Needs(cfg)
    /\ servers \subseteq {"http", "grpc"} /\ ("http" \in servers => listen = "up")
    /\ \A h \in Handler : work[h] \in {"none", "deciding", "telling", "done"}

(* The configuration has been read and validated and the signal handler is *)
(* installed.                                                              *)
Init ==
    /\ HubInit
    /\ cfg \in Configs /\ pc = "policy" /\ defers = <<"stop">>
    /\ built = {} /\ servers = {} /\ listen = "off"
    /\ done = FALSE /\ forced = FALSE
    /\ via = [h \in Handler |-> "none"] /\ work = [h \in Handler |-> "none"]

-----------------------------------------------------------------------------
(* One step of run that ends well: what it builds and defers.  The loops   *)
(* it leaves behind (the listener, the seeding of the ring, the guard, the *)
(* sweep) are other modules' and end with the context.                     *)
Build(step, next, new, deferred) ==
    /\ pc = step /\ pc' = next
    /\ built' = built \cup new
    /\ defers' = defers \o deferred
    /\ UNCHANGED <<cfg, done, servers, listen, forced, via, work, sub, pub>>

(* run returns an error: the deferred calls so far are made.               *)
Fail(step, deferred) ==
    /\ pc = step /\ pc' = "unwind"
    /\ defers' = defers \o deferred
    /\ UNCHANGED <<cfg, built, done, servers, listen, forced, via, work,
                   sub, pub>>

Only(condition, S) == IF condition THEN S ELSE {}
OnlySeq(condition, s) == IF condition THEN s ELSE <<>>

(* The pool is pinged under the context a signal cancels.                  *)
BuildPolicySource ==
    \/ /\ cfg.store = "postgres" => ~done
       /\ Build("policy", "backend", {"policies"}, <<>>)
    \/ Fail("policy", <<>>)

(* Eviction: a Redis that may discard a counter is fatal, one that does    *)
(* not say is not.                                                         *)
Fatal(e) == e.known /\ ~e.noeviction /\ e.limited
BuildBackend ==
    \/ cfg.backend = "memory" /\ Build("backend", "ring", {"backend"}, <<>>)
    \/ /\ cfg.backend = "redis" /\ ~done
       /\ \E e \in Redis : ~Fatal(e) /\ Build("backend", "ring", {"backend"}, <<"redis">>)
    \/ cfg.backend = "redis" /\ Fail("backend", <<"redis">>)

BuildRing ==
    \/ Build("ring", "consensus", Only(cfg.ring, {"forwarder"}),
             OnlySeq(cfg.ring, <<"forwarder">>))
    \/ cfg.ring /\ Fail("ring", <<>>)

StartConsensus ==
    \/ Build("consensus", "guard", Only(cfg.raft, {"consensus"}),
             OnlySeq(cfg.raft, <<"consensus">>))
    \/ cfg.raft /\ Fail("consensus", <<>>)

(* The first Reconcile, whatever it returns.                               *)
BuildStoreGuard == Build("guard", "grpc", Only(Guarded(cfg), {"guard"}), <<>>)

(* The routes of the proxy, then the port of the gRPC server: either may   *)
(* be refused.                                                             *)
ServeGRPC ==
    \/ ~cfg.grpc /\ Build("grpc", "http", {}, <<>>)
    \/ /\ cfg.grpc /\ pc = "grpc" /\ pc' = "http"
       /\ servers' = servers \cup {"grpc"}
       /\ defers' = Append(defers, "grpc")
       /\ UNCHANGED <<cfg, built, done, listen, forced, via, work, sub, pub>>
    \/ Fail("grpc", <<>>)

(* The goroutine of ListenAndServe, which may not get its port, and which  *)
(* returns at once when Shutdown came first.                               *)
ServeHTTP ==
    /\ pc = "http" /\ pc' = "select"
    /\ listen' = "starting"
    /\ UNCHANGED <<cfg, defers, built, done, servers, forced, via, work, sub, pub>>

ListenAndServe ==
    /\ listen = "starting" /\ pc = "select"
    /\ \/ listen' = "up" /\ servers' = servers \cup {"http"}
       \/ listen' = "failed" /\ servers' = servers
    /\ UNCHANGED <<cfg, pc, defers, built, done, forced, via, work, sub, pub>>

-----------------------------------------------------------------------------
(* SIGTERM, at any time.                                                   *)
Signal ==
    /\ ~done /\ pc # "exited"
    /\ done' = TRUE
    /\ UNCHANGED <<cfg, pc, defers, built, servers, listen, forced, via, work, sub, pub>>

(* run waits for either, and returns the error or shuts the HTTP server:   *)
(* it accepts no more and has a grace period for the requests it has.      *)
Select ==
    /\ pc = "select"
    /\ \/ listen = "failed" /\ pc' = "unwind" /\ servers' = servers
       \/ done /\ pc' = "drain" /\ servers' = servers \ {"http"}
    /\ UNCHANGED <<cfg, defers, built, done, listen, forced, via, work,
                   sub, pub>>

DrainHTTP ==
    /\ pc = "drain" /\ pc' = "unwind"
    /\ forced' = (forced \/ Busy("http") # {})
    /\ UNCHANGED <<cfg, defers, built, done, servers, listen, via, work,
                   sub, pub>>

(* The process exits, and every goroutine with it.                         *)
Gone ==
    /\ sub' = [s \in Stream |-> NoSub] /\ pub' = [h \in Handler |-> NoPub]
    /\ via' = [h \in Handler |-> "none"] /\ work' = [h \in Handler |-> "done"]

(* Mutant: the deferred calls run first to last. *)
NextDeferFirst == [call |-> Head(defers), rest |-> Tail(defers)]

(* The deferred calls, the last one first.                                 *)
NextDefer == [call |-> defers[Len(defers)], rest |-> SubSeq(defers, 1, Len(defers) - 1)]
Unwind ==
    /\ pc = "unwind"
    /\ IF defers = <<>>
       THEN /\ pc' = "exited" /\ Gone
            /\ UNCHANGED <<defers, built, done, servers>>
       ELSE LET d == NextDefer.call IN
            /\ pc' = IF d = "grpc" THEN "stopGRPC" ELSE pc
            /\ defers' = NextDefer.rest
            /\ built' = built \ (IF d = "redis" THEN {"backend"} ELSE {d})
            /\ servers' = servers \ {d}
            /\ done' = (done \/ d = "stop")
            /\ UNCHANGED <<via, work, sub, pub>>
    /\ UNCHANGED <<cfg, listen, forced>>

(* Mutant: GracefulStop without the grace period. *)
StopGRPCPatient ==
    /\ pc = "stopGRPC" /\ pc' = "unwind"
    /\ Busy("grpc") = {} /\ Streaming = {}
    /\ Cancel({})
    /\ UNCHANGED <<cfg, defers, built, done, servers, listen, forced, via,
                   work>>

(* stopGRPC: GracefulStop waits for the calls and the streams; when the    *)
(* grace period is over Stop cancels their contexts and does not wait.     *)
StopGRPC ==
    /\ pc = "stopGRPC" /\ pc' = "unwind"
    /\ Cancel(Streaming)
    /\ forced' = (forced \/ Busy("grpc") # {})
    /\ UNCHANGED <<cfg, defers, built, done, servers, listen, via, work>>

-----------------------------------------------------------------------------
(* A request arrives at a server, is decided over what was built, and its  *)
(* decision is published before the answer is written.                     *)
Arrive(h, server) ==
    /\ server \in servers /\ work[h] = "none"
    /\ via' = [via EXCEPT ![h] = server] /\ work' = [work EXCEPT ![h] = "deciding"]
    /\ UNCHANGED <<main, sub, pub>>

Decided(h) ==
    /\ work[h] = "deciding"
    /\ work' = [work EXCEPT ![h] = "telling"]
    /\ Publish(h)
    /\ UNCHANGED <<main, via>>

TellOne(h) ==
    /\ \E s \in Stream : PublishTo(h, s)
    /\ UNCHANGED <<main, via, work>>

Answer(h) ==
    /\ work' = [work EXCEPT ![h] = "done"]
    /\ PublishEnd(h)
    /\ UNCHANGED <<main, via>>

(* A stream, a call of the gRPC server.                                    *)
Open(s) ==
    /\ "grpc" \in servers
    /\ Subscribe(s)
    /\ UNCHANGED <<main, via, work>>

ClientLeaves(s) ==
    /\ s \in Streaming /\ ~sub[s].cancelled
    /\ Cancel({s})
    /\ UNCHANGED <<main, via, work>>

Read(s) == Receive(s) /\ UNCHANGED <<main, via, work>>

StreamStep(s) ==
    /\ Leave(s) \/ StopDelete(s) \/ StopClose(s) \/ Return(s)
    /\ UNCHANGED <<main, via, work>>

-----------------------------------------------------------------------------
MainStep ==
    \/ BuildPolicySource \/ BuildBackend \/ BuildRing \/ StartConsensus
    \/ BuildStoreGuard \/ ServeGRPC \/ ServeHTTP \/ ListenAndServe
    \/ Select \/ DrainHTTP \/ Unwind \/ StopGRPC

Next ==
    \/ MainStep \/ Signal
    \/ \E h \in Handler, server \in {"http", "grpc"} : Arrive(h, server)
    \/ \E h \in Handler : Decided(h) \/ TellOne(h) \/ Answer(h)
    \/ \E s \in Stream : Open(s) \/ ClientLeaves(s) \/ Read(s) \/ StreamStep(s)

Spec == Init /\ [][Next]_vars

(* The main goroutine, its timers included, is scheduled; so are a         *)
(* publisher between RLock and RUnlock and a stream whose context is done. *)
(* No fairness for the rest: a request may be decided late or never, and   *)
(* a client may never read its stream.                                     *)
Fairness ==
    /\ WF_vars(MainStep)
    /\ WF_vars(\E h \in Handler : TellOne(h) \/ Answer(h))
    /\ WF_vars(\E s \in Stream : StreamStep(s))
FairSpec == Spec /\ Fairness

-----------------------------------------------------------------------------
(* From the first request the gRPC server takes until the process is gone, *)
(* a handler that is deciding has all of what run builds for it: the       *)
(* servers start after the stores, the ring, the log and the guard's first *)
(* look, and the deferred calls close these only after both servers are    *)
(* drained, unless a grace period ran out over it.                         *)
DecidesOverOpenStores ==
    ~forced =>
        \A h \in Handler : work[h] = "deciding" => Needs(cfg) \subseteq built

(* A process that was asked to stop, or whose HTTP server failed, exits,   *)
(* also with a request that never ends and a stream nobody closes.         *)
Exits == (done \/ listen = "failed") ~> pc = "exited"

(* Publishing ends whatever the subscribers do: a handler is never held up *)
(* by a stream that is not read, and the hub's lock is free again.         *)
PublishingEnds == ~Unlocked ~> Unlocked

(* The streams whose context is done leave the hub and return.             *)
StreamsEnd ==
    LET ending == {s \in Streaming : sub[s].cancelled} IN ending # {} ~> ending = {}
=============================================================================
