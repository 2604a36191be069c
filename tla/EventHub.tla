----------------------------- MODULE EventHub -----------------------------
(***************************************************************************)
(* The decision stream: the hub that fans decisions out to subscribers     *)
(* (internal/events/hub.go) and the gRPC handler that reads one            *)
(* subscription (StreamDecisions, internal/grpcapi/server.go).             *)
(*                                                                         *)
(* A publisher holds the hub's RWMutex for reading from RLock to RUnlock,  *)
(* one step per subscriber in between.  Each section that holds it for     *)
(* writing is one step, enabled while no publisher is inside.  A decision  *)
(* is identified with the handler that made it.                            *)
(***************************************************************************)
EXTENDS Naturals, Sequences

CONSTANTS
    Handler,   \* goroutines that decide a request and publish the decision
    Stream,    \* calls of StreamDecisions, one subscription each
    Buffer,    \* capacity of a subscription's channel
    Denies,    \* handlers whose decision is a refusal
    DeniedOnly \* streams whose filter asks for refusals only

VARIABLES
    sub,       \* sub[s]: the subscription of s and the handler reading it
    pub        \* pub[h]: the Publish h is in

(* stop says how far the function Subscribe returned has come; loop is     *)
(* StreamDecisions; cancelled is its context.                              *)
NoSub == [listed |-> FALSE, chan |-> <<>>, stop |-> "no", loop |-> "none",
          cancelled |-> FALSE]
(* todo holds the subscribers the range has not come to.  audience and     *)
(* told are histories of one Publish: whom it set out to reach, and for    *)
(* whom it sent the decision or counted it as dropped.                     *)
NoPub == [holds |-> FALSE, todo |-> {}, audience |-> {}, told |-> {}]

HubTypeOK ==
    /\ \A s \in Stream :
           /\ Len(sub[s].chan) <= Buffer
           /\ sub[s].stop \in {"no", "deleted", "closed"}
           /\ sub[s].loop \in {"none", "reading", "leaving", "gone"}
           /\ sub[s].listed => sub[s].stop # "deleted"
    /\ \A h \in Handler : pub[h].todo \subseteq Stream /\ (pub[h].todo # {} => pub[h].holds)

HubInit == sub = [s \in Stream |-> NoSub] /\ pub = [h \in Handler |-> NoPub]

Unlocked == \A h \in Handler : ~pub[h].holds

-----------------------------------------------------------------------------
(* Filter.matches for a stream of every tenant.                            *)
Matches(s, h) == s \in DeniedOnly => h \in Denies

(* Publish: RLock and the start of the range over the map, which cannot    *)
(* change before the RUnlock.                                              *)
Publish(h) ==
    LET reach == {s \in Stream : sub[s].listed /\ Matches(s, h)}
    IN /\ pub' = [pub EXCEPT ![h] = [NoPub EXCEPT !.holds = TRUE, !.todo = reach,
                                                 !.audience = reach]]
       /\ UNCHANGED sub

(* One turn of the loop: a send, or a drop that is counted when the        *)
(* channel is full.                                                        *)
Send(h, s) == sub' = [sub EXCEPT ![s].chan = Append(@, h)]
Full(s) == Len(sub[s].chan) >= Buffer
Told(h, s) == pub' = [pub EXCEPT ![h].todo = @ \ {s}, ![h].told = @ \cup {s}]
(* Mutant: a full channel is waited for. *)
PublishToBlocks(h, s) == s \in pub[h].todo /\ ~Full(s) /\ Told(h, s) /\ Send(h, s)
PublishTo(h, s) ==
    /\ s \in pub[h].todo
    /\ Told(h, s)
    /\ IF Full(s) THEN UNCHANGED sub ELSE Send(h, s)

(* RUnlock.                                                                *)
PublishEnd(h) ==
    /\ pub[h].holds /\ pub[h].todo = {}
    /\ pub' = [pub EXCEPT ![h] = NoPub]
    /\ UNCHANGED sub

-----------------------------------------------------------------------------
(* StreamDecisions up to its loop: Subscribe registers under the lock.     *)
Subscribe(s) ==
    /\ sub[s].loop = "none"
    /\ Unlocked
    /\ sub' = [sub EXCEPT ![s].listed = TRUE, ![s].loop = "reading"]
    /\ UNCHANGED pub

(* The loop: a decision is taken from the channel and sent, or the stream  *)
(* ends because the Send failed, its context is done or the channel is     *)
(* closed and empty.                                                       *)
Receive(s) ==
    /\ sub[s].loop = "reading" /\ sub[s].chan # <<>>
    /\ \E next \in {"reading", "leaving"} :
           sub' = [sub EXCEPT ![s].chan = Tail(@), ![s].loop = next]
    /\ UNCHANGED pub
Leave(s) ==
    /\ sub[s].loop = "reading"
    /\ sub[s].cancelled \/ (sub[s].stop = "closed" /\ sub[s].chan = <<>>)
    /\ sub' = [sub EXCEPT ![s].loop = "leaving"]
    /\ UNCHANGED pub

(* Mutant: the subscription is deleted without the write lock. *)
StopDeleteUnlocked(s) ==
    /\ sub[s].stop = "no"
    /\ sub[s].loop = "leaving" \/ (sub[s].loop = "reading" /\ sub[s].cancelled)
    /\ sub' = [sub EXCEPT ![s].listed = FALSE, ![s].stop = "deleted"]
    /\ UNCHANGED pub

(* stop, run once: by the deferred call of a stream that leaves, or by the *)
(* goroutine that waits for its context.  It deletes under the lock, then  *)
(* closes without it.                                                      *)
StopDelete(s) ==
    /\ sub[s].stop = "no"
    /\ sub[s].loop = "leaving" \/ (sub[s].loop = "reading" /\ sub[s].cancelled)
    /\ Unlocked
    /\ sub' = [sub EXCEPT ![s].listed = FALSE, ![s].stop = "deleted"]
    /\ UNCHANGED pub
StopClose(s) ==
    /\ sub[s].stop = "deleted"
    /\ sub' = [sub EXCEPT ![s].stop = "closed"]
    /\ UNCHANGED pub

(* StreamDecisions returns once stop has, whoever ran it.                  *)
Return(s) ==
    /\ sub[s].loop = "leaving" /\ sub[s].stop = "closed"
    /\ sub' = [sub EXCEPT ![s] = [NoSub EXCEPT !.loop = "gone"]]
    /\ UNCHANGED pub

(* The context of some streams is done: the client left or the server did. *)
Cancel(S) ==
    /\ sub' = [s \in Stream |-> [sub[s] EXCEPT !.cancelled = @ \/ s \in S]]
    /\ UNCHANGED pub

-----------------------------------------------------------------------------
(* Publish and stop never meet in a closed channel: a channel a publisher  *)
(* is still to send to has not been closed by a stop beside it, which in   *)
(* Go would be a panic.                                                    *)
NeverSendsOnClosed ==
    \A h \in Handler : \A s \in pub[h].todo : sub[s].stop # "closed"

(* Publish drops a decision "for it alone": when a publisher is through,   *)
(* every subscriber it found and whose filter matches has the decision in  *)
(* its channel or had it counted as dropped, whatever another subscriber's *)
(* channel was like and whoever came or left meanwhile.                    *)
DroppedForItAlone ==
    \A h \in Handler : pub[h].todo = {} => pub[h].audience \subseteq pub[h].told
=============================================================================
