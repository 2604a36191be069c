----------------------------- MODULE Succession -----------------------------
(***************************************************************************)
(* The nodes that come after a key's owner on the ring (Successors of      *)
(* internal/ring/ring.go), for the ring of Ring and its changes.           *)
(***************************************************************************)
EXTENDS Ring, SequencesExt

(* Mutant: the walk stops at the end of the array. *)
SuccessorsToEnd(h, r, k, n) ==
    LET walk == SubSeq(r, Search(h, r, k), Len(r))
        unseen(out, p) == IF Len(out) < n /\ p[1] \notin Members(out)
                          THEN Append(out, p[1]) ELSE out
    IN  FoldLeft(unseen, <<>>, walk)

(* Successors: from the key's owner round the ring, every node once, until *)
(* there are n.                                                            *)
Successors(h, r, k, n) ==
    LET start == Search(h, r, k)
        walk == [i \in DOMAIN r |-> r[((start + i - 2) % Len(r)) + 1]]
        unseen(out, p) == IF Len(out) < n /\ p[1] \notin Members(out)
                          THEN Append(out, p[1]) ELSE out
    IN  FoldLeft(unseen, <<>>, walk)

(* "deciding who takes over a tenant when its owner leaves" (ring.go on    *)
(* Successors): the order of succession names every member once, starts    *)
(* with the owner, and the departure of any member takes it out of the     *)
(* order and changes nothing else.                                         *)
SuccessionStable ==
    \A k \in Hashes :
        LET order(r) == Successors(hash, r, k, Len(listed))
            all == order(ring)
        IN  /\ Members(all) = Members(listed) /\ IsInjective(all)
            /\ all[1] = Owner(hash, ring, k)
            /\ \A n \in Members(listed) :
                 LET rest == SelectSeq(listed, LAMBDA m : m # n)
                 IN  rest # <<>> =>
                       order(New(hash, rest)) = SelectSeq(all, LAMBDA m : m # n)
=============================================================================
