------------------------------ MODULE RingOrder ------------------------------
(***************************************************************************)
(* What a consistent-hash ring promises, apart from how it is laid out:    *)
(* every node has VNodes points on a circle of hashes, and a key belongs   *)
(* to the node of the first point at or after the key's own hash, going    *)
(* round.  Points with one hash are ordered by the id of their node.       *)
(***************************************************************************)
EXTENDS Naturals

CONSTANTS
    Node,    \* ids, ordered as the strings they stand for are
    VNodes,  \* points of a node
    Size     \* number of hashes

ASSUME RingAssumption == Node \subseteq Nat /\ VNodes \in Nat \ {0} /\ Size \in Nat \ {0}

Hashes == 0..(Size - 1)
Place == 0..(VNodes - 1)
Points(ms) == ms \X Place
Hashing == [Node \X Place -> Hashes]

(* The order of points for the ring h.  Two points of one node with one    *)
(* hash are interchangeable; the last clause only tells them apart.        *)
Before(h, p, q) ==
    \/ h[p] < h[q]
    \/ h[p] = h[q] /\ p[1] < q[1]
    \/ h[p] = h[q] /\ p[1] = q[1] /\ p[2] < q[2]

First(h, S) == CHOOSE p \in S : \A q \in S : p = q \/ Before(h, p, q)

(* The first of the points S at or after hash k, going round.              *)
NextPoint(h, S, k) ==
    LET ahead == {p \in S : h[p] >= k}
    IN  First(h, IF ahead = {} THEN S ELSE ahead)

Nearest(h, ms, k) == NextPoint(h, Points(ms), k)[1]
=============================================================================
