-------------------------------- MODULE Ring --------------------------------
(***************************************************************************)
(* The ring as internal/ring/ring.go builds it: a sorted array of points,  *)
(* searched for a key's hash, and built anew whenever the membership       *)
(* changes.  The two hash functions are arbitrary: the points' hashes are  *)
(* chosen once, a key is its hash.                                         *)
(***************************************************************************)
EXTENDS RingOrder, Sequences, FiniteSets

VARIABLES
    hash,     \* hash[<<n, v>>]: vnodeHash(n, v)
    listed,   \* the members, in the order a process was given them
    ring      \* the points, as New sorted them

ringVars == <<hash, listed, ring>>

Members(l) == {l[i] : i \in DOMAIN l}

(* sort.Slice: every element at its rank.                                  *)
Sorted(s, Less(_, _)) ==
    LET rank(i) == Cardinality({m \in DOMAIN s : \/ Less(s[m], s[i])
                                                 \/ ~Less(s[i], s[m]) /\ m < i})
        placed == {<<rank(i) + 1, s[i]>> : i \in DOMAIN s}
    IN  [j \in DOMAIN s |-> (CHOOSE x \in placed : x[1] = j)[2]]

(* VNodes points for each node, node by node.                              *)
PointsOf(ids) ==
    [j \in 1..(Len(ids) * VNodes) |-> <<ids[((j - 1) \div VNodes) + 1], (j - 1) % VNodes>>]

(* Mutant: colliding points stay in the order the nodes were given. *)
NewByHash(h, l) == Sorted(PointsOf(l), LAMBDA p, q : h[p] < h[q])

(* New: the nodes by id, the points of each, the points by hash and those  *)
(* that collide by id.                                                     *)
New(h, l) == Sorted(PointsOf(Sorted(l, <)), LAMBDA p, q : Before(h, p, q))

(* search: past the last point comes the first.                            *)
Search(h, r, k) ==
    LET ahead == {i \in DOMAIN r : h[r[i]] >= k}
    IN  IF ahead = {} THEN 1 ELSE CHOOSE i \in ahead : \A j \in ahead : i <= j

Owner(h, r, k) == r[Search(h, r, k)][1]

-----------------------------------------------------------------------------
RingTypeOK ==
    /\ hash \in Hashing
    /\ listed \in Seq(Node) /\ Cardinality(Members(listed)) = Len(listed)
    /\ ring \in Seq(Node \X Place)

RingInit ==
    /\ hash \in Hashing
    /\ \E n \in Node : listed = <<n>>
    /\ ring = New(hash, listed)

(* A member joins, listed anywhere; New refuses two nodes with one id.     *)
Joins(n) ==
    /\ n \notin Members(listed)
    /\ \E i \in 0..Len(listed) :
         listed' = SubSeq(listed, 1, i) \o <<n>> \o SubSeq(listed, i + 1, Len(listed))
    /\ ring' = New(hash, listed')
    /\ UNCHANGED hash

(* A member leaves; New refuses a ring of no nodes.                        *)
Leaves(n) ==
    /\ Len(listed) > 1
    /\ \E i \in DOMAIN listed :
         /\ listed[i] = n
         /\ listed' = SubSeq(listed, 1, i - 1) \o SubSeq(listed, i + 1, Len(listed))
    /\ ring' = New(hash, listed')
    /\ UNCHANGED hash

Change == \E n \in Node : Joins(n) \/ Leaves(n)

RingSpec == RingInit /\ [][Change]_ringVars

-----------------------------------------------------------------------------
(* search over the sorted array finds the point the circle's order gives,  *)
(* for every placement of the points, collisions and wrapping included,    *)
(* and in whatever order the process was given the members: all processes  *)
(* agree on the owner.                                                     *)
OwnerIsNearest ==
    \A k \in Hashes : Owner(hash, ring, k) = Nearest(hash, Members(listed), k)

(* A change of membership moves only what it must: a key that changes      *)
(* hands goes to the node that joined or leaves the one that left.         *)
MovesOnlyWhatItMust ==
    [][\A k \in Hashes :
         LET was == Owner(hash, ring, k)
             is == Owner(hash, ring', k)
         IN  was # is => \/ is \notin Members(listed)
                         \/ was \notin Members(listed')]_ringVars
=============================================================================
