------------------------------- MODULE KdTree -------------------------------
(***************************************************************************)
(* The markers of the globe (elements/webgl-globe/kd-tree.js): a complete  *)
(* k-d tree, packed by position (the children of i are at 2i+1 and 2i+2),  *)
(* and the two searches, which walk it with a stack.  A marker is a point  *)
(* of the sphere in whole coordinates; distances are squared throughout.   *)
(***************************************************************************)
EXTENDS Integers, Sequences, FiniteSets

CONSTANTS
    Markers,    \* the points there may be, <<x, y, z>>; two may be equal
    Counts,     \* how many of them the globe has
    Targets,    \* where the user clicks
    Limits,     \* radii of a neighbourhood, squared
    Infinity  \* a distance no two points have

ASSUME KdTreeAssumption ==
    /\ Markers \in Seq(Int \X Int \X Int) /\ Counts \subseteq 1..Len(Markers)
    /\ Targets \subseteq Int \X Int \X Int /\ Targets # {} /\ Limits \subseteq Nat

VARIABLES
    points,     \* indices of the markers the globe has
    store,      \* position -> index of a marker
    query,      \* "none", "nearest" or "neighborhood"
    target, limit,
    current,    \* the position the search is at
    depth,      \* what it takes for the depth of that position
    stack,      \* the other children on the way, with the distance to their side
    bound,      \* the squared distance below which a marker counts
    found       \* the markers it has found

treeVars == <<points, store, query, target, limit, current, depth, stack, bound, found>>

-----------------------------------------------------------------------------
(* build_ and buildFlatStore_.                                             *)

\* lessThanX_, lessThanY_, lessThanZ_: the other dimensions and the index break ties.
Key(p, d) == [k \in 0..2 |-> Markers[p][1 + ((d + k) % 3)]]
Less(p, q, d) ==
    LET a == Key(p, d)  b == Key(q, d)
    IN  \/ \E k \in 0..2 : a[k] < b[k] /\ \A j \in 0..(k - 1) : a[j] = b[j]
        \/ a = b /\ p < q

intLogBase2(v) == CHOOSE h \in 0..v : 2^h =< v /\ v < 2^(h + 1)

\* The left part of a complete tree: its bottom level is more than half filled, or less.
arraySplit(length) ==
    LET firstBit == 2^intLogBase2(length)
        secondBit == firstBit \div 2
    IN  IF length >= firstBit + secondBit THEN firstBit - 1 ELSE length - firstBit + secondBit

Before(S, p, d) == {q \in S : Less(q, p, d)}
Split(S, d) ==
    CHOOSE p \in S : Cardinality(Before(S, p, d)) = IF Cardinality(S) = 1 THEN 0 ELSE arraySplit(Cardinality(S))

DepthOf(i) == intLogBase2(i + 1)

\* The markers under each position: those before the split of the parent, or after it.
Subtrees(S) ==
    LET under[i \in 0..(2 * Cardinality(S))] ==
          IF i = 0 THEN S
          ELSE LET parent == under[(i - 1) \div 2]
                   d == DepthOf((i - 1) \div 2)
               IN  IF parent = {} THEN {}
                   ELSE LET p == Split(parent, d)
                        IN  IF i % 2 = 1 THEN Before(parent, p, d)
                            ELSE parent \ (Before(parent, p, d) \union {p})
    IN  under

\* Positions of the array are 0..n-1: what lies beyond is not stored.
FlatStore(S) ==
    LET under == Subtrees(S)
    IN  [i \in {j \in 0..(Cardinality(S) - 1) : under[j] # {}} |-> Split(under[i], DepthOf(i))]

KdTreeInit ==
    /\ points \in {S \in SUBSET DOMAIN Markers : Cardinality(S) \in Counts}
    /\ store = FlatStore(points)
    /\ query = "none" /\ target = (CHOOSE t \in Targets : TRUE) /\ limit = 0
    /\ current = 0 /\ depth = 0 /\ stack = <<>> /\ bound = 0 /\ found = {}

-----------------------------------------------------------------------------
(* nearest_ and neighborhood_: one action per round of the loop.           *)

SqDistance(p, t) ==
    LET d(k) == t[k] - Markers[p][k]
    IN  d(1) * d(1) + d(2) * d(2) + d(3) * d(3)

\* No marker is as far from a target as the search of the nearest begins with.
ASSUME InfinityAssumption ==
    Infinity \in Nat /\ \A p \in DOMAIN Markers, t \in Targets : SqDistance(p, t) < Infinity

InStore(i) == i < Cardinality(points)
Over == ~InStore(current) /\ stack = <<>>

Search(kind, t, sq) ==
    /\ query = "none" /\ query' = kind /\ target' = t /\ limit' = sq /\ bound' = sq
    /\ UNCHANGED <<points, store, current, depth, stack, found>>
NearestNeighbor(t) == Search("nearest", t, Infinity)
Neighborhood(t) == \E sq \in Limits : Search("neighborhood", t, sq)

\* A marker that is near enough counts; then the child on the target's side.
Visit ==
    LET p == store[current]
        sq == SqDistance(p, target)
        side == target[1 + (depth % 3)] - Markers[p][1 + (depth % 3)]
        left == 2 * current + 1
        first == IF side < 0 THEN left ELSE left + 1
        second == IF side < 0 THEN left + 1 ELSE left
    IN  /\ query # "none" /\ InStore(current)
        /\ found' = IF sq >= bound THEN found
                    ELSE IF query = "nearest" THEN {p} ELSE found \union {p}
        /\ bound' = IF query = "nearest" /\ sq < bound THEN sq ELSE bound
        /\ IF InStore(left)
           THEN /\ stack' = Append(stack, [position |-> second, sq |-> side * side])
                /\ current' = first /\ depth' = depth + 1
           ELSE current' = left /\ UNCHANGED <<stack, depth>>
        /\ UNCHANGED <<points, store, query, target, limit>>

\* Variant: the depth stays that of the leaf.
PopKeepsDepth ==
    LET top == stack[Len(stack)]
    IN  /\ query # "none" /\ ~InStore(current) /\ stack # <<>>
        /\ stack' = SubSeq(stack, 1, Len(stack) - 1)
        /\ current' = IF top.sq =< bound /\ InStore(top.position) THEN top.position ELSE current
        /\ UNCHANGED <<points, store, query, target, limit, depth, bound, found>>

\* A side that is too far, or not there, is passed over.  The depth is taken from the
\* stack, as if nothing had been pushed since an earlier pop.
Pop ==
    LET top == stack[Len(stack)]
    IN  /\ query # "none" /\ ~InStore(current) /\ stack # <<>>
        /\ depth' = Len(stack) /\ stack' = SubSeq(stack, 1, Len(stack) - 1)
        /\ current' = IF top.sq =< bound /\ InStore(top.position) THEN top.position ELSE current
        /\ UNCHANGED <<points, store, query, target, limit, bound, found>>

KdTreeNext ==
    \/ \E t \in Targets : NearestNeighbor(t) \/ Neighborhood(t)
    \/ Visit \/ Pop

KdTreeSpec == KdTreeInit /\ [][KdTreeNext]_treeVars

-----------------------------------------------------------------------------
\* The array has no hole and nothing is left out of it.
PackedDensely == {store[i] : i \in DOMAIN store} = points /\ DOMAIN store = 0..(Cardinality(points) - 1)

(***************************************************************************)
(* A neighbourhood holds exactly the markers within the radius, whatever   *)
(* sides of the tree were passed over.                                     *)
(***************************************************************************)
NeighborhoodExact ==
    (query = "neighborhood" /\ Over) => found = {p \in points : SqDistance(p, target) < limit}

(***************************************************************************)
(* "Returns the index of the nearest node in the tree to the target        *)
(* coordinates" (kd-tree.js).                                              *)
(***************************************************************************)
NearestFound ==
    (query = "nearest" /\ Over) =>
        \E p \in found : \A q \in points : SqDistance(p, target) =< SqDistance(q, target)

\* A globe of few markers: the tree is packed, and both searches are right.
TreeExact == PackedDensely /\ NeighborhoodExact /\ NearestFound
=============================================================================
