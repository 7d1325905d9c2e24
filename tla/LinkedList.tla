----------------------------- MODULE LinkedList -----------------------------
(***************************************************************************)
(* The doubly linked lists of experiment/app/util/LinkedList.js.  All the  *)
(* lists of the page take their nodes from one shared stack of free nodes, *)
(* and give them back to it: a node that one list has let go of can be the *)
(* next node of another list while somebody still holds a pointer to it.   *)
(*                                                                         *)
(* A heap is a record of the node fields, the stack of free nodes and, per *)
(* list, its head and tail.  Every operation is an operator from a heap to *)
(* the heap it leaves.                                                     *)
(***************************************************************************)
EXTENDS Naturals, Sequences, FiniteSets

CONSTANTS
    Lists,      \* the LinkedList objects
    Null,       \* null, and undefined
    MaxNodes    \* bound: nodes that are ever created, and the objects of PlaybackBus

Nodes == 1..MaxNodes

\* Nothing created yet: every list empty, no free node.
EmptyHeap ==
    [next |-> [n \in Nodes |-> Null], prev |-> [n \in Nodes |-> Null],
     obj  |-> [n \in Nodes |-> Null],
     free |-> <<>>, created |-> 0,
     head |-> [l \in Lists |-> Null], tail |-> [l \in Lists |-> Null]]

\* The node that getNode_ hands out, and the heap without it.
NewNode(h) == IF h.free # <<>> THEN h.free[Len(h.free)] ELSE h.created + 1

Taken(h) == IF h.free # <<>> THEN [h EXCEPT !.free = SubSeq(@, 1, Len(@) - 1)]
                             ELSE [h EXCEPT !.created = @ + 1]

Push(h, l, o) ==
    LET n == NewNode(h)
        t == h.tail[l]
    IN  [Taken(h) EXCEPT !.obj[n] = o, !.prev[n] = t,
                         !.next = [m \in Nodes |-> IF m = n THEN Null
                                                   ELSE IF m = t THEN n ELSE @[m]],
                         !.tail[l] = n,
                         !.head[l] = IF @ = Null THEN n ELSE @]

Unshift(h, l, o) ==
    LET n == NewNode(h)
        f == h.head[l]
    IN  [Taken(h) EXCEPT !.obj[n] = o, !.next[n] = f,
                         !.prev = [m \in Nodes |-> IF m = n THEN Null
                                                   ELSE IF m = f THEN n ELSE @[m]],
                         !.head[l] = n,
                         !.tail[l] = IF @ = Null THEN n ELSE @]

(***************************************************************************)
(* The nodes of a list, as following "next" from its head finds them.  A   *)
(* list has at most MaxNodes nodes unless the links form a cycle.          *)
(***************************************************************************)
Chain(h, l) ==
    LET after == [n \in Nodes \union {Null} |-> IF n = Null THEN Null ELSE h.next[n]]
        node[k \in 1..MaxNodes] == IF k = 1 THEN h.head[l] ELSE after[node[k - 1]]
    IN  [k \in 1..Cardinality({i \in 1..MaxNodes : node[i] # Null}) |-> node[k]]

\* The list's objects, head first.
Contents(h, l) == LET c == Chain(h, l) IN [i \in DOMAIN c |-> h.obj[c[i]]]

\* The first node that carries o, if the list has one.
NodeOf(h, l, o) ==
    LET c == Chain(h, l)
        at == {i \in DOMAIN c : h.obj[c[i]] = o}
    IN  IF at = {} THEN Null ELSE c[CHOOSE i \in at : \A j \in at : i <= j]

\* Mutant: a removal that leaves the next node's link as it was.
RemoveKeepsPrev(h, l, o) ==
    LET n == NodeOf(h, l, o)
        p == h.prev[n]
        x == h.next[n]
    IN  IF n = Null THEN h
        ELSE [h EXCEPT !.head[l] = IF p = Null THEN x ELSE @,
                       !.tail[l] = IF x = Null THEN p ELSE @,
                       !.next = [m \in Nodes |-> IF m = n THEN Null
                                                 ELSE IF m = p THEN x ELSE @[m]],
                       !.obj[n] = Null, !.prev[n] = Null,
                       !.free = Append(@, n)]

\* The node's neighbours take each other's hand, and the node returns to the stack.
Remove(h, l, o) ==
    LET n == NodeOf(h, l, o)
        p == h.prev[n]
        x == h.next[n]
    IN  IF n = Null THEN h
        ELSE [h EXCEPT !.head[l] = IF p = Null THEN x ELSE @,
                       !.tail[l] = IF x = Null THEN p ELSE @,
                       !.next = [m \in Nodes |-> IF m = n THEN Null
                                                 ELSE IF m = p THEN x ELSE @[m]],
                       !.prev = [m \in Nodes |-> IF m = n THEN Null
                                                 ELSE IF m = x THEN p ELSE @[m]],
                       !.obj[n] = Null,
                       !.free = Append(@, n)]

IsEmpty(h, l) == h.head[l] = Null
Last(h, l) == h.obj[h.tail[l]]
First(h, l) == h.obj[h.head[l]]
Pop(h, l) == Remove(h, l, Last(h, l))
Shift(h, l) == Remove(h, l, First(h, l))

(***************************************************************************)
(* Every node is on one list or free, once; the links of a list agree in   *)
(* both directions.                                                        *)
(***************************************************************************)
WellFormed(h) ==
    LET on(l) == {Chain(h, l)[i] : i \in DOMAIN Chain(h, l)}
        freed == {h.free[i] : i \in DOMAIN h.free}
    IN  /\ (UNION {on(l) : l \in Lists}) \union freed = 1..h.created
        /\ Cardinality(freed) = Len(h.free)
        /\ \A l \in Lists :
             LET c == Chain(h, l)
             IN  /\ on(l) \intersect freed = {}
                 /\ \A k \in Lists \ {l} : on(l) \intersect on(k) = {}
                 /\ Cardinality(on(l)) = Len(c)
                 /\ h.tail[l] = IF c = <<>> THEN Null ELSE c[Len(c)]
                 /\ \A i \in DOMAIN c :
                      h.prev[c[i]] = IF i = 1 THEN Null ELSE c[i - 1]

=============================================================================
