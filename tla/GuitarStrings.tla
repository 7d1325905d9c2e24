--------------------------- MODULE GuitarStrings ---------------------------
(***************************************************************************)
(* The strings that the user draws between the dots of the guitar          *)
(* (experiment/app/views/GuitarView.js, views/guitar/GuitarString.js and   *)
(* Dot.js).  A press on a dot starts a string, ends it, takes an end off a *)
(* dot again, or removes the string, depending on two flags and on whether *)
(* the dot has a string.  Strings take their pid from a pool.              *)
(***************************************************************************)
EXTENDS Integers, Sequences, FiniteSets

CONSTANTS
    GridCount,      \* how many dots the grid has
    StoredStrings,  \* the strings of the data: [pid, pointA, pointB]
    MaxReloads      \* bound: how often the data is reset

GridDots == 0..(GridCount - 1)
MaxStrings == (GridCount + 1) \div 2
StringPids == 0..(MaxStrings - 1) \union {s.pid : s \in StoredStrings}

ASSUME GuitarStringsAssumption ==
    /\ GridCount \in Nat \ {0} /\ MaxReloads \in {0, 1} /\ IsFiniteSet(StoredStrings) /\ StoredStrings # {}
    /\ \A s \in StoredStrings : s.pid \in Nat /\ s.pointA # s.pointB /\ {s.pointA, s.pointB} \subseteq GridDots
    /\ \A s, t \in StoredStrings : s # t =>
         s.pid # t.pid /\ {s.pointA, s.pointB} \intersect {t.pointA, t.pointB} = {}

NoPid == -1
NoDot == -1
OldDot == -2    \* a dot of before the data was reset

VARIABLES
    guitarState,    \* APPLICATION_STATE: "collapsed" or "expand"
    getString,      \* the pid of the string of each dot, or NoPid
    guitarStrings,  \* by pid: the first and the second dot of the strings there are
    pidPool,
    isDrawing, isUndrawing, currentDrawingPid,
    blocked,        \* isDragging, isRecording or isCountdown
    reloads,
    clash           \* a pid stands for two strings, or a dot's for none: the model goes no further

strung == <<getString, guitarStrings, pidPool>>
drawing == <<isDrawing, isUndrawing, currentDrawingPid>>
guitarVars == <<guitarState, strung, drawing, blocked, reloads, clash>>

(***************************************************************************)
(* An entry of the pool is a number or, if a loop over the keys of         *)
(* guitarStrings put it there, a text, which removeFromPool never finds.   *)
(***************************************************************************)
Number(p) == [pid |-> p, text |-> FALSE]
Text(p) == [pid |-> p, text |-> TRUE]

Ascending(S) == [k \in 1..Cardinality(S) |-> CHOOSE i \in S : Cardinality({j \in S : j <= i}) = k]

\* removeFromPool for each of the entries: the first that is equal goes, if there is one.
RemoveFromPool(pool, entries) ==
    LET isFirst(i) == \A j \in 1..(i - 1) : pool[j] # pool[i]
        kept == Ascending({i \in DOMAIN pool : ~(pool[i] \in entries /\ isFirst(i))})
    IN  [k \in DOMAIN kept |-> pool[kept[k]]]

\* createStringFromModel for every string of the data.
StoredPids == {s.pid : s \in StoredStrings}
StoredEnds == [p \in StoredPids |-> LET s == CHOOSE t \in StoredStrings : t.pid = p IN <<s.pointA, s.pointB>>]
StoredOn == [d \in GridDots |->
    IF \E s \in StoredStrings : d \in {s.pointA, s.pointB}
    THEN (CHOOSE s \in StoredStrings : d \in {s.pointA, s.pointB}).pid ELSE NoPid]
PoolOfLoad(pool) ==
    RemoveFromPool(pool \o [i \in 1..MaxStrings |-> Number(i - 1)], {Number(p) : p \in StoredPids})

GuitarInit ==
    /\ guitarState = "collapsed" /\ blocked = FALSE /\ reloads = 0 /\ clash = FALSE
    /\ getString = StoredOn /\ guitarStrings = StoredEnds /\ pidPool = PoolOfLoad(<<>>)
    /\ isDrawing = FALSE /\ isUndrawing = FALSE /\ currentDrawingPid = NoPid

(***************************************************************************)
(* loadData, for a reset: the strings are torn down, but stay in           *)
(* guitarStrings; their pids and all those of the grid go into the pool,   *)
(* and the pids of the data out of it.  What is being drawn stays so.      *)
(***************************************************************************)
ReloadData ==
    /\ ~clash /\ reloads < MaxReloads /\ reloads' = reloads + 1
    /\ getString' = StoredOn
    /\ guitarStrings' = [p \in DOMAIN guitarStrings \union StoredPids |->
                           IF p \in StoredPids THEN StoredEnds[p] ELSE <<OldDot, OldDot>>]
    /\ LET old == Ascending(DOMAIN guitarStrings) IN
       pidPool' = PoolOfLoad(pidPool \o [i \in DOMAIN old |-> Text(old[i])])
    /\ UNCHANGED <<guitarState, drawing, blocked, clash>>

Open == guitarState' = (IF guitarState = "collapsed" THEN "expand" ELSE "collapsed")
        /\ ~clash /\ UNCHANGED <<strung, drawing, blocked, reloads, clash>>

\* A drag over the strings or a recording begins, or ends; it may while a string is drawn.
Block ==
    /\ ~clash /\ guitarState = "expand" /\ blocked' = ~blocked
    /\ UNCHANGED <<guitarState, strung, drawing, reloads, clash>>

-----------------------------------------------------------------------------
(* activateDot: the flags and the dot decide.                              *)

Reacts == ~clash /\ ~blocked /\ guitarState = "expand"
Free(d) == getString[d] = NoPid

\* startString: the pid is the last of the pool.
StartString(d) ==
    LET pid == pidPool[Len(pidPool)].pid IN
    /\ Reacts /\ ~isDrawing /\ ~isUndrawing /\ Free(d) /\ pidPool # <<>>
    /\ clash' = (pid \in DOMAIN guitarStrings /\ \E e \in GridDots : getString[e] = pid)
    /\ pidPool' = SubSeq(pidPool, 1, Len(pidPool) - 1)
    /\ isDrawing' = TRUE /\ currentDrawingPid' = pid
    /\ getString' = [getString EXCEPT ![d] = pid]
    /\ guitarStrings' = [p \in DOMAIN guitarStrings \union {pid} |->
                           IF p = pid THEN <<d, NoDot>> ELSE guitarStrings[p]]
    /\ UNCHANGED <<guitarState, isUndrawing, blocked, reloads>>

\* endString: the other end is on this dot.
EndString(d) ==
    /\ Reacts /\ (isDrawing \/ isUndrawing) /\ Free(d)
    /\ isDrawing' = FALSE /\ isUndrawing' = FALSE
    /\ getString' = [getString EXCEPT ![d] = currentDrawingPid]
    /\ guitarStrings' = [guitarStrings EXCEPT ![currentDrawingPid][2] = d]
    /\ UNCHANGED <<guitarState, pidPool, currentDrawingPid, blocked, reloads, clash>>

\* Mutant: the first dot stays the first when the string is taken off it.
RestartStringFirst(d) ==
    LET pid == getString[d] IN
    /\ Reacts /\ ~isDrawing /\ ~isUndrawing /\ ~Free(d)
    /\ isUndrawing' = TRUE /\ currentDrawingPid' = pid
    /\ guitarStrings' = [guitarStrings EXCEPT ![pid] = <<@[1], NoDot>>]
    /\ getString' = [getString EXCEPT ![d] = NoPid]
    /\ UNCHANGED <<guitarState, pidPool, isDrawing, blocked, reloads, clash>>

\* restartString: the string comes off this dot, and the other becomes its first.
RestartString(d) ==
    LET pid == getString[d] IN
    /\ Reacts /\ ~isDrawing /\ ~isUndrawing /\ ~Free(d)
    /\ isUndrawing' = TRUE /\ currentDrawingPid' = pid
    /\ guitarStrings' = [guitarStrings EXCEPT ![pid] = <<IF @[1] = d THEN @[2] ELSE @[1], NoDot>>]
    /\ getString' = [getString EXCEPT ![d] = NoPid]
    /\ UNCHANGED <<guitarState, pidPool, isDrawing, blocked, reloads, clash>>

\* destroyString: the string being drawn is put back on the dot it starts from.
DestroyString(d) ==
    LET pid == getString[d] IN
    /\ Reacts /\ (isDrawing \/ isUndrawing) /\ ~Free(d)
    /\ currentDrawingPid \in DOMAIN guitarStrings /\ guitarStrings[currentDrawingPid][1] = d
    /\ isDrawing' = FALSE /\ isUndrawing' = FALSE
    /\ getString' = [getString EXCEPT ![d] = NoPid]
    /\ guitarStrings' = [p \in DOMAIN guitarStrings \ {pid} |-> guitarStrings[p]]
    /\ pidPool' = Append(pidPool, Number(pid))
    /\ clash' = (pid # currentDrawingPid \/ \E e \in GridDots \ {d} : getString[e] = pid)
    /\ UNCHANGED <<guitarState, currentDrawingPid, blocked, reloads>>

GuitarNext ==
    \/ ReloadData \/ Open \/ Block
    \/ \E d \in GridDots : StartString(d) \/ EndString(d) \/ RestartString(d) \/ DestroyString(d)

GuitarSpec == GuitarInit /\ [][GuitarNext]_guitarVars

-----------------------------------------------------------------------------

GuitarTypeOK ==
    /\ guitarState \in {"collapsed", "expand"} /\ {blocked, clash, isDrawing, isUndrawing} \subseteq BOOLEAN
    /\ getString \in [GridDots -> StringPids \union {NoPid}]
    /\ DOMAIN guitarStrings \subseteq StringPids
    /\ \A p \in DOMAIN guitarStrings : guitarStrings[p] \in (GridDots \union {NoDot, OldDot}) \X (GridDots \union {NoDot, OldDot})
    /\ pidPool \in Seq([pid : StringPids, text : BOOLEAN]) /\ currentDrawingPid \in StringPids \union {NoPid}
    /\ reloads \in 0..MaxReloads

(***************************************************************************)
(* The strings and the dots agree: what getData puts into a shared link    *)
(* has both its ends, on two dots that know it, except for the string that *)
(* is being drawn, which has its first.  No two strings share a pid, and   *)
(* the pool never runs dry, as it has one for every two dots               *)
(* (GuitarView.js: activateDot, maxStrings).  A reset loses this: the old  *)
(* strings stay in guitarStrings.                                          *)
(***************************************************************************)
StringsMatchDots ==
    LET drawn == IF isDrawing \/ isUndrawing THEN {currentDrawingPid} ELSE {}
        on(p) == {d \in GridDots : getString[d] = p}
    IN  reloads = 0 =>
          /\ ~clash /\ ~(isDrawing /\ isUndrawing)
          /\ drawn \subseteq DOMAIN guitarStrings
          /\ \A p \in DOMAIN guitarStrings :
               LET ends == guitarStrings[p] IN
               ends[1] # ends[2] /\ on(p) = IF p \in drawn THEN {ends[1]} ELSE {ends[1], ends[2]}
          /\ \A d \in GridDots : ~Free(d) => getString[d] \in DOMAIN guitarStrings
          /\ \A i \in DOMAIN pidPool :
               /\ pidPool[i].pid \notin DOMAIN guitarStrings
               /\ \A j \in DOMAIN pidPool : pidPool[i] = pidPool[j] => i = j
          /\ drawn = {} /\ (\E d \in GridDots : Free(d)) => pidPool # <<>>

=============================================================================
