---------------------------- MODULE Composition ----------------------------
(***************************************************************************)
(* How the experiment's data becomes the "composition" of a link and data  *)
(* again (experiment/app/util/DataModel.js and StateManager.js).  The data *)
(* is an array with an entry per instrument, sorted by name, of nested     *)
(* arrays of numbers.  Its JSON becomes a link by a substitution of the    *)
(* brackets and the comma, and of every run of digits by the same number   *)
(* in hexadecimal; a link is read the other way round.                     *)
(***************************************************************************)
EXTENDS Integers, Sequences, FiniteSets

CONSTANTS
    Names,      \* the names of the instruments, which are numbers here
    Default,    \* getDefault of each instrument: a sequence of numbers
    Edits       \* what the user's changes may leave in an instrument

(***************************************************************************)
(* A number as JSON writes it: its integer part and the digits after the   *)
(* point, which are so many zeros and a number, or nothing (zeros = -1).   *)
(* The text of a link has hexadecimal runs instead, or is no link at all.  *)
(***************************************************************************)
Numeral(n) == [int |-> n, zeros |-> -1, frac |-> 0]
Fraction(n, zeros, m) == [int |-> n, zeros |-> zeros, frac |-> m]
Exact(x) == x.zeros <= 0
Numbers == {x \in [int : Nat, zeros : Nat \union {-1}, frac : Nat] : x.zeros = -1 => x.frac = 0}

\* No link, or one that is not a composition; nothing was shared.
Bad == <<>>
Nothing == <<>>

ASSUME CompositionAssumption ==
    /\ Names \subseteq Nat \ {0} /\ IsFiniteSet(Names) /\ Names # {}
    /\ Default \in [Names -> Edits] /\ Edits \subseteq Seq(Numbers)

VARIABLES
    instrumentData,     \* what each instrument holds
    halfDrawn,          \* a string of the guitar has one end: it cannot be serialized
    firstLoad,          \* firstLoadData: a link
    link,               \* the link in the address bar, or the one last shared
    sharedData          \* history: what was shared with that link

compositionVars == <<instrumentData, halfDrawn, firstLoad, link, sharedData>>

\* init: the schema lists the instruments by their names.
Schema == CHOOSE s \in [1..Cardinality(Names) -> Names] : \A i, j \in DOMAIN s : i < j => s[i] < s[j]
ToArray(data) == [i \in DOMAIN Schema |-> data[Schema[i]]]
FromArray(array) == [n \in Names |-> array[CHOOSE i \in DOMAIN Schema : Schema[i] = n]]

\* Mutant: only the integer part of a number is written.
ToURLInt(data) ==
    [i \in DOMAIN Schema |-> [j \in DOMAIN data[Schema[i]] |-> <<data[Schema[i]][j].int>>]]

\* toURL: each run of digits is parsed as a number of its own, so zeros in front are lost.
Runs(x) == IF x.zeros = -1 THEN <<x.int>> ELSE <<x.int, x.frac>>
ToURL(data) ==
    LET array == ToArray(data) IN [i \in DOMAIN array |-> [j \in DOMAIN array[i] |-> Runs(array[i][j])]]

\* fromURL and deserializeModel; what is not JSON gives false.
FromRuns(runs) == IF Len(runs) = 1 THEN Numeral(runs[1]) ELSE Fraction(runs[1], 0, runs[2])
LoadFromString(url) ==
    FromArray([i \in DOMAIN url |-> [j \in DOMAIN url[i] |-> FromRuns(url[i][j])]])

\* loadSerializedOrDefault, reloadFirstLoadData
Load(url) == IF url = Bad THEN Default ELSE LoadFromString(url)

CompositionInit ==
    /\ link = Bad /\ instrumentData = Load(link) /\ firstLoad = ToURL(instrumentData)
    /\ halfDrawn = FALSE /\ sharedData = Nothing

\* The user plays, records, or moves something.
Edit(n) ==
    /\ \E numbers \in Edits : instrumentData' = [instrumentData EXCEPT ![n] = numbers]
    /\ halfDrawn' \in BOOLEAN
    /\ UNCHANGED <<firstLoad, link, sharedData>>

\* toURL asks every instrument for its data; a string with one end throws.
Share ==
    /\ ~halfDrawn
    /\ link' = ToURL(instrumentData) /\ sharedData' = instrumentData
    /\ UNCHANGED <<instrumentData, halfDrawn, firstLoad>>

\* The page is opened anew with the link.
OpenLink ==
    /\ instrumentData' = Load(link) /\ firstLoad' = ToURL(instrumentData')
    /\ halfDrawn' = FALSE /\ UNCHANGED <<link, sharedData>>

ResetData ==
    /\ instrumentData' = Load(firstLoad) /\ halfDrawn' = FALSE
    /\ UNCHANGED <<firstLoad, link, sharedData>>

CompositionNext == (\E n \in Names : Edit(n)) \/ Share \/ OpenLink \/ ResetData

CompositionSpec == CompositionInit /\ [][CompositionNext]_compositionVars

-----------------------------------------------------------------------------

AllExact(data) == \A n \in Names : \A i \in DOMAIN data[n] : Exact(data[n][i])

CompositionTypeOK ==
    /\ DOMAIN instrumentData = Names /\ halfDrawn \in BOOLEAN
    /\ Len(firstLoad) = Cardinality(Names)

(***************************************************************************)
(* What is opened from a link is what was shared, and a second link to it  *)
(* is the same.  The first half holds only if no number has a zero right   *)
(* after its point: 1.05 comes back as 1.5, and so does a reset of it.     *)
(***************************************************************************)
LinkIsExact ==
    sharedData # Nothing =>
      /\ AllExact(sharedData) => Load(link) = sharedData
      /\ ToURL(Load(link)) = link

=============================================================================
