------------------------------- MODULE MCFeed -------------------------------
(***************************************************************************)
(* From the organisers' data to the device: two instances of ChangesFeed,  *)
(* a day on which clock runs overlap and one on which push events do, and  *)
(* the syncs of EventSync when memcache has lost the counter.  They keep   *)
(* their state to themselves, so a behaviour chooses one part, which takes *)
(* the steps of its own specification.                                     *)
(*                                                                         *)
(* A day has a keynote, and a later session that nobody surveys.           *)
(* Reminders come in every combination: the keynote soon, starting,        *)
(* surveyed; the other starting before, with or after it.  The short day   *)
(* leaves less time between them.                                          *)
(***************************************************************************)
EXTENDS ChangesFeed, TLC

CONSTANTS keynote, talk, OtherClocks, OtherHandlers, Syncs, Keys, MaxVersion, MaxErrors, MaxCrashes, MaxLock, ReleaseBy

VARIABLES part, manifest, stored, log, cache, lock, pc, key, old, new, tries, txn, errors, crashes

TheSessions == {keynote, talk}
TheStart == [s \in TheSessions |-> IF s = keynote THEN 9 ELSE 12]
ShortDay == [s \in TheSessions |-> IF s = keynote THEN 8 ELSE 9]

\* What the two days and the syncs are made of.
ASSUME PartsAssumption ==
    /\ Sessions = TheSessions /\ Second =< 11
    /\ MaxEdits = 0 /\ \A b, c \in Clocks : b = c
    /\ \A g, h \in OtherHandlers : g = h
    /\ MaxVersion \in Nat \ {0} /\ MaxErrors \in Nat /\ MaxCrashes \in Nat
    /\ MaxLock \in Nat /\ MaxLock > 1 /\ ReleaseBy \in Nat

\* Clock runs overlap, one push event is handled at a time and none is cut off.
Day == INSTANCE ChangesFeed WITH
    Start <- ShortDay, Bookmarks <- {talk}, TimeoutSoon <- 7, TimeoutSurvey <- 2, Limit <- 2,
    Clocks <- OtherClocks, Handlers <- OtherHandlers,
    MaxTime <- 11, MaxEdits <- 1, MaxDrops <- 0

\* memcache may lose the counter, so syncs overlap.
Data == INSTANCE EventSync WITH Readers <- {}, Evictions <- TRUE

dataVars == <<manifest, stored, log, cache, lock, pc, key, old, new, tries, txn, errors, crashes>>

FeedInit ==
    /\ part \in {"day", "events", "data"}
    /\ IF part = "day" THEN Day!Init ELSE Init
    /\ Data!Init

FeedNext ==
    /\ UNCHANGED part
    /\ \/ part = "day" /\ Day!Next /\ UNCHANGED dataVars
       \/ part = "events" /\ Next /\ UNCHANGED dataVars
       \/ part = "data" /\ Data!Next /\ UNCHANGED vars

FeedSpec == FeedInit /\ [][FeedNext]_<<vars, dataVars, part>>

\* The handlers, clock runs and syncs of which there are several differ in name only, and
\* have the same two names.
Interchangeable == Permutations(Handlers)

(***************************************************************************)
(* RemindedOnce and ShownOnce of ChangesFeed, where clock runs overlap and *)
(* one push event is handled at a time: each reminder is recorded once and *)
(* shown once (handleClock, getChangesSince and the push listener).        *)
(***************************************************************************)
RemindersOnce == part = "day" => Day!RemindedOnce /\ Day!ShownOnce

(***************************************************************************)
(* NothingSkipped and TokenNotAhead of ChangesFeed, where push events      *)
(* overlap and are cut off and answers are limited: reminders, which are   *)
(* stored in the order of their timestamps, are not skipped, nor would     *)
(* those to come be.                                                       *)
(***************************************************************************)
NothingHidden == part = "events" => NothingSkipped /\ TokenNotAhead

(***************************************************************************)
(* EveryChangeLogged of EventSync while syncs overlap: whatever becomes    *)
(* stored is recorded and announced with it, from the version before.      *)
(***************************************************************************)
OverlapsLogged == part = "data" => Data!EveryChangeLogged
=============================================================================
