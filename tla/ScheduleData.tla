---------------------------- MODULE ScheduleData ----------------------------
(***************************************************************************)
(* What the schedule part of the backend promises, whatever syncs, shards  *)
(* and caches stand behind it: the organisers publish versions of their    *)
(* files; now and then the backend takes one over, at one instant and      *)
(* together with the record of what it changes; a request for the schedule *)
(* is answered with data that was taken over.  A version that is taken     *)
(* over is newer than the one the record starts from, which the backend    *)
(* has too, unless it has none at all.                                     *)
(*                                                                         *)
(* It is not promised that the record starts from the newest version, nor  *)
(* that a request is answered with it: EventSync.tla is the design that    *)
(* implements this module, and its caches may be an hour behind.           *)
(***************************************************************************)
EXTENDS Integers

CONSTANTS Readers, MaxVersion    \* as in EventSync

VARIABLES manifest,     \* version the organisers published last
          stored,       \* the versions taken over
          log,          \* the changes recorded
          answer        \* what each request was answered, NoData before

vars == <<manifest, stored, log, answer>>

Versions == 1..MaxVersion

EventData == [mod : Versions, content : Versions]

NoData == [mod |-> 0, content |-> 0]

Init ==
    /\ manifest = 1
    /\ stored = {} /\ log = {}
    /\ answer = [r \in Readers |-> NoData]

Publish ==
    /\ manifest < MaxVersion
    /\ manifest' = manifest + 1
    /\ UNCHANGED <<stored, log, answer>>

\* There is nothing to tell of the first version, nor of an equal one.
Changes(base, d) ==
    IF base = NoData \/ base.content = d.content THEN {}
    ELSE {[from |-> base.content, to |-> d.content]}

\* What there is to be found: one of the versions, or that there is none.
Available == IF stored = {} THEN {NoData} ELSE stored

\* The files may have been replaced since the manifest was read.
TakeOver(base, d) ==
    /\ base.mod < d.mod
    /\ d.mod =< d.content /\ d.content =< manifest
    /\ stored' = stored \cup {d}
    /\ log' = log \cup Changes(base, d)
    /\ UNCHANGED <<manifest, answer>>

Ask(r) ==
    /\ answer' = [answer EXCEPT ![r] = NoData]
    /\ UNCHANGED <<manifest, stored, log>>

Answer(r) ==
    /\ answer' \in {[answer EXCEPT ![r] = d] : d \in Available}
    /\ UNCHANGED <<manifest, stored, log>>

Next ==
    \/ Publish
    \/ \E base \in Available, d \in EventData : TakeOver(base, d)
    \/ \E r \in Readers : Ask(r) \/ Answer(r)

Spec == Init /\ [][Next]_vars
=============================================================================
