---------------------------- MODULE OfflineQueue ----------------------------
(***************************************************************************)
(* My Schedule in one browser: the page that adds and removes bookmarks    *)
(* (app/scripts/helper/schedule.js, app/templates/schedule.html), the      *)
(* service worker that carries the requests and keeps the ones that fail   *)
(* (app/scripts/shed/offline-session-updates.js), and the sign-in handlers *)
(* that replay or delete what was kept (app/scripts/bootstrap.js,          *)
(* app/scripts/helper/auth.js).                                            *)
(*                                                                         *)
(* The queue is an IndexedDB database with one entry per URL, and the URL  *)
(* names the session: an entry is the method of the last request for that  *)
(* session that failed.  The backend is one atomic update of the user's    *)
(* bookmarks here; what happens inside that update is module AppFolder.    *)
(***************************************************************************)
EXTENDS Naturals, Sequences, FiniteSets

CONSTANTS
    Users,          \* accounts that sign in in this browser
    Sessions,       \* sessions of the schedule
    None,           \* no user, no entry
    MaxCalls,       \* bound: requests in flight at one time
    MaxClicks,      \* bound: changes the users make
    MaxFaults,      \* bound: requests that fail, one way or the other
    MaxVisits,      \* bound: page loads and sign-ins
    Patient         \* whether users wait for the page before they go on

Methods == {"PUT", "DELETE"}

(***************************************************************************)
(* A kept change is the entry's method.  "by", the user whose change it    *)
(* was, is recorded for the properties; the database does not have it.     *)
(***************************************************************************)
Entries == [method : Methods, by : Users]

ASSUME OfflineQueueAssumption ==
    /\ None \notin Users /\ None \notin Entries
    /\ MaxCalls \in Nat /\ MaxClicks \in Nat /\ MaxFaults \in Nat /\ MaxVisits \in Nat
    /\ Patient \in BOOLEAN

\* What the page told the user after a failure: the change, and what had failed.
Promises == [method : Methods, cause : {"network", "server"}]

Calls == [id : 1..MaxCalls, kind : {"click", "replay", "orphan"}, phase : {"sent", "served"},
          session : Sessions, method : Methods, user : Users, by : Users]

VARIABLES
    user,       \* the account signed in, or None
    page,       \* where the handlers of the last signin-change are
    saved,      \* template: the sessions shown as bookmarked
    schedule,   \* the bookmarks the backend stores, per user
    queue,      \* shed-offline-session-updates: an entry or None, per session
    failing,    \* changes on their way into the queue, in the order they failed
    calls,      \* PUT and DELETE requests that were sent and not yet answered
    loads,      \* answers of GET api/v1/user/schedule not yet shown
    early,      \* history: sessions whose replays a failed one left behind
    clearing,   \* whether deleteDatabase() has been called and is not over
    owed,       \* history: the change the user was told will be retried
    clicks, faults, visits

vars == <<user, page, saved, schedule, queue, failing, calls, loads, early, clearing, owed,
          clicks, faults, visits>>

\* The bookmarks after one request of the given method.
Apply(bookmarks, s, method) ==
    IF method = "PUT" THEN bookmarks \union {s} ELSE bookmarks \ {s}

NoEntries == [s \in Sessions |-> None]

Init ==
    /\ user = None /\ page = "out" /\ saved = {}
    /\ schedule \in [Users -> SUBSET Sessions]
    /\ queue = NoEntries /\ failing = <<>> /\ calls = {} /\ loads = {} /\ clearing = FALSE
    /\ early = {} /\ owed = NoEntries /\ clicks = 0 /\ faults = 0 /\ visits = 0

Replays == {c \in calls : c.kind = "replay"}

\* Nothing the page or the worker started is still on its way.
Quiet == calls = {} /\ failing = <<>> /\ loads = {}

Busy(s) == \E c \in calls : c.session = s

FreeId == CHOOSE i \in 1..MaxCalls : \A c \in calls : c.id # i

-----------------------------------------------------------------------------
(* The user. *)

(***************************************************************************)
(* toggleSaveSession: the request is the opposite of what the page shows,  *)
(* and what it shows changes only when the request has succeeded.  A       *)
(* patient user waits for the page, and for the previous request for the   *)
(* same session.                                                           *)
(***************************************************************************)
ToggleSaveSession(s) ==
    /\ user # None /\ clicks < MaxClicks /\ Cardinality(calls) < MaxCalls
    /\ Patient => page = "ready" /\ ~Busy(s)
    /\ calls' = calls \union
          {[id |-> FreeId, kind |-> "click", phase |-> "sent", session |-> s,
            method |-> IF s \in saved THEN "DELETE" ELSE "PUT", user |-> user, by |-> user]}
    /\ clicks' = clicks + 1
    /\ UNCHANGED <<user, page, saved, schedule, queue, failing, loads, early, clearing, owed,
                   faults, visits>>

(***************************************************************************)
(* signin-change with a user, when the user signs in or a page is loaded   *)
(* with the user signed in: replayQueuedRequests() begins by opening the   *)
(* database.                                                               *)
(***************************************************************************)
SignIn(u) ==
    /\ user = None /\ visits < MaxVisits
    /\ user' = u /\ page' = "opening" /\ visits' = visits + 1
    /\ UNCHANGED <<saved, schedule, queue, failing, calls, loads, early, clearing, owed,
                   clicks, faults>>

(***************************************************************************)
(* The page is loaded again.  Its requests lose their listeners, but the   *)
(* worker, which made the fetch, still waits for it.                       *)
(***************************************************************************)
Reload ==
    /\ user # None /\ visits < MaxVisits
    /\ Patient => Quiet
    /\ page' = "opening" /\ saved' = {} /\ loads' = {} /\ visits' = visits + 1
    /\ calls' = {[c EXCEPT !.kind = "orphan"] : c \in calls}
    /\ UNCHANGED <<user, schedule, queue, failing, early, clearing, owed, clicks, faults>>

\* Variant: the handler leaves the database alone.
SignOutKeepsQueue ==
    /\ user # None
    /\ Patient => Quiet
    /\ user' = None /\ page' = "out" /\ saved' = {}
    /\ owed' = NoEntries
    /\ UNCHANGED <<schedule, queue, failing, calls, loads, early, clearing, clicks, faults, visits>>

\* Variant: what the sign-in started goes on without a user.
SignOutGoesOn ==
    /\ user # None
    /\ Patient => Quiet
    /\ user' = None /\ saved' = {} /\ clearing' = TRUE
    /\ owed' = NoEntries
    /\ UNCHANGED <<page, schedule, queue, failing, calls, loads, early, clicks, faults, visits>>

(***************************************************************************)
(* signin-change without a user: clearUserSchedule() and                   *)
(* clearQueuedRequests(), which asks for the database to be deleted.       *)
(***************************************************************************)
SignOut ==
    /\ user # None
    /\ Patient => Quiet
    /\ user' = None /\ page' = "out" /\ saved' = {} /\ clearing' = TRUE
    /\ owed' = NoEntries
    /\ UNCHANGED <<schedule, queue, failing, calls, loads, early, clicks, faults, visits>>

-----------------------------------------------------------------------------
(* IndexedDB. *)

(***************************************************************************)
(* The database is deleted once no connection to it is open: a replay      *)
(* keeps its connection until its last request is answered.  Whoever opens *)
(* the database meanwhile waits.                                           *)
(***************************************************************************)
ClearQueuedRequests ==
    /\ clearing /\ Replays = {}
    /\ queue' = NoEntries /\ clearing' = FALSE
    /\ UNCHANGED <<user, page, saved, schedule, failing, calls, loads, early, owed,
                   clicks, faults, visits>>

(***************************************************************************)
(* queueFailedSessionUpdateRequest: open, then set; the last one wins.     *)
(***************************************************************************)
QueueFailedRequest ==
    /\ failing # <<>> /\ ~clearing
    /\ LET f == Head(failing)
       IN  queue' = [queue EXCEPT ![f.session] = [method |-> f.method, by |-> f.by]]
    /\ failing' = Tail(failing)
    /\ UNCHANGED <<user, page, saved, schedule, calls, loads, early, clearing, owed,
                   clicks, faults, visits>>

Queued == {s \in Sessions : queue[s] # None}

\* The requests of a replay: as many new identities as there are entries.
ReplayCalls ==
    LET id == CHOOSE f \in [Queued -> 1..MaxCalls] :
                 /\ \A s \in Queued : \A c \in calls : c.id # f[s]
                 /\ \A s, t \in Queued : f[s] = f[t] => s = t
    IN  {[id |-> id[s], kind |-> "replay", phase |-> "sent", session |-> s,
          method |-> queue[s].method, user |-> user, by |-> queue[s].by] : s \in Queued}

\* Variant: the schedule is loaded without waiting for the replays.
ReplayInParallel ==
    /\ page = "opening" /\ ~clearing
    /\ Cardinality(calls) + Cardinality(Queued) <= MaxCalls
    /\ calls' = calls \union ReplayCalls /\ early' = {}
    /\ page' = "loading"
    /\ UNCHANGED <<user, saved, schedule, queue, failing, loads, clearing, owed,
                   clicks, faults, visits>>

(***************************************************************************)
(* replayQueuedRequests, once the database is open: one request for each   *)
(* entry, with the token of the user who is signed in now.                 *)
(***************************************************************************)
ReplayQueuedRequests ==
    /\ page = "opening" /\ ~clearing
    /\ Cardinality(calls) + Cardinality(Queued) <= MaxCalls
    /\ calls' = calls \union ReplayCalls /\ early' = {}
    /\ page' = IF Queued = {} THEN "loading" ELSE "replaying"
    /\ UNCHANGED <<user, saved, schedule, queue, failing, loads, clearing, owed,
                   clicks, faults, visits>>

-----------------------------------------------------------------------------
(* The requests. *)

Promised(s, method) == owed[s] # None /\ owed[s].method = method

(***************************************************************************)
(* The backend stores the change.  It settles what the user was promised   *)
(* when it is that change, or one the user has made since.                 *)
(***************************************************************************)
Serve(c) ==
    /\ c \in calls /\ c.phase = "sent"
    /\ schedule' = [schedule EXCEPT ![c.user] = Apply(@, c.session, c.method)]
    /\ calls' = (calls \ {c}) \union {[c EXCEPT !.phase = "served"]}
    /\ owed' = IF c.user = user /\ (c.kind = "click" \/ Promised(c.session, c.method))
               THEN [owed EXCEPT ![c.session] = None] ELSE owed
    /\ UNCHANGED <<user, page, saved, queue, failing, loads, early, clearing,
                   clicks, faults, visits>>

\* Promise.all in replayQueuedRequests: over when every replay has succeeded,
\* and at once when one is rejected.
AfterReplay(rejected) ==
    IF page = "replaying" /\ (rejected \/ Replays' = {}) THEN "loading" ELSE page

\* What is then still in flight.
Early(c) ==
    IF c.kind = "replay" /\ page = "replaying" THEN {d.session : d \in Replays \ {c}} ELSE early

\* The entry the replay was made from is deleted by its URL.
AfterSuccess(c) ==
    IF c.kind = "replay" THEN [queue EXCEPT ![c.session] = None] ELSE queue

(***************************************************************************)
(* The answer arrives: a click changes what the page shows, a replay       *)
(* deletes the entry.                                                      *)
(***************************************************************************)
Succeed(c) ==
    /\ c \in calls /\ c.phase = "served"
    /\ calls' = calls \ {c}
    /\ queue' = AfterSuccess(c)
    /\ saved' = IF c.kind = "click" THEN Apply(saved, c.session, c.method) ELSE saved
    /\ page' = IF c.kind = "replay" THEN AfterReplay(FALSE) ELSE page
    /\ UNCHANGED <<user, schedule, failing, loads, early, clearing, owed, clicks, faults, visits>>

\* submitSessionRequest's catch: xhr.onerror makes the page promise a retry.
Promise(c, cause) ==
    IF c.kind = "click" /\ c.user = user
    THEN [owed EXCEPT ![c.session] = [method |-> c.method, cause |-> cause]] ELSE owed

\* The .catch() of handleSessionUpdateRequest.
Keep(c) == Append(failing, [session |-> c.session, method |-> c.method, by |-> c.by])

(***************************************************************************)
(* The network fails, before or after the backend stored the change: the   *)
(* fetch rejects and the worker keeps the request, a replay too.           *)
(***************************************************************************)
NetworkError(c) ==
    /\ c \in calls /\ faults < MaxFaults
    /\ calls' = calls \ {c} /\ faults' = faults + 1
    /\ failing' = Keep(c)
    /\ owed' = Promise(c, "network")
    /\ page' = IF c.kind = "replay" THEN AfterReplay(TRUE) ELSE page
    /\ early' = Early(c)
    /\ UNCHANGED <<user, saved, schedule, queue, loads, clearing, clicks, visits>>

(***************************************************************************)
(* The backend answers 5xx: the handler returns Response.error(), which    *)
(* fulfils the promise.  The page sees a network error; nothing is kept.   *)
(***************************************************************************)
ServerError(c) ==
    /\ c \in calls /\ c.phase = "sent" /\ faults < MaxFaults
    /\ calls' = calls \ {c} /\ faults' = faults + 1
    /\ owed' = Promise(c, "server")
    /\ page' = IF c.kind = "replay" THEN AfterReplay(TRUE) ELSE page
    /\ early' = Early(c)
    /\ UNCHANGED <<user, saved, schedule, queue, failing, loads, clearing, clicks, visits>>

\* Variant: a replay deletes its entry whatever the answer is.
ClientErrorForgets(c) ==
    /\ c \in calls /\ c.phase = "sent" /\ faults < MaxFaults
    /\ calls' = calls \ {c} /\ faults' = faults + 1
    /\ queue' = AfterSuccess(c)
    /\ page' = IF c.kind = "replay" THEN AfterReplay(TRUE) ELSE page
    /\ early' = Early(c)
    /\ UNCHANGED <<user, saved, schedule, failing, loads, clearing, owed, clicks, visits>>

(***************************************************************************)
(* The backend answers 4xx, for instance because the token has expired:    *)
(* nothing is kept and nothing is promised; an entry stays where it is.    *)
(***************************************************************************)
ClientError(c) ==
    /\ c \in calls /\ c.phase = "sent" /\ faults < MaxFaults
    /\ calls' = calls \ {c} /\ faults' = faults + 1
    /\ page' = IF c.kind = "replay" THEN AfterReplay(TRUE) ELSE page
    /\ early' = Early(c)
    /\ UNCHANGED <<user, saved, schedule, queue, failing, loads, clearing, owed,
                   clicks, visits>>

(***************************************************************************)
(* loadUserSchedule after the replay: what the backend stores when it      *)
(* answers, shown in a later step.                                         *)
(***************************************************************************)
LoadUserSchedule ==
    /\ page = "loading"
    /\ loads' = loads \union {schedule[user]}
    /\ page' = "fetching"
    /\ UNCHANGED <<user, saved, schedule, queue, failing, calls, early, clearing, owed,
                   clicks, faults, visits>>

UpdateSavedSessionsUI ==
    \E answer \in loads :
       /\ saved' = answer /\ loads' = loads \ {answer}
       /\ page' = IF page = "fetching" THEN "ready" ELSE page
       /\ UNCHANGED <<user, schedule, queue, failing, calls, early, clearing, owed,
                      clicks, faults, visits>>

-----------------------------------------------------------------------------
Next ==
    \/ \E s \in Sessions : ToggleSaveSession(s)
    \/ \E u \in Users : SignIn(u)
    \/ Reload \/ SignOut
    \/ ClearQueuedRequests \/ QueueFailedRequest \/ ReplayQueuedRequests
    \/ \E c \in calls : \/ Serve(c) \/ Succeed(c)
                        \/ NetworkError(c) \/ ServerError(c) \/ ClientError(c)
    \/ LoadUserSchedule \/ UpdateSavedSessionsUI

Spec == Init /\ [][Next]_vars

-----------------------------------------------------------------------------
(***************************************************************************)
(* Type invariant.                                                         *)
(***************************************************************************)
TypeOK ==
    /\ user \in Users \union {None} /\ (user = None <=> page = "out")
    /\ page \in {"out", "opening", "replaying", "loading", "fetching", "ready"}
    /\ saved \subseteq Sessions /\ loads \subseteq SUBSET Sessions /\ early \subseteq Sessions
    /\ schedule \in [Users -> SUBSET Sessions]
    /\ queue \in [Sessions -> Entries \union {None}]
    /\ failing \in Seq([session : Sessions, method : Methods, by : Users])
    /\ calls \subseteq Calls /\ \A c, d \in calls : c.id = d.id => c = d
    /\ clearing \in BOOLEAN /\ owed \in [Sessions -> Promises \union {None}]
    /\ clicks \in 0..MaxClicks /\ faults \in 0..MaxFaults /\ visits \in 0..MaxVisits

(***************************************************************************)
(* A change that failed in the network, and of which the page therefore    *)
(* said that it "will be retried on your next visit", is not lost: the     *)
(* backend stores it already, or the queue has it, or it is on its way     *)
(* into the queue or to the backend (submitSessionRequest,                 *)
(* handleSessionUpdateRequest, replayQueuedRequests).                      *)
(***************************************************************************)
OnItsWay(s, method) ==
    \/ \E i \in 1..Len(failing) : failing[i].session = s /\ failing[i].method = method
    \/ \E c \in calls : c.session = s /\ c.method = method

Kept(s, method) ==
    \/ (s \in schedule[user]) = (method = "PUT")
    \/ queue[s] # None /\ queue[s].method = method
    \/ OnItsWay(s, method)

RetryKept ==
    \A s \in Sessions :
       owed[s] # None /\ owed[s].cause = "network" => Kept(s, owed[s].method)

(***************************************************************************)
(* The same of every change for which the page said so, whatever failed:   *)
(* the comment in handleSessionUpdateRequest says that a 5xx answer is     *)
(* turned into a rejection and so into a queued request.                   *)
(***************************************************************************)
ErrorsKept == \A s \in Sessions : owed[s] # None => Kept(s, owed[s].method)

(***************************************************************************)
(* Changes of one user never reach the backend with the token of another:  *)
(* the queue is deleted on sign-out, before anyone replays it              *)
(* (the signin-change handlers of auth.js and bootstrap.js).               *)
(***************************************************************************)
OwnChanges == \A c \in calls : c.by = c.user

(***************************************************************************)
(* Once the page has shown the user's schedule, a session on which nothing *)
(* is outstanding is shown the way the backend stores it, or the change in *)
(* question is in the queue or about to be (toggleSaveSession,             *)
(* replayQueuedRequests, loadUserSchedule).  Excepted are the sessions in  *)
(* "early": Promise.all gives up at the first replay that fails, and those *)
(* still in flight then reach the backend after the page asked it.         *)
(***************************************************************************)
ShownOrQueued ==
    page = "ready" =>
       \A s \in Sessions \ early :
          ~Busy(s) => \/ s \in saved <=> s \in schedule[user]
                      \/ queue[s] # None
                      \/ \E i \in 1..Len(failing) : failing[i].session = s

=============================================================================
