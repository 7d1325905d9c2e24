--------------------------- MODULE CacheThenNetwork ---------------------------
(***************************************************************************)
(* The user's bookmarks and ratings on their way to the page.  A load      *)
(* sends two requests (cacheThenNetwork of helper/request.js): the service *)
(* worker answers one from its cache and the other from the network, whose *)
(* answer it also puts in the cache (shed/cache-then-network.js).  The     *)
(* page keeps what it got in memory (helper/schedule.js); a sign-out       *)
(* clears the display, the memory and the cache, each in its own way.      *)
(***************************************************************************)
EXTENDS Naturals

CONSTANTS
    Accounts, Nobody,
    Resources, Cleared,     \* what is loaded, and what clearUserSchedule clears of it
    MaxLoads,       \* bound: loads at one time
    MaxVersion,     \* bound: changes of a user's data
    MaxSignIns,     \* bound
    MaxFaults       \* bound: requests the network does not answer

ASSUME CacheThenNetworkAssumption ==
    /\ Nobody \notin Accounts /\ Cleared \subseteq Resources
    /\ {MaxLoads, MaxVersion, MaxSignIns, MaxFaults} \subseteq Nat

\* A response is whose data, and how recent.  An empty list is no data to the page.
Nothing == [of |-> Nobody, version |-> 0]

VARIABLES
    account,       \* the account signed in, or Nobody
    stored,     \* backend: the version of each user's data
    cached,     \* the worker's cache
    memory,     \* `cache` of helper/schedule.js
    shown,      \* what the template was given last
    due,        \* loads that a sign-in has scheduled
    load,       \* what each load has in hand
    wiping,     \* 'clear-cached-user-data' has not been handled
    hasty,      \* history: a user left, or came, while data was on its way
    signIns, faults

ctnVars == <<account, stored, cached, memory, shown, due, load, wiping, hasty, signIns, faults>>

Ended == [of |-> Nobody, resource |-> CHOOSE r \in Resources : TRUE,
          cache |-> "done", hit |-> Nothing, got |-> Nothing,
          net |-> "done", answer |-> Nothing, put |-> FALSE, pending |-> FALSE]
Active(l) == load[l] # Ended

CacheThenNetworkInit ==
    /\ account = Nobody /\ stored = [u \in Accounts |-> 1]
    /\ cached = [r \in Resources |-> Nothing]
    /\ memory = [r \in Resources |-> Nothing] /\ shown = memory
    /\ due = [r \in Resources |-> 0] /\ load = [l \in 1..MaxLoads |-> Ended]
    /\ wiping = FALSE /\ hasty = FALSE /\ signIns = 0 /\ faults = 0

\* A load is over when both requests are, and the worker has put the answer away.
Advance(l, x) ==
    load' = [load EXCEPT ![l] = IF x.cache = "done" /\ x.net = "done" /\ ~x.put THEN Ended ELSE x]

-----------------------------------------------------------------------------
\* Once queued requests are replayed, loadUserSchedule loads every resource.
LoadUserSchedule(u) ==
    /\ account = Nobody /\ signIns < MaxSignIns
    /\ account' = u /\ due' = [r \in Resources |-> due[r] + 1] /\ signIns' = signIns + 1
    /\ hasty' = (hasty \/ wiping)
    /\ UNCHANGED <<stored, cached, memory, shown, load, wiping, faults>>

\* clearUserSchedule, and the message to the worker.
ClearUserSchedule ==
    /\ account # Nobody /\ account' = Nobody /\ wiping' = TRUE
    /\ shown' = [r \in Resources |-> IF r \in Cleared THEN Nothing ELSE shown[r]]
    /\ memory' = [r \in Resources |-> IF r \in Cleared THEN Nothing ELSE memory[r]]
    /\ hasty' = (hasty \/ \E l \in DOMAIN load : Active(l))
    /\ UNCHANGED <<stored, cached, due, load, signIns, faults>>

\* Variant: the worker takes user data for something else.
WipeNothing ==
    /\ wiping /\ wiping' = FALSE
    /\ UNCHANGED <<account, stored, cached, memory, shown, due, load, hasty, signIns, faults>>

Wipe ==
    /\ wiping /\ wiping' = FALSE /\ cached' = [r \in Resources |-> Nothing]
    /\ UNCHANGED <<account, stored, memory, shown, due, load, hasty, signIns, faults>>

\* The user's data changes, here or in another browser.
Change(u) ==
    /\ stored[u] < MaxVersion /\ stored' = [stored EXCEPT ![u] = @ + 1]
    /\ UNCHANGED <<account, cached, memory, shown, due, load, wiping, hasty, signIns, faults>>

\* The bookmark was changed by this page: what memory has of it is out of date.
ClearCachedUserSchedule ==
    /\ account # Nobody /\ stored[account] < MaxVersion
    /\ stored' = [stored EXCEPT ![account] = @ + 1]
    /\ memory' = [r \in Resources |-> IF r \in Cleared THEN Nothing ELSE memory[r]]
    /\ UNCHANGED <<account, cached, shown, due, load, wiping, hasty, signIns, faults>>

-----------------------------------------------------------------------------
(* fetchResource and cacheThenNetwork.                                     *)

FetchResource(r) ==
    /\ due[r] > 0 /\ due' = [due EXCEPT ![r] = @ - 1]
    /\ UNCHANGED <<account, stored, cached, wiping, signIns, faults>>
    /\ \/ memory[r] # Nothing
          /\ shown' = [shown EXCEPT ![r] = memory[r]] /\ UNCHANGED <<memory, load, hasty>>
       \/ memory[r] = Nothing /\ account = Nobody
          /\ shown' = [shown EXCEPT ![r] = Nothing] /\ UNCHANGED <<memory, load, hasty>>
       \/ /\ memory[r] = Nothing /\ account # Nobody
          /\ \E l \in DOMAIN load :
               /\ ~Active(l)
               /\ load' = [load EXCEPT ![l] = [Ended EXCEPT
                     !.of = account, !.resource = r, !.cache = "sent", !.net = "sent", !.pending = TRUE]]
          /\ hasty' = (hasty \/ \E l \in DOMAIN load : Active(l) /\ load[l].resource = r)
          /\ UNCHANGED <<memory, shown>>

\* X-Cache-Only: true; nothing cached is 204.
CacheOnly(l) ==
    /\ load[l].cache = "sent"
    /\ Advance(l, [load[l] EXCEPT !.cache = "hit", !.hit = cached[load[l].resource]])
    /\ UNCHANGED <<account, stored, cached, memory, shown, due, wiping, hasty, signIns, faults>>

\* Variant: the page does not look whether the fresh content has come.
ShowCachedAnyway(l) ==
    LET x == load[l]
    IN  /\ x.cache = "hit"
        /\ IF x.hit # Nothing
           THEN /\ Advance(l, [x EXCEPT !.cache = "done", !.got = x.hit])
                /\ shown' = [shown EXCEPT ![x.resource] = x.hit]
           ELSE Advance(l, [x EXCEPT !.cache = "done"]) /\ UNCHANGED shown
        /\ UNCHANGED <<account, stored, cached, memory, due, wiping, hasty, signIns, faults>>

CachedContent(l) ==
    LET x == load[l]
    IN  /\ x.cache = "hit"
        /\ IF x.pending /\ x.hit # Nothing
           THEN /\ Advance(l, [x EXCEPT !.cache = "done", !.got = x.hit])
                /\ shown' = [shown EXCEPT ![x.resource] = x.hit]
           ELSE Advance(l, [x EXCEPT !.cache = "done"]) /\ UNCHANGED shown
        /\ UNCHANGED <<account, stored, cached, memory, due, wiping, hasty, signIns, faults>>

\* networkFirst of shed: the network, or else what is cached, or else a failure.
NetworkFirst(l) ==
    /\ load[l].net = "sent"
    /\ \/ /\ Advance(l, [load[l] EXCEPT !.net = "answered", !.put = TRUE,
                       !.answer = [of |-> load[l].of, version |-> stored[load[l].of]]])
          /\ UNCHANGED faults
       \/ /\ faults < MaxFaults /\ faults' = faults + 1
          /\ Advance(l, [load[l] EXCEPT !.answer = cached[load[l].resource],
                       !.net = IF cached[load[l].resource] = Nothing THEN "done" ELSE "answered"])
    /\ UNCHANGED <<account, stored, cached, memory, shown, due, wiping, hasty, signIns>>

\* The worker does not wait for the cache before it answers.
PutInCache(l) ==
    /\ load[l].put
    /\ cached' = [cached EXCEPT ![load[l].resource] = load[l].answer]
    /\ Advance(l, [load[l] EXCEPT !.put = FALSE])
    /\ UNCHANGED <<account, stored, memory, shown, due, wiping, hasty, signIns, faults>>

\* freshXhr.onload: what equals the cached response is not handled again.
FreshContent(l) ==
    LET x == load[l]
    IN  /\ x.net = "answered"
        /\ IF x.answer # x.got
           THEN /\ Advance(l, [x EXCEPT !.net = "done", !.pending = FALSE])
                /\ memory' = [memory EXCEPT ![x.resource] = x.answer]
                /\ shown' = [shown EXCEPT ![x.resource] = x.answer]
           ELSE Advance(l, [x EXCEPT !.net = "done"]) /\ UNCHANGED <<memory, shown>>
        /\ UNCHANGED <<account, stored, cached, due, wiping, hasty, signIns, faults>>

CacheThenNetworkNext ==
    \/ \E u \in Accounts : LoadUserSchedule(u) \/ Change(u)
    \/ ClearUserSchedule \/ Wipe \/ ClearCachedUserSchedule
    \/ \E r \in Resources : FetchResource(r)
    \/ \E l \in DOMAIN load :
         CacheOnly(l) \/ CachedContent(l) \/ NetworkFirst(l) \/ PutInCache(l) \/ FreshContent(l)

CacheThenNetworkSpec == CacheThenNetworkInit /\ [][CacheThenNetworkNext]_ctnVars

-----------------------------------------------------------------------------
(***************************************************************************)
(* Whatever answers first or not at all, the page never goes back to older *)
(* data of the same user once it has shown newer, unless two loads of one  *)
(* resource overlapped ("we don't want to overwrite it", request.js).      *)
(***************************************************************************)
ShownNeverOlder ==
    [][\A r \in Resources :
          (shown'[r].of = shown[r].of /\ ~hasty') => shown'[r].version >= shown[r].version]_ctnVars

(***************************************************************************)
(* Where users do not follow each other while data is on its way, the      *)
(* bookmarks on display, in memory and, once wiped, in the worker's cache  *)
(* are of the user signed in, or nobody's.                                 *)
(***************************************************************************)
OwnBookmarks ==
    ~hasty => \A r \in Cleared :
        /\ shown[r].of \in {Nobody, account} /\ memory[r].of \in {Nobody, account}
        /\ wiping \/ cached[r].of \in {Nobody, account}
=============================================================================
