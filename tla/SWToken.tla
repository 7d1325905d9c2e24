------------------------------- MODULE SWToken -------------------------------
(***************************************************************************)
(* What one browser keeps for the push notifications of its user: the SW   *)
(* token in IndexedDB and the push subscription, which the backend must    *)
(* have registered for the same user.  Page and service worker change them *)
(* in chains of promises that do not know of each other: at a sign-in      *)
(* (helper/auth.js, bootstrap.js), at a sign-out, when the user turns      *)
(* notifications on or off (helper/elements.js, helper/schedule.js), and   *)
(* at every push event (shed/push-notifications.js).                       *)
(***************************************************************************)
EXTENDS Naturals

CONSTANTS
    Users, None,
    PerKind,        \* bound: chains of one kind at a time
    MaxEvents,      \* bound: what users and the push service do
    MaxRejects       \* bound: promises that reject

ASSUME SWTokenAssumption ==
    None \notin Users /\ PerKind \in Nat \ {0} /\ MaxEvents \in Nat /\ MaxRejects \in Nat

\* The promises of each chain, in order.
Steps == [ensure   |-> {"look", "ask", "store"},
          enroll   |-> {"notify", "existing", "subscribe", "enable"},
          turnOn   |-> {"subscribe", "enable"},
          turnOff  |-> {"unsubscribe", "disable"},
          leave    |-> {"unsubscribe", "clear"},
          push     |-> {"load", "fetch", "save"}]
Chains == (DOMAIN Steps) \X (1..PerKind)

\* Endpoints are numbered; 0 is none.
Endpoints == 1..MaxEvents
Done == [at |-> "done", of |-> None, endpoint |-> 0]

VARIABLES
    user,           \* the account signed in, or None
    token,          \* IndexedDB: whose SW token is kept
    subscription,   \* the browser's push subscription
    issued,         \* endpoints handed out so far
    registered,     \* backend: endpoints of each user
    notify,         \* backend: users with notifications on
    chain,          \* where each chain is, and what it has in hand
    crossed,        \* history: a chain that takes something back met another one
    events, rejects

swVars == <<user, token, subscription, issued, registered, notify, chain, crossed, events, rejects>>

SWTokenInit ==
    /\ user = None /\ token = None /\ subscription = 0 /\ issued = 0
    /\ registered = [u \in Users |-> {}] /\ notify \in SUBSET Users
    /\ chain = [c \in Chains |-> Done]
    /\ crossed = FALSE /\ events = 0 /\ rejects = 0

Running(ch) == {c \in Chains : ch[c].at # "done"}
Quiet == Running(chain) = {}

\* A sign-out, or turning notifications off, while another chain has not ended.
Crossing(ch) == \E c, d \in Running(ch) : c # d /\ c[1] \in {"leave", "turnOff"}

Set(ch) == chain' = ch /\ crossed' = (crossed \/ Crossing(ch))
Go(c, at) == Set([chain EXCEPT ![c].at = at])
End(c) == Set([chain EXCEPT ![c] = Done])

\* An event starts one chain of each of the kinds.
Start(first) ==
    /\ events < MaxEvents /\ events' = events + 1
    /\ \E n \in [DOMAIN first -> 1..PerKind] :
         /\ \A k \in DOMAIN first : chain[<<k, n[k]>>] = Done
         /\ Set([c \in Chains |-> IF c[1] \in DOMAIN first /\ c[2] = n[c[1]]
                                  THEN [Done EXCEPT !.at = first[c[1]]] ELSE chain[c]])

-----------------------------------------------------------------------------
(* signin-change, a page load, the settings and a push message.            *)

SignIn(u) ==
    /\ user = None /\ user' = u /\ Start([ensure |-> "look", enroll |-> "notify"])
    /\ UNCHANGED <<token, subscription, issued, registered, notify, rejects>>

SignOut ==
    /\ user # None /\ user' = None /\ Start([leave |-> "unsubscribe"])
    /\ UNCHANGED <<token, subscription, issued, registered, notify, rejects>>

\* updateNotifyUser, and the bookmark that subscribes on its own.
TurnOn ==
    /\ user # None /\ Start([turnOn |-> "subscribe"])
    /\ UNCHANGED <<user, token, subscription, issued, registered, notify, rejects>>
TurnOff ==
    /\ user # None /\ Start([turnOff |-> "unsubscribe"])
    /\ UNCHANGED <<user, token, subscription, issued, registered, notify, rejects>>

PushEvent ==
    /\ subscription # 0 /\ Start([push |-> "load"])
    /\ UNCHANGED <<user, token, subscription, issued, registered, notify, rejects>>

-----------------------------------------------------------------------------
(* ensureSWToken_ and clearSWToken_.                                       *)

LookForToken(c) ==
    /\ chain[c].at = "look" /\ IF token = None THEN Go(c, "ask") ELSE End(c)
    /\ UNCHANGED <<user, token, subscription, issued, registered, notify, events, rejects>>

\* xhrPromise sends the request for whoever is signed in now.
AskForToken(c) ==
    /\ chain[c].at = "ask"
    /\ IF user = None THEN End(c)
       ELSE Set([chain EXCEPT ![c] = [@ EXCEPT !.at = "store", !.of = user]])
    /\ UNCHANGED <<user, token, subscription, issued, registered, notify, events, rejects>>

StoreToken(c) ==
    /\ chain[c].at = "store" /\ token' = chain[c].of /\ End(c)
    /\ UNCHANGED <<user, subscription, issued, registered, notify, events, rejects>>

\* Variant: the token stays, as when the user turns notifications off.
KeepToken(c) ==
    /\ chain[c].at = "clear" /\ End(c)
    /\ UNCHANGED <<user, token, subscription, issued, registered, notify, events, rejects>>

ClearToken(c) ==
    /\ chain[c].at = "clear" /\ token' = None /\ End(c)
    /\ UNCHANGED <<user, subscription, issued, registered, notify, events, rejects>>

\* The push event: loadToken, then fetchUpdates with what was loaded.
LoadToken(c) ==
    /\ chain[c].at = "load"
    /\ IF token = None THEN End(c)
       ELSE Set([chain EXCEPT ![c] = [@ EXCEPT !.at = "fetch", !.of = token]])
    /\ UNCHANGED <<user, token, subscription, issued, registered, notify, events, rejects>>
FetchUpdates(c) ==
    /\ chain[c].at = "fetch" /\ (Go(c, "save") \/ End(c))
    /\ UNCHANGED <<user, token, subscription, issued, registered, notify, events, rejects>>

\* The next token of the same user, whatever is kept by now.
SaveToken(c) ==
    /\ chain[c].at = "save" /\ token' = chain[c].of /\ End(c)
    /\ UNCHANGED <<user, subscription, issued, registered, notify, events, rejects>>

-----------------------------------------------------------------------------
(* helper/notifications.js.                                                *)

\* isNotifyEnabledPromise: the user has notifications on in some browser.
IsNotifyEnabled(c) ==
    /\ chain[c].at = "notify" /\ IF user \in notify THEN Go(c, "existing") ELSE End(c)
    /\ UNCHANGED <<user, token, subscription, issued, registered, notify, events, rejects>>

IsExistingSubscription(c) ==
    /\ chain[c].at = "existing" /\ IF subscription # 0 THEN End(c) ELSE Go(c, "subscribe")
    /\ UNCHANGED <<user, token, subscription, issued, registered, notify, events, rejects>>

\* subscribePromise: the browser gives the subscription it has, or a new one.
Subscribe(c) ==
    /\ chain[c].at = "subscribe"
    /\ IF subscription # 0 THEN UNCHANGED <<subscription, issued>>
       ELSE issued < MaxEvents /\ issued' = issued + 1 /\ subscription' = issued'
    /\ Set([chain EXCEPT ![c] = [@ EXCEPT !.at = "enable", !.endpoint = subscription']])
    /\ UNCHANGED <<user, token, registered, notify, events, rejects>>

\* PUT api/v2/user/notify with the endpoint, for whoever is signed in now.
EnableNotifications(c) ==
    /\ chain[c].at = "enable" /\ End(c)
    /\ IF user = None THEN UNCHANGED <<registered, notify>>
       ELSE /\ registered' = [registered EXCEPT ![user] = @ \union {chain[c].endpoint}]
            /\ notify' = notify \union {user}
    /\ UNCHANGED <<user, token, subscription, issued, events, rejects>>

Unsubscribe(c) ==
    /\ chain[c].at = "unsubscribe" /\ subscription' = 0
    /\ Go(c, IF c[1] = "leave" THEN "clear" ELSE "disable")
    /\ UNCHANGED <<user, token, issued, registered, notify, events, rejects>>

DisableNotifications(c) ==
    /\ chain[c].at = "disable" /\ notify' = notify \ {user} /\ End(c)
    /\ UNCHANGED <<user, token, subscription, issued, registered, events, rejects>>

-----------------------------------------------------------------------------
\* A promise rejects: the rest of its chain does not run.
Reject(c) ==
    /\ chain[c].at # "done" /\ rejects < MaxRejects /\ rejects' = rejects + 1 /\ End(c)
    /\ UNCHANGED <<user, token, subscription, issued, registered, notify, events>>

\* The page is loaded again: its chains are cut off, the worker's are not, and the user
\* who was signed in is signed in again.
Reload ==
    /\ user # None /\ events < MaxEvents /\ events' = events + 1
    /\ crossed' = (crossed \/ \E c \in Running(chain) : chain[c].at \in {"enable", "unsubscribe", "disable", "clear"})
    /\ chain' = [c \in Chains |->
                   CASE c[1] = "push" -> chain[c]
                     [] c = <<"ensure", 1>> -> [Done EXCEPT !.at = "look"]
                     [] c = <<"enroll", 1>> -> [Done EXCEPT !.at = "notify"]
                     [] OTHER -> Done]
    /\ UNCHANGED <<user, token, subscription, issued, registered, notify, rejects>>

SWTokenNext ==
    \/ \E u \in Users : SignIn(u)
    \/ SignOut \/ TurnOn \/ TurnOff \/ PushEvent \/ Reload
    \/ \E c \in Chains :
         \/ LookForToken(c) \/ AskForToken(c) \/ StoreToken(c) \/ ClearToken(c)
         \/ LoadToken(c) \/ FetchUpdates(c) \/ SaveToken(c)
         \/ IsNotifyEnabled(c) \/ IsExistingSubscription(c) \/ Subscribe(c)
         \/ EnableNotifications(c) \/ Unsubscribe(c) \/ DisableNotifications(c) \/ Reject(c)

SWTokenSpec == SWTokenInit /\ [][SWTokenNext]_swVars

-----------------------------------------------------------------------------
(***************************************************************************)
(* "The SW token is associated with the currently logged in user"          *)
(* (helper/auth.js): once no chain is running, no token of anybody else is *)
(* kept.                                                                   *)
(***************************************************************************)
TokenIsOfUser == Quiet => token \in {None, user}

(***************************************************************************)
(* Unless something was taken back while another chain ran, the browser    *)
(* ends up serving exactly its user: the token is the user's, and the      *)
(* browser is subscribed, under an endpoint the backend has for that user, *)
(* if and only if the user is signed in and has notifications on.          *)
(***************************************************************************)
BrowserFollowsUser ==
    (Quiet /\ ~crossed /\ rejects = 0) =>
        /\ token = user
        /\ subscription # 0 <=> user \in notify
        /\ subscription # 0 => subscription \in registered[user]
=============================================================================
