-------------------------- MODULE BrowserUserProofs --------------------------
(***************************************************************************)
(* What the browser keeps for its user is the user's, and does not go back *)
(* in time: theorems about SWToken and CacheThenNetwork, for any users,    *)
(* resources, chains, loads, failures and orders of answers.               *)
(*                                                                         *)
(* CacheThenNetwork.  The page clears what it holds at the sign-out, the   *)
(* worker's cache some time later.  The invariant OwnInv says who may meet *)
(* the old cache in between: no load is active then, and every active load *)
(* belongs to the user signed in, with all that it has in hand.  FreshInv  *)
(* adds the order in time: memory and cache are not older than what is     *)
(* shown, but where a load has shown its answer before the worker has put  *)
(* it away, and what a load has in hand is not older than what it may come *)
(* to replace.                                                             *)
(*                                                                         *)
(* SWToken.  Where nothing that takes something back meets another chain,  *)
(* TokenInv says of each difference between the browser and its user which *)
(* chain will settle it.                                                   *)
(***************************************************************************)
EXTENDS SWToken, CacheThenNetwork, TLAPS

-----------------------------------------------------------------------------
(* CacheThenNetwork: whose data is shown, remembered and cached.           *)

Response == [of : Accounts \union {Nobody}, version : Nat]

LoadType ==
    [of : Accounts \union {Nobody}, resource : Resources \union {Ended.resource},
     cache : {"sent", "hit", "done"}, hit : Response, got : Response,
     net : {"sent", "answered", "done"}, answer : Response, put : BOOLEAN, pending : BOOLEAN]

Types ==
    /\ account \in Accounts \union {Nobody} /\ stored \in [Accounts -> Nat]
    /\ cached \in [Resources -> Response] /\ memory \in [Resources -> Response]
    /\ shown \in [Resources -> Response]
    /\ load \in [1..MaxLoads -> LoadType]

OfUser(x) == x.of \in {Nobody, account}

\* What a load has in hand is of the user it was sent for.
OwnLoad(x) ==
    /\ account # Nobody /\ x.of = account
    /\ OfUser(x.hit) /\ OfUser(x.got) /\ OfUser(x.answer)

\* Every load was sent for somebody, and for a resource.
Sent == \A l \in 1..MaxLoads : Active(l) => load[l].of \in Accounts /\ load[l].resource \in Resources

OwnLoads == ~hasty => \A l \in 1..MaxLoads : Active(l) => OwnLoad(load[l])

\* The cache is wiped before anybody signs in.
WipedFirst == ~hasty /\ wiping => account = Nobody

OwnCache == ~hasty => wiping \/ \A r \in Resources : OfUser(cached[r])

OwnPage == ~hasty => \A r \in Cleared : OfUser(shown[r]) /\ OfUser(memory[r])

OwnInv == Types /\ Sent /\ OwnLoads /\ WipedFirst /\ OwnCache /\ OwnPage

-----------------------------------------------------------------------------
LEMMA NothingIsResponse == Nothing \in Response /\ Nothing.of = Nobody
  BY DEF Nothing, Response

LEMMA EndedIsLoad == Ended \in LoadType
<1> DEFINE c == CHOOSE r \in Resources : TRUE
<1> HIDE DEF c
<1>1. Ended = [of |-> Nobody, resource |-> c,
          cache |-> "done", hit |-> Nothing, got |-> Nothing,
          net |-> "done", answer |-> Nothing, put |-> FALSE, pending |-> FALSE]
  BY DEF Ended, c
<1> QED  BY <1>1, NothingIsResponse DEF LoadType

LEMMA InitOwnInv == ASSUME Cleared \subseteq Resources, CacheThenNetworkInit PROVE OwnInv
<1>1. Types
  BY EndedIsLoad, NothingIsResponse DEF Types, CacheThenNetworkInit
<1>2. \A l \in 1..MaxLoads : ~Active(l)
  BY DEF Active, CacheThenNetworkInit
<1>3. OwnCache /\ OwnPage
  BY NothingIsResponse DEF OwnCache, OwnPage, OfUser, CacheThenNetworkInit
<1> QED
  BY <1>1, <1>2, <1>3 DEF OwnInv, Sent, OwnLoads, WipedFirst, CacheThenNetworkInit

\* A load that has anything to do is active.
LEMMA BusyIsActive ==
  ASSUME NEW l \in DOMAIN load,
         \/ load[l].cache # "done" \/ load[l].net # "done" \/ load[l].put
  PROVE  Active(l)
  BY DEF Active, Ended

(***************************************************************************)
(* A step of one load leaves the loads well formed, and with nothing in    *)
(* hand but what is of the user.                                           *)
(***************************************************************************)
LEMMA SetKeeps ==
  ASSUME OwnInv, NEW l \in 1..MaxLoads, Active(l), NEW x \in LoadType,
         x.of = load[l].of, x.resource = load[l].resource, ~hasty => OwnLoad(x),
         Advance(l, x), hasty' = hasty, account' = account
  PROVE  load' \in [1..MaxLoads -> LoadType] /\ Sent' /\ OwnLoads'
<1> DEFINE y == IF x.cache = "done" /\ x.net = "done" /\ ~x.put THEN Ended ELSE x
<1>1. y \in LoadType /\ (y # Ended => y = x)
  BY EndedIsLoad
<1> HIDE DEF y
<1>2. load' = [load EXCEPT ![l] = y]
  BY DEF Advance, y
<1>3. load \in [1..MaxLoads -> LoadType]
  BY DEF OwnInv, Types
<1>4. load' \in [1..MaxLoads -> LoadType]
  BY <1>1, <1>2, <1>3
<1>5. Sent'
  BY <1>1, <1>2, <1>3 DEF OwnInv, Sent, Active
<1>6. ASSUME NEW k \in 1..MaxLoads, load'[k] # Ended, ~hasty
      PROVE  OwnLoad(load[k])'
  <2>1. CASE k = l
    BY <1>1, <1>2, <1>3, <1>6, <2>1 DEF OwnLoad, OfUser
  <2>2. CASE k # l
    <3>1. load'[k] = load[k]
      BY <1>2, <1>3, <2>2
    <3> QED  BY <1>6, <3>1 DEF OwnInv, OwnLoads, Active, OwnLoad, OfUser
  <2> QED  BY <2>1, <2>2
<1>7. OwnLoads'
  BY <1>6 DEF OwnLoads, Active
<1> QED  BY <1>4, <1>5, <1>7

-----------------------------------------------------------------------------
(* Users, the worker and the pages' own changes.                           *)

LEMMA SignInKeeps == ASSUME OwnInv, NEW u \in Accounts, LoadUserSchedule(u) PROVE OwnInv'
<1>1. Types'
  BY DEF OwnInv, LoadUserSchedule, Types
<1>2. Sent' /\ OwnLoads'
  BY DEF OwnInv, LoadUserSchedule, Sent, OwnLoads, OwnLoad, Active
<1>3. WipedFirst' /\ OwnCache' /\ OwnPage'
  BY DEF OwnInv, LoadUserSchedule, WipedFirst, OwnCache, OwnPage, OfUser
<1> QED  BY <1>1, <1>2, <1>3 DEF OwnInv

LEMMA SignOutKeeps == ASSUME OwnInv, Cleared \subseteq Resources, ClearUserSchedule PROVE OwnInv'
<1>1. Types'
  BY NothingIsResponse DEF OwnInv, ClearUserSchedule, Types
<1>2. Sent'
  BY DEF OwnInv, ClearUserSchedule, Sent, Active
<1>3. OwnLoads'
  BY DEF OwnInv, ClearUserSchedule, OwnLoads, Active, Types
<1>4. OwnPage'
  BY NothingIsResponse DEF OwnInv, ClearUserSchedule, OwnPage, OfUser
<1>5. WipedFirst' /\ OwnCache'
  BY DEF OwnInv, ClearUserSchedule, WipedFirst, OwnCache
<1> QED  BY <1>1, <1>2, <1>3, <1>4, <1>5 DEF OwnInv

LEMMA WipeKeeps == ASSUME OwnInv, Wipe PROVE OwnInv'
<1>1. Types'
  BY NothingIsResponse DEF OwnInv, Wipe, Types
<1>2. Sent' /\ OwnLoads' /\ WipedFirst' /\ OwnPage'
  BY DEF OwnInv, Wipe, Sent, OwnLoads, OwnLoad, Active, WipedFirst, OwnPage, OfUser
<1>3. OwnCache'
  BY NothingIsResponse DEF Wipe, OwnCache, OfUser
<1> QED  BY <1>1, <1>2, <1>3 DEF OwnInv

LEMMA ChangeKeeps == ASSUME OwnInv, NEW u \in Accounts, Change(u) PROVE OwnInv'
<1>1. Types'
  BY DEF OwnInv, Change, Types
<1>2. Sent' /\ OwnLoads' /\ WipedFirst' /\ OwnCache' /\ OwnPage'
  BY DEF OwnInv, Change, Sent, OwnLoads, OwnLoad, Active, WipedFirst, OwnCache, OwnPage, OfUser
<1> QED  BY <1>1, <1>2 DEF OwnInv

LEMMA ClearKeeps ==
  ASSUME OwnInv, Cleared \subseteq Resources, ClearCachedUserSchedule PROVE OwnInv'
<1>1. Types'
  BY NothingIsResponse DEF OwnInv, ClearCachedUserSchedule, Types
<1>2. Sent' /\ OwnLoads' /\ WipedFirst' /\ OwnCache'
  BY DEF OwnInv, ClearCachedUserSchedule, Sent, OwnLoads, OwnLoad, Active, WipedFirst, OwnCache, OfUser
<1>3. OwnPage'
  BY NothingIsResponse DEF OwnInv, ClearCachedUserSchedule, OwnPage, OfUser
<1> QED  BY <1>1, <1>2, <1>3 DEF OwnInv

-----------------------------------------------------------------------------
LEMMA FetchKeeps ==
  ASSUME OwnInv, Cleared \subseteq Resources, NEW r \in Resources, FetchResource(r)
  PROVE  OwnInv'
<1>1. CASE memory[r] # Nothing
  <2>1. shown' = [shown EXCEPT ![r] = memory[r]]
        /\ UNCHANGED <<account, stored, cached, memory, load, wiping, hasty>>
    BY <1>1 DEF FetchResource
  <2>2. Types'
    BY <2>1 DEF OwnInv, Types
  <2>3. OwnPage'
    BY <2>1 DEF OwnInv, Types, OwnPage, OfUser
  <2> QED
    BY <2>1, <2>2, <2>3 DEF OwnInv, Sent, OwnLoads, OwnLoad, Active, WipedFirst, OwnCache, OfUser
<1>2. CASE memory[r] = Nothing /\ account = Nobody
  <2>1. shown' = [shown EXCEPT ![r] = Nothing]
        /\ UNCHANGED <<account, stored, cached, memory, load, wiping, hasty>>
    BY <1>2 DEF FetchResource
  <2>2. Types'
    BY <2>1, NothingIsResponse DEF OwnInv, Types
  <2>3. OwnPage'
    BY <2>1, NothingIsResponse DEF OwnInv, Types, OwnPage, OfUser
  <2> QED
    BY <2>1, <2>2, <2>3 DEF OwnInv, Sent, OwnLoads, OwnLoad, Active, WipedFirst, OwnCache, OfUser
<1>3. CASE memory[r] = Nothing /\ account # Nobody
  <2> DEFINE y == [Ended EXCEPT !.of = account, !.resource = r, !.cache = "sent",
                                !.net = "sent", !.pending = TRUE]
  <2>0. account \in Accounts
    BY <1>3 DEF OwnInv, Types
  <2>1. /\ y \in LoadType /\ y.of = account /\ y.resource = r
        /\ y.hit = Nothing /\ y.got = Nothing /\ y.answer = Nothing
    BY <2>0, EndedIsLoad DEF LoadType, Ended
  <2> HIDE DEF y
  <2>2. PICK l \in DOMAIN load : load' = [load EXCEPT ![l] = y]
    BY <1>3 DEF FetchResource, y
  <2>3. UNCHANGED <<account, stored, cached, memory, shown, wiping>> /\ (hasty => hasty')
    BY <1>3 DEF FetchResource
  <2>4. load \in [1..MaxLoads -> LoadType]
    BY DEF OwnInv, Types
  <2>5. Types'
    BY <2>1, <2>2, <2>3, <2>4 DEF OwnInv, Types
  <2>6. Sent'
    BY <2>0, <2>1, <2>2, <2>4 DEF OwnInv, Sent, Active
  <2>7. ASSUME NEW k \in 1..MaxLoads, load'[k] # Ended, ~hasty
        PROVE  OwnLoad(load[k])'
    <3>1. CASE k = l
      BY <1>3, <2>1, <2>2, <2>3, <2>4, <3>1, NothingIsResponse DEF OwnLoad, OfUser
    <3>2. CASE k # l
      <4>1. load'[k] = load[k]
        BY <2>2, <2>4, <3>2
      <4> QED  BY <2>3, <2>7, <4>1 DEF OwnInv, OwnLoads, Active, OwnLoad, OfUser
    <3> QED  BY <3>1, <3>2
  <2>8. OwnLoads'
    BY <2>3, <2>7 DEF OwnLoads, Active
  <2>9. WipedFirst' /\ OwnCache' /\ OwnPage'
    BY <2>3 DEF OwnInv, WipedFirst, OwnCache, OwnPage, OfUser
  <2> QED  BY <2>5, <2>6, <2>8, <2>9 DEF OwnInv
<1> QED  BY <1>1, <1>2, <1>3

-----------------------------------------------------------------------------
(* The steps of a load.                                                    *)

LoadStep(l) ==
    CacheOnly(l) \/ CachedContent(l) \/ NetworkFirst(l) \/ PutInCache(l) \/ FreshContent(l)

LEMMA LoadStepKeeps ==
  ASSUME OwnInv, Cleared \subseteq Resources, NEW l \in DOMAIN load, LoadStep(l)
  PROVE  OwnInv'
<1> DEFINE ld == load[l]
<1>0. l \in 1..MaxLoads /\ ld \in LoadType
  BY DEF OwnInv, Types
<1>1. Active(l)
  <2>1. \/ load[l].cache # "done" \/ load[l].net # "done" \/ load[l].put
    BY DEF LoadStep, CacheOnly, CachedContent, NetworkFirst, PutInCache, FreshContent
  <2> QED  BY <2>1, BusyIsActive
<1>2. ld.of \in Accounts /\ ld.resource \in Resources
  BY <1>0, <1>1 DEF OwnInv, Sent
<1>3. UNCHANGED <<account, stored, wiping, hasty>>
  BY DEF LoadStep, CacheOnly, CachedContent, NetworkFirst, PutInCache, FreshContent
<1>4. ~hasty => OwnLoad(ld) /\ ~wiping /\ \A r \in Resources : OfUser(cached[r])
  BY <1>0, <1>1 DEF OwnInv, OwnLoads, WipedFirst, OwnCache, OwnLoad
<1>5. ASSUME NEW x \in LoadType, x.of = ld.of, x.resource = ld.resource,
             ~hasty => OwnLoad(x), Advance(l, x)
      PROVE  load' \in [1..MaxLoads -> LoadType] /\ Sent' /\ OwnLoads'
  BY <1>0, <1>1, <1>3, <1>5, SetKeeps
<1>6. WipedFirst'
  BY <1>3 DEF OwnInv, WipedFirst
<1>7. CASE CacheOnly(l)
  <2> DEFINE x == [ld EXCEPT !.cache = "hit", !.hit = cached[ld.resource]]
  <2>1. cached[ld.resource] \in Response
    BY <1>2 DEF OwnInv, Types
  <2>2. /\ x \in LoadType /\ x.of = ld.of /\ x.resource = ld.resource
        /\ x.hit = cached[ld.resource] /\ x.got = ld.got /\ x.answer = ld.answer
    BY <1>0, <2>1 DEF LoadType
  <2>3. Advance(l, x) /\ UNCHANGED <<cached, memory, shown>>
    BY <1>7 DEF CacheOnly
  <2> HIDE DEF x
  <2>4. ~hasty => OwnLoad(x)
    BY <1>2, <1>4, <2>2 DEF OwnLoad
  <2>5. load' \in [1..MaxLoads -> LoadType] /\ Sent' /\ OwnLoads'
    BY <1>5, <2>2, <2>3, <2>4
  <2> QED  BY <1>3, <1>6, <2>3, <2>5 DEF OwnInv, Types, OwnCache, OwnPage, OfUser
<1>8. CASE CachedContent(l)
  <2> DEFINE x == [ld EXCEPT !.cache = "done", !.got = ld.hit]
             z == [ld EXCEPT !.cache = "done"]
  <2>1. /\ x \in LoadType /\ x.of = ld.of /\ x.resource = ld.resource
        /\ x.hit = ld.hit /\ x.got = ld.hit /\ x.answer = ld.answer
    BY <1>0 DEF LoadType
  <2>2. /\ z \in LoadType /\ z.of = ld.of /\ z.resource = ld.resource
        /\ z.hit = ld.hit /\ z.got = ld.got /\ z.answer = ld.answer
    BY <1>0 DEF LoadType
  <2>3. \/ Advance(l, x) /\ shown' = [shown EXCEPT ![ld.resource] = ld.hit]
        \/ Advance(l, z) /\ UNCHANGED shown
    BY <1>8 DEF CachedContent
  <2> HIDE DEF x, z
  <2>4. ~hasty => OwnLoad(x) /\ OwnLoad(z)
    BY <1>4, <2>1, <2>2 DEF OwnLoad
  <2>5. load' \in [1..MaxLoads -> LoadType] /\ Sent' /\ OwnLoads'
    BY <1>5, <2>1, <2>2, <2>3, <2>4
  <2>6. UNCHANGED <<cached, memory>> /\ ld.hit \in Response
    BY <1>0, <1>8 DEF CachedContent, LoadType
  <2>7. shown' \in [Resources -> Response]
    BY <2>3, <2>6 DEF OwnInv, Types
  <2>8. OwnPage'
    BY <1>3, <1>4, <2>3, <2>6 DEF OwnInv, Types, OwnPage, OfUser, OwnLoad
  <2> QED  BY <1>3, <1>6, <2>5, <2>6, <2>7, <2>8 DEF OwnInv, Types, OwnCache, OfUser
<1>9. CASE NetworkFirst(l)
  <2> DEFINE a == [of |-> ld.of, version |-> stored[ld.of]]
             c == cached[ld.resource]
             x == [ld EXCEPT !.net = "answered", !.put = TRUE, !.answer = a]
             z == [ld EXCEPT !.answer = c, !.net = IF c = Nothing THEN "done" ELSE "answered"]
  <2>1. a \in Response /\ a.of = ld.of /\ c \in Response
    BY <1>2 DEF OwnInv, Types, Response
  <2>2. (Advance(l, x) \/ Advance(l, z)) /\ UNCHANGED <<cached, memory, shown>>
    BY <1>9 DEF NetworkFirst
  <2>3. ~hasty => OfUser(c)
    BY <1>2, <1>4
  <2> HIDE DEF a, c
  <2>4. /\ x \in LoadType /\ x.of = ld.of /\ x.resource = ld.resource
        /\ x.hit = ld.hit /\ x.got = ld.got /\ x.answer = a
    BY <1>0, <2>1 DEF LoadType
  <2>5. /\ z \in LoadType /\ z.of = ld.of /\ z.resource = ld.resource
        /\ z.hit = ld.hit /\ z.got = ld.got /\ z.answer = c
    BY <1>0, <2>1 DEF LoadType
  <2> HIDE DEF x, z
  <2>6. ~hasty => OwnLoad(x) /\ OwnLoad(z)
    BY <1>4, <2>1, <2>3, <2>4, <2>5 DEF OwnLoad, OfUser
  <2>7. load' \in [1..MaxLoads -> LoadType] /\ Sent' /\ OwnLoads'
    BY <1>5, <2>2, <2>4, <2>5, <2>6
  <2> QED  BY <1>3, <1>6, <2>2, <2>7 DEF OwnInv, Types, OwnCache, OwnPage, OfUser
<1>10. CASE PutInCache(l)
  <2> DEFINE x == [ld EXCEPT !.put = FALSE]
  <2>1. /\ x \in LoadType /\ x.of = ld.of /\ x.resource = ld.resource
        /\ x.hit = ld.hit /\ x.got = ld.got /\ x.answer = ld.answer
    BY <1>0 DEF LoadType
  <2>2. /\ Advance(l, x) /\ cached' = [cached EXCEPT ![ld.resource] = ld.answer]
        /\ UNCHANGED <<memory, shown>> /\ ld.answer \in Response
    BY <1>0, <1>10 DEF PutInCache, LoadType
  <2> HIDE DEF x
  <2>3. ~hasty => OwnLoad(x)
    BY <1>4, <2>1 DEF OwnLoad
  <2>4. load' \in [1..MaxLoads -> LoadType] /\ Sent' /\ OwnLoads'
    BY <1>5, <2>1, <2>2, <2>3
  <2>5. cached' \in [Resources -> Response]
    BY <2>2 DEF OwnInv, Types
  <2>6. OwnCache'
    BY <1>3, <1>4, <2>2 DEF OwnInv, Types, OwnCache, OfUser, OwnLoad
  <2> QED  BY <1>3, <1>6, <2>2, <2>4, <2>5, <2>6 DEF OwnInv, Types, OwnPage, OfUser
<1>11. CASE FreshContent(l)
  <2> DEFINE x == [ld EXCEPT !.net = "done", !.pending = FALSE]
             z == [ld EXCEPT !.net = "done"]
  <2>1. /\ x \in LoadType /\ x.of = ld.of /\ x.resource = ld.resource
        /\ x.hit = ld.hit /\ x.got = ld.got /\ x.answer = ld.answer
    BY <1>0 DEF LoadType
  <2>2. /\ z \in LoadType /\ z.of = ld.of /\ z.resource = ld.resource
        /\ z.hit = ld.hit /\ z.got = ld.got /\ z.answer = ld.answer
    BY <1>0 DEF LoadType
  <2>3. \/ /\ Advance(l, x)
           /\ memory' = [memory EXCEPT ![ld.resource] = ld.answer]
           /\ shown' = [shown EXCEPT ![ld.resource] = ld.answer]
        \/ Advance(l, z) /\ UNCHANGED <<memory, shown>>
    BY <1>11 DEF FreshContent
  <2> HIDE DEF x, z
  <2>4. ~hasty => OwnLoad(x) /\ OwnLoad(z)
    BY <1>4, <2>1, <2>2 DEF OwnLoad
  <2>5. load' \in [1..MaxLoads -> LoadType] /\ Sent' /\ OwnLoads'
    BY <1>5, <2>1, <2>2, <2>3, <2>4
  <2>6. UNCHANGED cached /\ ld.answer \in Response
    BY <1>0, <1>11 DEF FreshContent, LoadType
  <2>7. memory' \in [Resources -> Response] /\ shown' \in [Resources -> Response]
    BY <2>3, <2>6 DEF OwnInv, Types
  <2>8. OwnPage'
    BY <1>3, <1>4, <2>3 DEF OwnInv, Types, OwnPage, OfUser, OwnLoad
  <2> QED  BY <1>3, <1>6, <2>5, <2>6, <2>7, <2>8 DEF OwnInv, Types, OwnCache, OfUser
<1> QED  BY <1>7, <1>8, <1>9, <1>10, <1>11 DEF LoadStep

-----------------------------------------------------------------------------
(***************************************************************************)
(* OwnBookmarks, for any users, resources, loads, versions and failures:   *)
(* where nobody signs out or in while data is on its way, the bookmarks on *)
(* display and in memory are of the user signed in, and so is the worker's *)
(* cache once it was wiped (helper/schedule.js, shed/cache-then-network.js *)
(* and the sign-out in helper/auth.js).                                    *)
(***************************************************************************)
THEOREM BookmarksAreOwn == CacheThenNetworkSpec => []OwnBookmarks
<1>1. CacheThenNetworkInit => OwnInv
  BY InitOwnInv, CacheThenNetworkAssumption
<1>2. OwnInv /\ [CacheThenNetworkNext]_ctnVars => OwnInv'
  <2> SUFFICES ASSUME OwnInv, [CacheThenNetworkNext]_ctnVars PROVE OwnInv'
    OBVIOUS
  <2>1. CASE CacheThenNetworkNext
    BY <2>1, SignInKeeps, SignOutKeeps, WipeKeeps, ChangeKeeps, ClearKeeps, FetchKeeps,
       LoadStepKeeps, CacheThenNetworkAssumption DEF CacheThenNetworkNext, LoadStep
  <2>2. CASE UNCHANGED ctnVars
    BY <2>2 DEF ctnVars, OwnInv, Types, Sent, Active, OwnLoads, OwnLoad, WipedFirst,
                OwnCache, OwnPage, OfUser
  <2> QED  BY <2>1, <2>2
<1>3. OwnInv => OwnBookmarks
  <2> SUFFICES ASSUME OwnInv, ~hasty, NEW r \in Cleared
               PROVE  /\ OfUser(shown[r]) /\ OfUser(memory[r])
                      /\ wiping \/ OfUser(cached[r])
    BY DEF OwnBookmarks, OfUser
  <2>1. r \in Resources
    BY CacheThenNetworkAssumption
  <2> QED  BY <2>1 DEF OwnInv, OwnCache, OwnPage
<1> QED  BY <1>1, <1>2, <1>3, PTL DEF CacheThenNetworkSpec

-----------------------------------------------------------------------------
(* CacheThenNetwork: what is shown does not go back in time.               *)

NotOlder(x, y) == x.of = y.of => x.version >= y.version

\* Nothing is more recent than what the backend has.
Known(x) == IF x.of = Nobody THEN x = Nothing ELSE x.version <= stored[x.of]

AllKnown ==
    /\ \A r \in Resources : Known(shown[r]) /\ Known(memory[r]) /\ Known(cached[r])
    /\ \A l \in 1..MaxLoads : Known(load[l].hit) /\ Known(load[l].got) /\ Known(load[l].answer)

Single == \A k, l \in 1..MaxLoads :
    Active(k) /\ Active(l) /\ load[k].resource = load[l].resource => k = l

\* Where a load has shown its answer, the cache may be about to get it.
Replacing(r) == \E l \in 1..MaxLoads : load[l].resource = r /\ load[l].put /\ ~load[l].pending

\* What is in memory and in the cache is not older than what is shown.
Latest(r) ==
    /\ NotOlder(memory[r], shown[r])
    /\ Replacing(r) \/ (NotOlder(cached[r], shown[r]) /\ NotOlder(cached[r], memory[r]))

\* What a load has in hand is not older than what is shown, in memory or in the cache
\* where it may come to replace it.
Ordered(x, s, m, c) ==
    /\ x.cache = "hit" => /\ NotOlder(c, x.hit) /\ (x.pending => NotOlder(x.hit, s))
                          /\ x.net = "answered" \/ x.put => NotOlder(x.answer, x.hit)
    /\ x.cache # "done" => x.got = Nothing /\ (x.pending => m = Nothing)
    /\ x.net # "done" => x.pending /\ m = Nothing
    /\ x.net = "sent" => ~x.put
    /\ x.net = "answered" \/ x.put =>
         x.answer.of = x.of /\ \A y \in {s, m, c} : NotOlder(x.answer, y)
    /\ x.net = "answered" /\ ~x.put => c = x.answer

InOrder(l) ==
    LET r == load[l].resource IN Active(l) => Ordered(load[l], shown[r], memory[r], cached[r])

Forward == Single /\ (\A r \in Resources : Latest(r)) /\ \A l \in 1..MaxLoads : InOrder(l)

FreshInv == OwnInv /\ AllKnown /\ (~hasty => Forward)

-----------------------------------------------------------------------------
LEMMA FreshStart == CacheThenNetworkInit => FreshInv
<1> SUFFICES ASSUME CacheThenNetworkInit PROVE FreshInv
  OBVIOUS
<1>1. OwnInv
  BY InitOwnInv, CacheThenNetworkAssumption
<1>2. Ended.hit = Nothing /\ Ended.got = Nothing /\ Ended.answer = Nothing
  BY DEF Ended
<1>3. AllKnown
  BY <1>2, NothingIsResponse DEF AllKnown, Known, CacheThenNetworkInit
<1>4. Forward
  BY NothingIsResponse DEF Forward, Single, Latest, InOrder, Active, NotOlder, CacheThenNetworkInit, Nothing
<1>5. QED BY <1>1, <1>3, <1>4 DEF FreshInv

(***************************************************************************)
(* A step of one load that keeps in order what it has in hand and what is  *)
(* shown, remembered and cached of its resource.                           *)
(***************************************************************************)
OrderedStep(l, x, s, m, c) ==
    /\ Active(l) /\ x \in LoadType /\ x.of = load[l].of /\ x.resource = load[l].resource
    /\ Advance(l, x) /\ UNCHANGED <<stored, hasty>>
    /\ {s, m, c} \subseteq Response
    /\ shown' = [shown EXCEPT ![load[l].resource] = s]
    /\ memory' = [memory EXCEPT ![load[l].resource] = m]
    /\ cached' = [cached EXCEPT ![load[l].resource] = c]
    /\ \A y \in {s, m, c, x.hit, x.got, x.answer} : Known(y)
    /\ ~hasty => /\ Ordered(x, s, m, c) /\ NotOlder(m, s)
                 /\ (x.put /\ ~x.pending) \/ (NotOlder(c, s) /\ NotOlder(c, m))

LEMMA LoadFresh ==
    ASSUME FreshInv, OwnInv', NEW l \in 1..MaxLoads, NEW x, NEW s, NEW m, NEW c, OrderedStep(l, x, s, m, c)
    PROVE  FreshInv'
<1>0. /\ Active(l) /\ x \in LoadType /\ x.of = load[l].of /\ x.resource = load[l].resource
      /\ Advance(l, x) /\ UNCHANGED <<stored, hasty>>
      /\ s \in Response /\ m \in Response /\ c \in Response
      /\ shown' = [shown EXCEPT ![load[l].resource] = s]
      /\ memory' = [memory EXCEPT ![load[l].resource] = m]
      /\ cached' = [cached EXCEPT ![load[l].resource] = c]
      /\ \A y \in {s, m, c, x.hit, x.got, x.answer} : Known(y)
      /\ ~hasty => /\ Ordered(x, s, m, c) /\ NotOlder(m, s)
                   /\ (x.put /\ ~x.pending) \/ (NotOlder(c, s) /\ NotOlder(c, m))
  BY DEF OrderedStep
<1>r. PICK r \in Resources : r = load[l].resource
  BY <1>0 DEF FreshInv, OwnInv, Sent
<1> DEFINE y == IF x.cache = "done" /\ x.net = "done" /\ ~x.put THEN Ended ELSE x
<1>1. /\ y \in {Ended, x} /\ (x.cache = "done" /\ x.net = "done" /\ ~x.put => y = Ended)
      /\ ~(x.cache = "done" /\ x.net = "done" /\ ~x.put) => y = x
      /\ y = Ended \/ y = x
  OBVIOUS
<1>2. /\ load' = [load EXCEPT ![l] = y]
      /\ load \in [1..MaxLoads -> LoadType]
      /\ shown \in [Resources -> Response] /\ memory \in [Resources -> Response]
      /\ cached \in [Resources -> Response]
  BY <1>0 DEF Advance, FreshInv, OwnInv, Types, Sent
<1> HIDE DEF y
<1>3. /\ load'[l] = y /\ \A k \in 1..MaxLoads : k # l => load'[k] = load[k]
      /\ shown'[r] = s /\ memory'[r] = m /\ cached'[r] = c
      /\ \A q \in Resources : q # r => shown'[q] = shown[q] /\ memory'[q] = memory[q] /\ cached'[q] = cached[q]
  BY <1>0, <1>r, <1>2
<1>4. Ended.hit = Nothing /\ Ended.got = Nothing /\ Ended.answer = Nothing /\ ~Ended.put
  BY <1>0 DEF Ended
<1>5. AllKnown'
  <2>1. \A z : Known(z)' <=> Known(z)
    BY <1>0 DEF Known
  <2>2. Known(Nothing)
    BY <1>0, NothingIsResponse DEF Known
  <2>3. \A q \in Resources : Known(shown'[q]) /\ Known(memory'[q]) /\ Known(cached'[q])
    BY <1>0, <1>3 DEF FreshInv, AllKnown
  <2>4. \A k \in 1..MaxLoads : Known(load'[k].hit) /\ Known(load'[k].got) /\ Known(load'[k].answer)
    <3>1. Known(y.hit) /\ Known(y.got) /\ Known(y.answer)
      BY <1>0, <1>1, <1>4, <2>2
    <3>2. QED BY <1>0, <1>3, <3>1 DEF FreshInv, AllKnown
  <2>5. QED BY <1>0, <2>3, <2>4 DEF AllKnown, Known
<1>6. ASSUME ~hasty' PROVE Forward'
  <2>1. Forward /\ ~hasty
    BY <1>0, <1>6 DEF FreshInv
  <2>2. \A k \in 1..MaxLoads : Active(k)' => Active(k) /\ load'[k].resource = load[k].resource
    BY <1>0, <1>1, <1>3 DEF Active
  <2>3. Single'
    BY <1>0, <2>1, <2>2 DEF Forward, Single
  <2>4. ASSUME NEW k \in 1..MaxLoads PROVE InOrder(k)'
    <3>1. CASE k = l
      BY <1>0, <1>r, <1>1, <1>3, <2>1, <3>1 DEF InOrder, Active
    <3>2. CASE k # l
      <4>1. SUFFICES ASSUME Active(k) PROVE InOrder(k)'
        BY <1>0, <2>2 DEF InOrder
      <4>2. load[k].resource \in Resources /\ load[k].resource # r
        BY <1>0, <1>r, <2>1, <3>2, <4>1 DEF Forward, Single, FreshInv, OwnInv, Sent
      <4>3. QED BY <1>0, <1>3, <2>1, <3>2, <4>2 DEF Forward, InOrder, Active
    <3>3. QED BY <1>0, <3>1, <3>2
  <2>5. ASSUME NEW q \in Resources PROVE Latest(q)'
    <3>1. CASE q = r
      <4>1. x.put /\ ~x.pending => Replacing(r)'
        BY <1>0, <1>r, <1>1, <1>3 DEF Replacing
      <4>2. NotOlder(m, s) /\ (Replacing(r)' \/ (NotOlder(c, s) /\ NotOlder(c, m)))
        BY <1>0, <2>1, <4>1
      <4>3. Latest(r)'
        BY <1>0, <1>3, <4>2 DEF Latest, NotOlder
      <4>4. QED BY <1>0, <3>1, <4>3
    <3>2. CASE q # r
      <4>1. Latest(q)
        BY <1>0, <2>1 DEF Forward
      <4>2. Replacing(q) => Replacing(q)'
        BY <1>0, <1>r, <1>3, <3>2 DEF Replacing
      <4>3. QED BY <1>0, <1>3, <3>2, <4>1, <4>2 DEF Latest, NotOlder
    <3>3. QED BY <1>0, <3>1, <3>2
  <2>6. QED BY <1>0, <2>3, <2>4, <2>5 DEF Forward
<1>7. QED BY <1>0, <1>5, <1>6 DEF FreshInv

-----------------------------------------------------------------------------
\* Steps of the page and of the backend that leave the loads alone.
LEMMA AsideFresh ==
    ASSUME FreshInv, OwnInv', UNCHANGED load, hasty => hasty',
           \A z : Known(z) => Known(z)',
           \A r \in Resources : Known(shown'[r]) /\ Known(memory'[r]) /\ Known(cached'[r]),
           ~hasty' => \A r \in Resources :
             /\ NotOlder(memory'[r], shown'[r])
             /\ Replacing(r) \/ (NotOlder(cached'[r], shown'[r]) /\ NotOlder(cached'[r], memory'[r]))
             /\ \A l \in 1..MaxLoads :
                  Active(l) /\ load[l].resource = r => Ordered(load[l], shown'[r], memory'[r], cached'[r])
    PROVE  FreshInv'
<1>1. AllKnown'
  BY DEF FreshInv, AllKnown
<1>2. ASSUME ~hasty' PROVE Forward'
  <2>1. Single'
    BY <1>2 DEF FreshInv, Forward, Single, Active
  <2>2. \A r \in Resources : Latest(r)'
    BY <1>2 DEF Latest, Replacing, NotOlder
  <2>3. ASSUME NEW l \in 1..MaxLoads PROVE InOrder(l)'
    <3>1. Active(l) => load[l].resource \in Resources
      BY DEF FreshInv, OwnInv, Sent
    <3>2. QED BY <1>2, <3>1 DEF InOrder, Active
  <2>4. QED BY <2>1, <2>2, <2>3 DEF Forward
<1>3. QED BY <1>1, <1>2 DEF FreshInv

\* What is known and in order, by resource.
LEMMA FreshFacts ==
    ASSUME FreshInv
    PROVE  /\ OwnInv
           /\ \A r \in Resources : /\ Known(shown[r]) /\ Known(memory[r]) /\ Known(cached[r])
                                   /\ shown[r] \in Response /\ memory[r] \in Response /\ cached[r] \in Response
           /\ ~hasty => \A r \in Resources :
                /\ Latest(r)
                /\ \A l \in 1..MaxLoads :
                     Active(l) /\ load[l].resource = r => Ordered(load[l], shown[r], memory[r], cached[r])
BY DEF FreshInv, AllKnown, Forward, InOrder, OwnInv, Types

LEMMA LoadUserFresh ==
    ASSUME FreshInv, NEW u \in Accounts, LoadUserSchedule(u)
    PROVE  FreshInv'
<1>1. OwnInv'
  BY SignInKeeps DEF FreshInv
<1>2. UNCHANGED <<stored, cached, memory, shown, load>> /\ (hasty => hasty')
  BY DEF LoadUserSchedule
<1>3. \A z : Known(z) => Known(z)'
  BY <1>2 DEF Known
<1>4. QED BY <1>1, <1>2, <1>3, FreshFacts, AsideFresh DEF Latest

\* Where no load is active, what is taken away leaves nothing behind that is older.
LEMMA ClearUserFresh ==
    ASSUME FreshInv, ClearUserSchedule
    PROVE  FreshInv'
<1>1. OwnInv'
  BY SignOutKeeps, CacheThenNetworkAssumption DEF FreshInv
<1>2. UNCHANGED <<stored, cached, load>> /\ (hasty => hasty')
  BY DEF ClearUserSchedule
<1>3. \A z : Known(z) => Known(z)'
  BY <1>2 DEF Known
<1>4. \A r \in Resources : \/ shown'[r] = Nothing /\ memory'[r] = Nothing
                           \/ shown'[r] = shown[r] /\ memory'[r] = memory[r]
  BY DEF ClearUserSchedule
<1>5. Known(Nothing)
  BY NothingIsResponse DEF Known
<1>6. ~hasty' => \A l \in 1..MaxLoads : ~Active(l)
  BY DEF ClearUserSchedule, FreshInv, OwnInv, Types
<1>7. \A r \in Resources : Known(shown'[r]) /\ Known(memory'[r]) /\ Known(cached'[r])
  BY <1>2, <1>4, <1>5, FreshFacts
<1>8. ASSUME ~hasty', NEW r \in Resources
      PROVE  /\ NotOlder(memory'[r], shown'[r])
             /\ Replacing(r) \/ (NotOlder(cached'[r], shown'[r]) /\ NotOlder(cached'[r], memory'[r]))
  <2>1. Latest(r) /\ Known(cached[r]) /\ cached'[r] = cached[r] /\ cached[r] \in Response
    BY <1>2, <1>8, FreshFacts
  <2>2. NotOlder(Nothing, Nothing) /\ NotOlder(cached[r], Nothing)
    BY <2>1, NothingIsResponse DEF NotOlder, Known, Nothing
  <2>3. QED BY <1>4, <2>1, <2>2 DEF Latest
<1>9. QED BY <1>1, <1>2, <1>3, <1>6, <1>7, <1>8, AsideFresh

LEMMA WipeFresh ==
    ASSUME FreshInv, Wipe
    PROVE  FreshInv'
<1>1. OwnInv'
  BY WipeKeeps DEF FreshInv
<1>2. UNCHANGED <<stored, memory, shown, load, hasty>> /\ \A r \in Resources : cached'[r] = Nothing
  BY DEF Wipe
<1>3. \A z : Known(z) => Known(z)'
  BY <1>2 DEF Known
<1>4. Known(Nothing)
  BY NothingIsResponse DEF Known
<1>5. ~hasty => \A l \in 1..MaxLoads : ~Active(l)
  BY DEF Wipe, FreshInv, OwnInv, WipedFirst, OwnLoads, OwnLoad
<1>6. \A r \in Resources : Known(shown'[r]) /\ Known(memory'[r]) /\ Known(cached'[r])
  BY <1>2, <1>4, FreshFacts
<1>7. ASSUME ~hasty', NEW r \in Resources
      PROVE  /\ NotOlder(memory'[r], shown'[r])
             /\ NotOlder(cached'[r], shown'[r]) /\ NotOlder(cached'[r], memory'[r])
  <2>1. Latest(r) /\ Known(shown[r]) /\ Known(memory[r])
    BY <1>2, <1>7, FreshFacts
  <2>2. \A y \in {shown[r], memory[r]} : NotOlder(Nothing, y)
    BY <2>1 DEF NotOlder, Known, Nothing
  <2>3. QED BY <1>2, <2>1, <2>2 DEF Latest
<1>8. QED BY <1>1, <1>2, <1>3, <1>5, <1>6, <1>7, AsideFresh

LEMMA ChangeFresh ==
    ASSUME FreshInv, NEW u \in Accounts, Change(u)
    PROVE  FreshInv'
<1>1. OwnInv'
  BY ChangeKeeps DEF FreshInv
<1>2. UNCHANGED <<cached, memory, shown, load, hasty>>
  BY DEF Change
<1>3. \A v \in Accounts : stored'[v] >= stored[v] /\ stored[v] \in Nat /\ stored'[v] \in Nat
  BY DEF Change, FreshInv, OwnInv, Types
<1>4. \A z \in Response : Known(z) => Known(z)'
  BY <1>3 DEF Known, Response
<1>5. AllKnown'
  BY <1>2, <1>4 DEF AllKnown, FreshInv, OwnInv, Types, LoadType
<1>6. ~hasty => Forward'
  BY <1>2 DEF FreshInv, Forward, Single, Latest, Replacing, InOrder, Active, NotOlder, Ordered
<1>7. QED BY <1>1, <1>2, <1>5, <1>6 DEF FreshInv

LEMMA ClearFresh ==
    ASSUME FreshInv, ClearCachedUserSchedule
    PROVE  FreshInv'
<1>1. OwnInv'
  BY ClearKeeps, CacheThenNetworkAssumption DEF FreshInv
<1>2. UNCHANGED <<cached, shown, load, hasty>>
  BY DEF ClearCachedUserSchedule
<1>3. \A r \in Resources : memory'[r] \in {Nothing, memory[r]}
  BY DEF ClearCachedUserSchedule
<1>4. \A v \in Accounts : stored'[v] >= stored[v] /\ stored[v] \in Nat /\ stored'[v] \in Nat
  BY DEF ClearCachedUserSchedule, FreshInv, OwnInv, Types
<1>5. \A z \in Response : Known(z) => Known(z)'
  BY <1>4 DEF Known, Response
<1>6. Known(Nothing)'
  BY NothingIsResponse DEF Known
<1>7. AllKnown'
  <2>1. \A r \in Resources : Known(shown[r])' /\ Known(memory[r])' /\ Known(cached[r])'
    BY <1>2, <1>3, <1>5, <1>6, FreshFacts
  <2>2. \A l \in 1..MaxLoads : Known(load[l].hit)' /\ Known(load[l].got)' /\ Known(load[l].answer)'
    BY <1>2, <1>5 DEF AllKnown, FreshInv, OwnInv, Types, LoadType
  <2>3. QED BY <2>1, <2>2 DEF AllKnown
<1>8. ASSUME ~hasty PROVE Forward'
  <2>1. Forward
    BY <1>8 DEF FreshInv
  <2>2. Single'
    BY <1>2, <2>1 DEF Forward, Single, Active
  <2>3. ASSUME NEW x, Known(x), x.version \in Nat PROVE NotOlder(x, Nothing)
    BY <2>3, NothingIsResponse DEF NotOlder, Known, Nothing
  <2>4. ASSUME NEW r \in Resources PROVE Latest(r)'
    <3>1. Latest(r) /\ Known(cached[r]) /\ Known(shown[r]) /\ cached[r] \in Response /\ shown[r] \in Response
      BY <1>8, FreshFacts
    <3>2. NotOlder(cached[r], Nothing) /\ NotOlder(Nothing, shown[r])
      BY <3>1 DEF NotOlder, Known, Nothing, Response
    <3>3. Replacing(r)' <=> Replacing(r)
      BY <1>2 DEF Replacing
    <3>4. memory'[r] = Nothing \/ memory'[r] = memory[r]
      BY <1>3
    <3>5. QED BY <1>2, <3>1, <3>2, <3>3, <3>4 DEF Latest, NotOlder
  <2>5. ASSUME NEW l \in 1..MaxLoads PROVE InOrder(l)'
    <3>1. SUFFICES ASSUME Active(l) PROVE InOrder(l)'
      BY <1>2 DEF InOrder, Active
    <3>2. PICK r \in Resources : r = load[l].resource
      BY <3>1 DEF FreshInv, OwnInv, Sent
    <3>3. Ordered(load[l], shown[r], memory[r], cached[r]) /\ load[l].answer \in Response /\ Known(load[l].answer)
      BY <2>1, <3>1, <3>2 DEF Forward, InOrder, FreshInv, AllKnown, OwnInv, Types, LoadType
    <3>4. NotOlder(load[l].answer, Nothing)
      BY <3>3 DEF NotOlder, Known, Nothing, Response
    <3>5. Ordered(load[l], shown[r], Nothing, cached[r])
      BY <3>3, <3>4 DEF Ordered
    <3>6. Ordered(load[l], shown[r], memory'[r], cached[r])
      BY <1>3, <3>3, <3>5
    <3>7. QED BY <1>2, <3>2, <3>6 DEF InOrder
  <2>6. QED BY <2>2, <2>4, <2>5 DEF Forward
<1>9. QED BY <1>1, <1>2, <1>7, <1>8 DEF FreshInv

-----------------------------------------------------------------------------
LEMMA FetchFresh ==
    ASSUME FreshInv, NEW r \in Resources, FetchResource(r)
    PROVE  FreshInv'
<1>1. OwnInv' /\ OwnInv
  BY FetchKeeps, CacheThenNetworkAssumption DEF FreshInv
<1>2. /\ UNCHANGED <<account, stored, cached>> /\ Known(Nothing)
      /\ shown \in [Resources -> Response] /\ memory \in [Resources -> Response]
      /\ load \in [1..MaxLoads -> LoadType]
  BY <1>1, NothingIsResponse DEF FetchResource, Known, OwnInv, Types
<1>3. \A z : Known(z) => Known(z)'
  BY <1>2 DEF Known
\* What is shown is replaced by what is in memory, or by nothing where nothing is.
<1>4. CASE /\ UNCHANGED <<memory, load, hasty>> /\ shown' = [shown EXCEPT ![r] = memory[r]]
  <2>1. \A q \in Resources : shown'[q] = IF q = r THEN memory[r] ELSE shown[q]
    BY <1>2, <1>4
  <2>2. \A q \in Resources : Known(shown'[q]) /\ Known(memory'[q]) /\ Known(cached'[q])
    BY <1>2, <1>4, <2>1, FreshFacts
  <2>3. ASSUME NEW q \in Resources, ~hasty'
        PROVE  /\ NotOlder(memory'[q], shown'[q])
               /\ Replacing(q) \/ (NotOlder(cached'[q], shown'[q]) /\ NotOlder(cached'[q], memory'[q]))
               /\ \A l \in 1..MaxLoads :
                    Active(l) /\ load[l].resource = q => Ordered(load[l], shown'[q], memory'[q], cached'[q])
    <3>1. /\ Latest(q) /\ memory[q] \in Response
          /\ \A l \in 1..MaxLoads :
               Active(l) /\ load[l].resource = q => Ordered(load[l], shown[q], memory[q], cached[q])
      BY <1>4, <2>3, FreshFacts
    <3>2. NotOlder(memory[q], memory[q])
      BY <3>1 DEF NotOlder, Response
    <3>3. \A l \in 1..MaxLoads :
            Active(l) /\ load[l].resource = q => Ordered(load[l], memory[q], memory[q], cached[q])
      <4>1. SUFFICES ASSUME NEW l \in 1..MaxLoads, Active(l), load[l].resource = q
                     PROVE  Ordered(load[l], memory[q], memory[q], cached[q])
        OBVIOUS
      <4>2. Ordered(load[l], shown[q], memory[q], cached[q])
        BY <3>1, <4>1
      <4>3. load[l].hit \in Response /\ Known(load[l].hit)
        BY <1>2 DEF LoadType, FreshInv, AllKnown
      <4>4. NotOlder(load[l].hit, Nothing)
        BY <4>3 DEF NotOlder, Known, Nothing, Response
      <4>5. load[l].cache = "hit" /\ load[l].pending => NotOlder(load[l].hit, memory[q])
        BY <4>2, <4>4 DEF Ordered
      <4>6. QED BY <4>2, <4>5 DEF Ordered
    <3>4. CASE q = r
      BY <1>2, <1>4, <2>1, <3>1, <3>2, <3>3, <3>4 DEF Latest
    <3>5. CASE q # r
      BY <1>2, <1>4, <2>1, <3>1, <3>5 DEF Latest
    <3>6. QED BY <3>4, <3>5
  <2>4. QED BY <1>1, <1>3, <1>4, <2>2, <2>3, AsideFresh
<1>5. CASE memory[r] # Nothing \/ account = Nobody
  BY <1>4, <1>5 DEF FetchResource
\* A load sets out with nothing in hand; it is the only one of its resource.
<1>6. CASE memory[r] = Nothing /\ account # Nobody
  <2> DEFINE y == [Ended EXCEPT !.of = account, !.resource = r, !.cache = "sent",
                                !.net = "sent", !.pending = TRUE]
  <2>1. /\ y.resource = r /\ y.cache = "sent" /\ y.net = "sent" /\ y.pending /\ ~y.put
        /\ y.hit = Nothing /\ y.got = Nothing /\ y.answer = Nothing
    BY DEF Ended
  <2> HIDE DEF y
  <2>2. PICK l \in 1..MaxLoads : ~Active(l) /\ load' = [load EXCEPT ![l] = y]
    BY <1>2, <1>6 DEF FetchResource, y
  <2>3. /\ UNCHANGED <<memory, shown>>
        /\ hasty' = (hasty \/ \E k \in 1..MaxLoads : Active(k) /\ load[k].resource = r)
    BY <1>2, <1>6 DEF FetchResource
  <2>4. load'[l] = y /\ \A k \in 1..MaxLoads : k # l => load'[k] = load[k]
    BY <1>2, <2>2
  <2>5. AllKnown'
    <3>1. \A q \in Resources : Known(shown[q])' /\ Known(memory[q])' /\ Known(cached[q])'
      BY <1>2, <1>3, <2>3, FreshFacts
    <3>2. ASSUME NEW k \in 1..MaxLoads
          PROVE  (Known(load[k].hit) /\ Known(load[k].got) /\ Known(load[k].answer))'
      <4>1. CASE k = l
        BY <1>2, <2>1, <2>4, <4>1 DEF Known
      <4>2. CASE k # l
        <5>1. Known(load[k].hit) /\ Known(load[k].got) /\ Known(load[k].answer)
          BY DEF FreshInv, AllKnown
        <5>2. QED BY <1>2, <2>4, <4>2, <5>1 DEF Known
      <4>3. QED BY <4>1, <4>2
    <3>3. QED BY <3>1, <3>2 DEF AllKnown
  <2>6. ASSUME ~hasty' PROVE Forward'
    <3>1. Forward /\ ~hasty /\ \A k \in 1..MaxLoads : Active(k) => load[k].resource # r
      BY <2>3, <2>6 DEF FreshInv
    <3>2. \A k \in 1..MaxLoads : k # l => (Active(k)' <=> Active(k))
      BY <2>4 DEF Active
    <3>3. Single'
      BY <2>1, <2>4, <3>1, <3>2 DEF Forward, Single
    <3>4. ASSUME NEW q \in Resources PROVE Latest(q)'
      <4>1. Replacing(q) => Replacing(q)'
        <5>1. ~load[l].put
          BY <2>2 DEF Active, Ended
        <5>2. QED BY <2>4, <5>1 DEF Replacing
      <4>2. QED BY <1>2, <2>3, <3>1, <4>1 DEF Forward, Latest, NotOlder
    <3>5. ASSUME NEW k \in 1..MaxLoads PROVE InOrder(k)'
      <4>1. CASE k = l
        <5>1. Ordered(y, shown[r], memory[r], cached[r])
          BY <1>6, <2>1 DEF Ordered
        <5>2. load'[k] = y /\ shown' = shown /\ memory' = memory /\ cached' = cached
          BY <1>2, <2>3, <2>4, <4>1
        <5>3. QED BY <2>1, <5>1, <5>2 DEF InOrder
      <4>2. CASE k # l
        BY <1>2, <2>3, <2>4, <3>1, <3>2, <4>2 DEF Forward, InOrder
      <4>3. QED BY <4>1, <4>2
    <3>6. QED BY <3>3, <3>4, <3>5 DEF Forward
  <2>7. QED BY <1>1, <2>5, <2>6 DEF FreshInv
<1>7. QED BY <1>5, <1>6

(***************************************************************************)
(* What a step of a load starts from.                                      *)
(***************************************************************************)
LEMMA LoadFacts ==
    ASSUME FreshInv, NEW l \in 1..MaxLoads, LoadStep(l)
    PROVE  /\ Active(l) /\ load[l] \in LoadType /\ OwnInv'
           /\ load[l].resource \in Resources /\ load[l].of \in Accounts
           /\ UNCHANGED <<account, stored, wiping, hasty>>
           /\ shown \in [Resources -> Response] /\ memory \in [Resources -> Response]
           /\ cached \in [Resources -> Response]
           /\ Known(load[l].hit) /\ Known(load[l].got) /\ Known(load[l].answer)
           /\ ~hasty => Ordered(load[l], shown[load[l].resource], memory[load[l].resource], cached[load[l].resource])
           /\ ~hasty => Latest(load[l].resource)
           /\ ~hasty => cached[load[l].resource].of \in {Nobody, load[l].of}
           /\ ~hasty => (Replacing(load[l].resource) => load[l].put /\ ~load[l].pending)
<1>1. load \in [1..MaxLoads -> LoadType] /\ l \in DOMAIN load
  BY DEF FreshInv, OwnInv, Types
<1>2. Active(l)
  <2>1. \/ load[l].cache # "done" \/ load[l].net # "done" \/ load[l].put
    BY DEF LoadStep, CacheOnly, CachedContent, NetworkFirst, PutInCache, FreshContent
  <2>2. QED BY <1>1, <2>1, BusyIsActive
<1>3. OwnInv'
  BY <1>1, LoadStepKeeps, CacheThenNetworkAssumption DEF FreshInv
<1>4. UNCHANGED <<account, stored, wiping, hasty>>
  BY DEF LoadStep, CacheOnly, CachedContent, NetworkFirst, PutInCache, FreshContent
<1>5. load[l].resource \in Resources /\ load[l].of \in Accounts
  BY <1>2 DEF FreshInv, OwnInv, Sent
<1>6. ~hasty => cached[load[l].resource].of \in {Nobody, load[l].of}
  BY <1>2, <1>5 DEF FreshInv, OwnInv, OwnLoads, OwnLoad, WipedFirst, OwnCache, OfUser
<1>7. ~hasty => (Replacing(load[l].resource) => load[l].put /\ ~load[l].pending)
  <2>1. SUFFICES ASSUME ~hasty, NEW k \in 1..MaxLoads, load[k].resource = load[l].resource,
                        load[k].put, ~load[k].pending
                 PROVE  load[l].put /\ ~load[l].pending
    BY DEF Replacing
  <2>2. Active(k)
    BY <1>1, <2>1, BusyIsActive
  <2>3. k = l
    BY <1>2, <2>1, <2>2 DEF FreshInv, Forward, Single
  <2>4. QED BY <2>1, <2>3
<1>8. ~hasty => /\ Ordered(load[l], shown[load[l].resource], memory[load[l].resource], cached[load[l].resource])
                /\ Latest(load[l].resource)
  BY <1>2, <1>5, FreshFacts
<1>9. Known(load[l].hit) /\ Known(load[l].got) /\ Known(load[l].answer)
  BY DEF FreshInv, AllKnown
<1>10. load[l] \in LoadType /\ shown \in [Resources -> Response] /\ memory \in [Resources -> Response]
       /\ cached \in [Resources -> Response]
  BY <1>1 DEF FreshInv, OwnInv, Types
<1>11. QED BY <1>2, <1>3, <1>4, <1>5, <1>6, <1>7, <1>8, <1>9, <1>10

LEMMA Reflexive == \A x \in Response : NotOlder(x, x) /\ (Known(x) => NotOlder(x, Nothing))
  BY NothingIsResponse DEF NotOlder, Known, Nothing, Response

LEMMA CacheOnlyFresh ==
    ASSUME FreshInv, NEW l \in 1..MaxLoads, CacheOnly(l)
    PROVE  FreshInv'
<1> DEFINE ld == load[l]
           r == load[l].resource
           x == [ld EXCEPT !.cache = "hit", !.hit = cached[r]]
<1>1. LoadStep(l)
  BY DEF LoadStep
<1>2. /\ Active(l) /\ ld \in LoadType /\ OwnInv' /\ r \in Resources
      /\ UNCHANGED <<stored, hasty>>
      /\ shown \in [Resources -> Response] /\ memory \in [Resources -> Response]
      /\ cached \in [Resources -> Response]
      /\ Known(ld.hit) /\ Known(ld.got) /\ Known(ld.answer)
      /\ ~hasty => Ordered(ld, shown[r], memory[r], cached[r]) /\ Latest(r)
      /\ ~hasty => (Replacing(r) => ld.put /\ ~ld.pending)
  BY <1>1, LoadFacts
<1>3. Known(shown[r]) /\ Known(memory[r]) /\ Known(cached[r])
  BY <1>2, FreshFacts
<1>4. /\ x \in LoadType /\ x.of = ld.of /\ x.resource = r /\ x.cache = "hit" /\ x.hit = cached[r]
      /\ x.got = ld.got /\ x.answer = ld.answer /\ x.net = ld.net /\ x.put = ld.put /\ x.pending = ld.pending
  BY <1>2 DEF LoadType
<1>5. Advance(l, x) /\ ld.cache = "sent" /\ UNCHANGED <<shown, memory, cached>>
  BY DEF CacheOnly
<1>6. /\ shown' = [shown EXCEPT ![r] = shown[r]] /\ memory' = [memory EXCEPT ![r] = memory[r]]
      /\ cached' = [cached EXCEPT ![r] = cached[r]]
      /\ shown[r] \in Response /\ memory[r] \in Response /\ cached[r] \in Response
  BY <1>2, <1>5
<1> HIDE DEF x
<1>7. ~hasty => /\ Ordered(x, shown[r], memory[r], cached[r]) /\ NotOlder(memory[r], shown[r])
                /\ (x.put /\ ~x.pending) \/ (NotOlder(cached[r], shown[r]) /\ NotOlder(cached[r], memory[r]))
  BY <1>2, <1>4, <1>5, <1>6, Reflexive DEF Ordered, Latest
<1>8. OrderedStep(l, x, shown[r], memory[r], cached[r])
  BY <1>2, <1>3, <1>4, <1>5, <1>6, <1>7 DEF OrderedStep
<1>9. QED BY <1>2, <1>8, LoadFresh

\* Cached content is shown as long as the fresh content has not been.
LEMMA CachedFresh ==
    ASSUME FreshInv, NEW l \in 1..MaxLoads, CachedContent(l)
    PROVE  FreshInv' /\ (~hasty' => \A r \in Resources : NotOlder(shown'[r], shown[r]))
<1> DEFINE ld == load[l]
           r == load[l].resource
           x == [ld EXCEPT !.cache = "done", !.got = ld.hit]
           z == [ld EXCEPT !.cache = "done"]
<1>1. LoadStep(l)
  BY DEF LoadStep
<1>2. /\ Active(l) /\ ld \in LoadType /\ OwnInv' /\ r \in Resources
      /\ UNCHANGED <<stored, hasty>>
      /\ shown \in [Resources -> Response] /\ memory \in [Resources -> Response]
      /\ cached \in [Resources -> Response]
      /\ Known(ld.hit) /\ Known(ld.got) /\ Known(ld.answer)
      /\ ~hasty => Ordered(ld, shown[r], memory[r], cached[r]) /\ Latest(r)
      /\ ~hasty => (Replacing(r) => ld.put /\ ~ld.pending)
  BY <1>1, LoadFacts
<1>3. Known(shown[r]) /\ Known(memory[r]) /\ Known(cached[r]) /\ ld.hit \in Response
  BY <1>2, FreshFacts DEF LoadType
<1>4. /\ x \in LoadType /\ x.of = ld.of /\ x.resource = r /\ x.cache = "done" /\ x.hit = ld.hit
      /\ x.got = ld.hit /\ x.answer = ld.answer /\ x.net = ld.net /\ x.put = ld.put /\ x.pending = ld.pending
  BY <1>2 DEF LoadType
<1>5. /\ z \in LoadType /\ z.of = ld.of /\ z.resource = r /\ z.cache = "done" /\ z.hit = ld.hit
      /\ z.got = ld.got /\ z.answer = ld.answer /\ z.net = ld.net /\ z.put = ld.put /\ z.pending = ld.pending
  BY <1>2 DEF LoadType
<1>6. /\ ld.cache = "hit" /\ UNCHANGED <<memory, cached>>
      /\ \/ /\ ld.pending /\ ld.hit # Nothing /\ Advance(l, x)
            /\ shown' = [shown EXCEPT ![r] = ld.hit]
         \/ Advance(l, z) /\ UNCHANGED shown
  BY DEF CachedContent
<1>7. /\ memory' = [memory EXCEPT ![r] = memory[r]] /\ cached' = [cached EXCEPT ![r] = cached[r]]
      /\ [shown EXCEPT ![r] = shown[r]] = shown
      /\ shown[r] \in Response /\ memory[r] \in Response /\ cached[r] \in Response
  BY <1>2, <1>6
<1> HIDE DEF x, z
<1>8. CASE ld.pending /\ ld.hit # Nothing /\ Advance(l, x) /\ shown' = [shown EXCEPT ![r] = ld.hit]
  <2>1. ~hasty => /\ memory[r] = Nothing /\ NotOlder(cached[r], ld.hit) /\ NotOlder(ld.hit, shown[r])
                  /\ ld.net = "answered" \/ ld.put => NotOlder(ld.answer, ld.hit)
    BY <1>2, <1>6, <1>8 DEF Ordered
  <2>2. NotOlder(Nothing, ld.hit) /\ NotOlder(cached[r], Nothing)
    <3>1. Known(ld.hit) /\ ld.hit # Nothing
      BY <1>2, <1>8
    <3>2. ld.hit.of # Nobody
      BY <3>1 DEF Known
    <3>3. NotOlder(Nothing, ld.hit)
      BY <3>2, NothingIsResponse DEF NotOlder
    <3>4. QED BY <1>3, <1>7, <3>3, Reflexive
  <2>3. ~hasty => /\ Ordered(x, ld.hit, memory[r], cached[r]) /\ NotOlder(memory[r], ld.hit)
                  /\ NotOlder(cached[r], ld.hit) /\ NotOlder(cached[r], memory[r])
    BY <1>2, <1>4, <2>1, <2>2 DEF Ordered
  <2>4. FreshInv'
    <3>1. OrderedStep(l, x, ld.hit, memory[r], cached[r])
      BY <1>2, <1>3, <1>4, <1>6, <1>7, <1>8, <2>3 DEF OrderedStep
    <3>2. QED BY <1>2, <3>1, LoadFresh
  <2>5. ASSUME ~hasty', NEW q \in Resources PROVE NotOlder(shown'[q], shown[q])
    <3>1. CASE q = r
      BY <1>2, <1>8, <2>1, <2>5, <3>1
    <3>2. CASE q # r
      BY <1>2, <1>8, <3>2, Reflexive
    <3>3. QED BY <3>1, <3>2
  <2>6. QED BY <2>4, <2>5
<1>9. CASE Advance(l, z) /\ UNCHANGED shown
  <2>1. ~hasty => /\ Ordered(z, shown[r], memory[r], cached[r]) /\ NotOlder(memory[r], shown[r])
                  /\ (z.put /\ ~z.pending) \/ (NotOlder(cached[r], shown[r]) /\ NotOlder(cached[r], memory[r]))
    BY <1>2, <1>5, <1>6 DEF Ordered, Latest
  <2>2. FreshInv'
    <3>1. OrderedStep(l, z, shown[r], memory[r], cached[r])
      BY <1>2, <1>3, <1>5, <1>6, <1>7, <1>9, <2>1 DEF OrderedStep
    <3>2. QED BY <1>2, <3>1, LoadFresh
  <2>3. QED BY <1>2, <1>9, <2>2, Reflexive
<1>10. QED BY <1>6, <1>8, <1>9

LEMMA NetworkFresh ==
    ASSUME FreshInv, NEW l \in 1..MaxLoads, NetworkFirst(l)
    PROVE  FreshInv'
<1> DEFINE ld == load[l]
           r == load[l].resource
           a == [of |-> ld.of, version |-> stored[ld.of]]
           c == cached[r]
           x == [ld EXCEPT !.net = "answered", !.put = TRUE, !.answer = a]
           z == [ld EXCEPT !.answer = c, !.net = IF c = Nothing THEN "done" ELSE "answered"]
<1>1. LoadStep(l)
  BY DEF LoadStep
<1>2. /\ Active(l) /\ ld \in LoadType /\ OwnInv' /\ r \in Resources /\ ld.of \in Accounts
      /\ UNCHANGED <<stored, hasty>>
      /\ shown \in [Resources -> Response] /\ memory \in [Resources -> Response]
      /\ cached \in [Resources -> Response]
      /\ Known(ld.hit) /\ Known(ld.got) /\ Known(ld.answer)
      /\ ~hasty => Ordered(ld, shown[r], memory[r], c) /\ Latest(r)
      /\ ~hasty => c.of \in {Nobody, ld.of}
      /\ ~hasty => (Replacing(r) => ld.put /\ ~ld.pending)
  BY <1>1, LoadFacts
<1>3. Known(shown[r]) /\ Known(memory[r]) /\ Known(c) /\ ld.hit \in Response /\ stored[ld.of] \in Nat
  BY <1>2, FreshFacts DEF LoadType, FreshInv, OwnInv, Types
<1>4. a \in Response /\ a.of = ld.of /\ a.version = stored[ld.of] /\ Known(a)
  BY <1>2, <1>3, CacheThenNetworkAssumption DEF Response, Known
<1>5. \A y \in Response : Known(y) => NotOlder(a, y)
  BY <1>2, <1>3, <1>4, CacheThenNetworkAssumption DEF NotOlder, Known
<1>6. /\ shown' = [shown EXCEPT ![r] = shown[r]] /\ memory' = [memory EXCEPT ![r] = memory[r]]
      /\ cached' = [cached EXCEPT ![r] = c]
      /\ shown[r] \in Response /\ memory[r] \in Response /\ c \in Response
  BY <1>2 DEF NetworkFirst
<1>7. ld.net = "sent" /\ (Advance(l, x) \/ Advance(l, z))
  BY DEF NetworkFirst
<1> HIDE DEF a, c
<1>8. /\ x \in LoadType /\ x.of = ld.of /\ x.resource = r /\ x.cache = ld.cache /\ x.hit = ld.hit
      /\ x.got = ld.got /\ x.answer = a /\ x.net = "answered" /\ x.put /\ x.pending = ld.pending
  BY <1>2, <1>4 DEF LoadType
<1>9. /\ z \in LoadType /\ z.of = ld.of /\ z.resource = r /\ z.cache = ld.cache /\ z.hit = ld.hit
      /\ z.got = ld.got /\ z.answer = c /\ z.put = ld.put /\ z.pending = ld.pending
      /\ z.net = IF c = Nothing THEN "done" ELSE "answered"
  BY <1>2, <1>6 DEF LoadType
<1> HIDE DEF x, z
<1>10. ~hasty => /\ NotOlder(c, shown[r]) /\ NotOlder(c, memory[r]) /\ NotOlder(memory[r], shown[r])
  BY <1>2, <1>7 DEF Ordered, Latest, c
<1>11. CASE Advance(l, x)
  <2>1. \A y \in {shown[r], memory[r], c, ld.hit} : NotOlder(a, y)
    BY <1>2, <1>3, <1>5, <1>6
  <2>2. ~hasty => Ordered(x, shown[r], memory[r], c)
    BY <1>2, <1>4, <1>7, <1>8, <2>1 DEF Ordered
  <2>3. OrderedStep(l, x, shown[r], memory[r], c)
    BY <1>2, <1>3, <1>4, <1>6, <1>8, <1>10, <1>11, <2>2 DEF OrderedStep
  <2>4. QED BY <1>2, <2>3, LoadFresh
<1>12. CASE Advance(l, z)
  <2>1. ~hasty => (c # Nothing => c.of = ld.of)
    BY <1>2, <1>3 DEF Known
  <2>2. ~hasty => Ordered(z, shown[r], memory[r], c)
    BY <1>2, <1>3, <1>6, <1>7, <1>9, <1>10, <2>1, Reflexive DEF Ordered
  <2>3. OrderedStep(l, z, shown[r], memory[r], c)
    BY <1>2, <1>3, <1>6, <1>9, <1>10, <1>12, <2>2 DEF OrderedStep
  <2>4. QED BY <1>2, <2>3, LoadFresh
<1>13. QED BY <1>7, <1>11, <1>12

LEMMA PutFresh ==
    ASSUME FreshInv, NEW l \in 1..MaxLoads, PutInCache(l)
    PROVE  FreshInv'
<1> DEFINE ld == load[l]
           r == load[l].resource
           x == [ld EXCEPT !.put = FALSE]
<1>1. LoadStep(l)
  BY DEF LoadStep
<1>2. /\ Active(l) /\ ld \in LoadType /\ OwnInv' /\ r \in Resources
      /\ UNCHANGED <<stored, hasty>>
      /\ shown \in [Resources -> Response] /\ memory \in [Resources -> Response]
      /\ cached \in [Resources -> Response]
      /\ Known(ld.hit) /\ Known(ld.got) /\ Known(ld.answer)
      /\ ~hasty => Ordered(ld, shown[r], memory[r], cached[r]) /\ Latest(r)
  BY <1>1, LoadFacts
<1>3. Known(shown[r]) /\ Known(memory[r]) /\ ld.answer \in Response
  BY <1>2, FreshFacts DEF LoadType
<1>4. /\ x \in LoadType /\ x.of = ld.of /\ x.resource = r /\ x.cache = ld.cache /\ x.hit = ld.hit
      /\ x.got = ld.got /\ x.answer = ld.answer /\ x.net = ld.net /\ ~x.put /\ x.pending = ld.pending
  BY <1>2 DEF LoadType
<1>5. Advance(l, x) /\ ld.put /\ cached' = [cached EXCEPT ![r] = ld.answer] /\ UNCHANGED <<shown, memory>>
  BY DEF PutInCache
<1>6. /\ shown' = [shown EXCEPT ![r] = shown[r]] /\ memory' = [memory EXCEPT ![r] = memory[r]]
      /\ shown[r] \in Response /\ memory[r] \in Response
  BY <1>2, <1>5
<1> HIDE DEF x
<1>7. ~hasty => /\ Ordered(x, shown[r], memory[r], ld.answer) /\ NotOlder(memory[r], shown[r])
                /\ NotOlder(ld.answer, shown[r]) /\ NotOlder(ld.answer, memory[r])
  BY <1>2, <1>3, <1>4, <1>5, Reflexive DEF Ordered, Latest
<1>8. OrderedStep(l, x, shown[r], memory[r], ld.answer)
  BY <1>2, <1>3, <1>4, <1>5, <1>6, <1>7 DEF OrderedStep
<1>9. QED BY <1>2, <1>8, LoadFresh

\* Fresh content is at least as recent as what it replaces.
LEMMA ContentFresh ==
    ASSUME FreshInv, NEW l \in 1..MaxLoads, FreshContent(l)
    PROVE  FreshInv' /\ (~hasty' => \A r \in Resources : NotOlder(shown'[r], shown[r]))
<1> DEFINE ld == load[l]
           r == load[l].resource
           x == [ld EXCEPT !.net = "done", !.pending = FALSE]
           z == [ld EXCEPT !.net = "done"]
<1>1. LoadStep(l)
  BY DEF LoadStep
<1>2. /\ Active(l) /\ ld \in LoadType /\ OwnInv' /\ r \in Resources /\ ld.of \in Accounts
      /\ UNCHANGED <<stored, hasty>>
      /\ shown \in [Resources -> Response] /\ memory \in [Resources -> Response]
      /\ cached \in [Resources -> Response]
      /\ Known(ld.hit) /\ Known(ld.got) /\ Known(ld.answer)
      /\ ~hasty => Ordered(ld, shown[r], memory[r], cached[r]) /\ Latest(r)
      /\ ~hasty => (Replacing(r) => ld.put /\ ~ld.pending)
  BY <1>1, LoadFacts
<1>3. Known(shown[r]) /\ Known(memory[r]) /\ Known(cached[r]) /\ ld.answer \in Response
  BY <1>2, FreshFacts DEF LoadType
<1>4. /\ x \in LoadType /\ x.of = ld.of /\ x.resource = r /\ x.cache = ld.cache /\ x.hit = ld.hit
      /\ x.got = ld.got /\ x.answer = ld.answer /\ x.net = "done" /\ x.put = ld.put /\ ~x.pending
  BY <1>2 DEF LoadType
<1>5. /\ z \in LoadType /\ z.of = ld.of /\ z.resource = r /\ z.cache = ld.cache /\ z.hit = ld.hit
      /\ z.got = ld.got /\ z.answer = ld.answer /\ z.net = "done" /\ z.put = ld.put /\ z.pending = ld.pending
  BY <1>2 DEF LoadType
<1>6. /\ ld.net = "answered" /\ UNCHANGED cached
      /\ \/ /\ ld.answer # ld.got /\ Advance(l, x)
            /\ memory' = [memory EXCEPT ![r] = ld.answer] /\ shown' = [shown EXCEPT ![r] = ld.answer]
         \/ ld.answer = ld.got /\ Advance(l, z) /\ UNCHANGED <<memory, shown>>
  BY DEF FreshContent
<1>7. /\ cached' = [cached EXCEPT ![r] = cached[r]]
      /\ [shown EXCEPT ![r] = shown[r]] = shown /\ [memory EXCEPT ![r] = memory[r]] = memory
      /\ shown[r] \in Response /\ memory[r] \in Response /\ cached[r] \in Response
  BY <1>2, <1>6
<1> HIDE DEF x, z
<1>8. CASE /\ Advance(l, x)
           /\ memory' = [memory EXCEPT ![r] = ld.answer] /\ shown' = [shown EXCEPT ![r] = ld.answer]
  <2>1. ~hasty => NotOlder(ld.answer, shown[r]) /\ (~ld.put => cached[r] = ld.answer)
    BY <1>2, <1>6 DEF Ordered
  <2>2. ~hasty => /\ Ordered(x, ld.answer, ld.answer, cached[r]) /\ NotOlder(ld.answer, ld.answer)
                  /\ (x.put /\ ~x.pending) \/ (NotOlder(cached[r], ld.answer) /\ NotOlder(cached[r], ld.answer))
    BY <1>2, <1>3, <1>4, <1>6, <2>1, Reflexive DEF Ordered
  <2>3. FreshInv'
    <3>1. OrderedStep(l, x, ld.answer, ld.answer, cached[r])
      BY <1>2, <1>3, <1>4, <1>7, <1>8, <2>2 DEF OrderedStep
    <3>2. QED BY <1>2, <3>1, LoadFresh
  <2>4. ASSUME ~hasty', NEW q \in Resources PROVE NotOlder(shown'[q], shown[q])
    <3>1. CASE q = r
      BY <1>2, <1>8, <2>1, <2>4, <3>1
    <3>2. CASE q # r
      BY <1>2, <1>8, <3>2, Reflexive
    <3>3. QED BY <3>1, <3>2
  <2>5. QED BY <2>3, <2>4
<1>9. CASE ld.answer = ld.got /\ Advance(l, z) /\ UNCHANGED <<memory, shown>>
  <2>1. ~hasty => ld.got # Nothing
    BY <1>2, <1>6, <1>9, NothingIsResponse, CacheThenNetworkAssumption DEF Ordered
  <2>2. ~hasty => /\ Ordered(z, shown[r], memory[r], cached[r]) /\ NotOlder(memory[r], shown[r])
                  /\ (z.put /\ ~z.pending) \/ (NotOlder(cached[r], shown[r]) /\ NotOlder(cached[r], memory[r]))
    BY <1>2, <1>5, <1>6, <2>1 DEF Ordered, Latest
  <2>3. FreshInv'
    <3>1. OrderedStep(l, z, shown[r], memory[r], cached[r])
      BY <1>2, <1>3, <1>5, <1>7, <1>9, <2>2 DEF OrderedStep
    <3>2. QED BY <1>2, <3>1, LoadFresh
  <2>4. QED BY <1>2, <1>9, <2>3, Reflexive
<1>10. QED BY <1>6, <1>8, <1>9

-----------------------------------------------------------------------------
LEMMA FreshStep ==
    ASSUME FreshInv, [CacheThenNetworkNext]_ctnVars
    PROVE  FreshInv'
<1>1. CASE UNCHANGED ctnVars
  BY <1>1 DEF ctnVars, FreshInv, OwnInv, Types, Sent, Active, OwnLoads, OwnLoad, WipedFirst,
              OwnCache, OwnPage, OfUser, AllKnown, Known, Forward, Single, Latest, Replacing,
              InOrder, Ordered, NotOlder
<1>2. CASE \E l \in DOMAIN load : LoadStep(l)
  <2>1. DOMAIN load = 1..MaxLoads
    BY DEF FreshInv, OwnInv, Types
  <2>2. QED BY <1>2, <2>1, CacheOnlyFresh, CachedFresh, NetworkFresh, PutFresh, ContentFresh DEF LoadStep
<1>3. QED
  BY <1>1, <1>2, LoadUserFresh, ClearUserFresh, WipeFresh, ChangeFresh, ClearFresh, FetchFresh
     DEF CacheThenNetworkNext, LoadStep

\* The steps that change what is shown.
LEMMA ShownForward ==
    ASSUME FreshInv, [CacheThenNetworkNext]_ctnVars, NEW r \in Resources,
           shown'[r].of = shown[r].of, ~hasty'
    PROVE  shown'[r].version >= shown[r].version
<1>1. Known(shown[r]) /\ shown[r] \in Response /\ shown \in [Resources -> Response]
      /\ memory \in [Resources -> Response]
  BY FreshFacts DEF FreshInv, OwnInv, Types
<1>2. CASE shown'[r] = shown[r]
  BY <1>1, <1>2 DEF Response
<1>3. CASE shown'[r] = Nothing
  BY <1>1, <1>3, NothingIsResponse DEF Known, Nothing
<1>4. CASE \E q \in Resources : FetchResource(q)
  <2>1. PICK q \in Resources : FetchResource(q)
    BY <1>4
  <2>2. ~hasty
    BY <2>1 DEF FetchResource
  <2>3. shown'[r] \in {shown[r], memory[r], Nothing}
    BY <1>1, <2>1 DEF FetchResource
  <2>4. NotOlder(memory[r], shown[r])
    BY <2>2, FreshFacts DEF Latest
  <2>5. QED BY <1>2, <1>3, <2>3, <2>4 DEF NotOlder
<1>5. CASE \E l \in 1..MaxLoads : CachedContent(l) \/ FreshContent(l)
  BY <1>5, CachedFresh, ContentFresh DEF NotOlder
<1>6. CASE ClearUserSchedule
  <2>1. shown'[r] \in {shown[r], Nothing}
    BY <1>1, <1>6 DEF ClearUserSchedule
  <2>2. QED BY <1>2, <1>3, <2>1
<1>7. CASE UNCHANGED shown
  BY <1>2, <1>7
<1>8. DOMAIN load = 1..MaxLoads
  BY DEF FreshInv, OwnInv, Types
<1>9. QED
  BY <1>4, <1>5, <1>6, <1>7, <1>8
     DEF CacheThenNetworkNext, ctnVars, LoadUserSchedule, Change, Wipe, ClearCachedUserSchedule,
         CacheOnly, NetworkFirst, PutInCache

(***************************************************************************)
(* ShownNeverOlder, for any number of loads and faults: once the page has  *)
(* shown newer data of a user it does not go back to older data, whichever *)
(* of cache and network answers first, whenever the worker puts an answer  *)
(* away and whatever failed ("we don't want to overwrite it", request.js), *)
(* unless loads of one resource or users overlapped.                       *)
(***************************************************************************)
THEOREM ShownGoesForward == CacheThenNetworkSpec => ShownNeverOlder
<1>1. FreshInv /\ [CacheThenNetworkNext]_ctnVars =>
        [\A r \in Resources :
           (shown'[r].of = shown[r].of /\ ~hasty') => shown'[r].version >= shown[r].version]_ctnVars
  BY ShownForward
<1>2. QED BY <1>1, FreshStart, FreshStep, PTL DEF CacheThenNetworkSpec, ShownNeverOlder

-----------------------------------------------------------------------------
(* SWToken: the token and the subscription are the user's.                 *)

Places == {"look", "ask", "store", "notify", "existing", "subscribe", "enable",
           "unsubscribe", "disable", "clear", "load", "fetch", "save", "done"}
Links == [at : Places, of : Users \union {None}, endpoint : Nat]
Kinds == DOMAIN Steps

\* A chain is at one of the promises of its kind.
OnItsWay(c) ==
    /\ chain[c].at \in {"look", "ask", "store"} => c[1] = "ensure"
    /\ chain[c].at \in {"notify", "existing"} => c[1] = "enroll"
    /\ chain[c].at \in {"subscribe", "enable"} => c[1] \in {"enroll", "turnOn"}
    /\ chain[c].at = "unsubscribe" => c[1] \in {"turnOff", "leave"}
    /\ chain[c].at = "disable" => c[1] = "turnOff"
    /\ chain[c].at = "clear" => c[1] = "leave"
    /\ chain[c].at \in {"load", "fetch", "save"} => c[1] = "push"

TokenShape ==
    /\ user \in Users \union {None} /\ token \in Users \union {None}
    /\ subscription \in Nat /\ issued \in Nat
    /\ registered \in [Users -> SUBSET Nat] /\ notify \subseteq Users
    /\ crossed \in BOOLEAN /\ rejects \in Nat
    /\ chain \in [Chains -> Links]
    /\ \A c \in Chains : OnItsWay(c)

IsRunning(c) == chain[c].at # "done"

\* What takes something back runs alone.
Alone == \A c, d \in Chains :
    c[1] \in {"leave", "turnOff"} /\ IsRunning(c) /\ IsRunning(d) => c = d

\* Nobody is signed in: nothing is kept, or the sign-out's chain will clear it.
Away == user = None =>
    \/ \E c \in Chains : /\ IsRunning(c) /\ c[1] = "leave"
                         /\ chain[c].at = "clear" => subscription = 0
    \/ (\A c \in Chains : ~IsRunning(c)) /\ token = None /\ subscription = 0

\* The token is the user's, or is about to be.
Present == user # None =>
    /\ \A c \in Chains : c[1] = "leave" => ~IsRunning(c)
    /\ token \in {None, user}
    /\ \A c \in Chains : chain[c].at \in {"store", "fetch", "save"} => chain[c].of = user
    /\ token = None => \E c \in Chains : c[1] = "ensure" /\ IsRunning(c)

TurningOff == \E c \in Chains : /\ IsRunning(c) /\ c[1] = "turnOff"
                                /\ chain[c].at = "disable" => subscription = 0

\* The subscription agrees with the backend, or a chain will see to it.
Agreeing ==
    /\ \A c \in Chains : c[1] = "turnOff" => ~IsRunning(c)
    /\ \A c \in Chains : chain[c].at = "enable" => chain[c].endpoint = subscription /\ subscription # 0
    /\ subscription # 0 => \/ user \in notify /\ subscription \in registered[user]
                           \/ \E c \in Chains : chain[c].at = "enable"
    /\ user \in notify /\ subscription = 0 =>
         \E c \in Chains : chain[c].at \in {"notify", "existing", "subscribe"}

Served == user # None => TurningOff \/ Agreeing

Followed == Alone /\ Away /\ Present /\ Served

TokenInv == TokenShape /\ (~crossed /\ rejects = 0 => Followed)

-----------------------------------------------------------------------------
LEMMA TokenStart == SWTokenInit => TokenInv
<1> SUFFICES ASSUME SWTokenInit PROVE TokenInv
  OBVIOUS
<1>1. Done \in Links /\ Done.at = "done"
  BY DEF Done, Links, Places
<1>2. chain \in [Chains -> Links] /\ \A c \in Chains : chain[c].at = "done"
  BY <1>1 DEF SWTokenInit
<1>3. TokenShape
  BY <1>2 DEF SWTokenInit, TokenShape, OnItsWay
<1>4. Followed
  BY <1>2 DEF SWTokenInit, Followed, Alone, Away, Present, Served, IsRunning
<1>5. QED BY <1>3, <1>4 DEF TokenInv

LEMMA Kind == \A c \in Chains : c[1] \in {"ensure", "enroll", "turnOn", "turnOff", "leave", "push"}
  BY DEF Chains, Steps

\* A set of chains that was put in place without crossing runs in order.
LEMMA NotCrossed ==
    ASSUME NEW ch, Set(ch), ~crossed'
    PROVE  Alone' /\ ~crossed /\ chain' = ch
BY DEF Set, Crossing, Running, Alone, IsRunning

\* One chain goes on, or ends; the others stay where they are.
LEMMA OneMoves ==
    ASSUME TokenShape, NEW c \in Chains, NEW x \in Links, x.at \in Steps[c[1]] \union {"done"},
           Set([chain EXCEPT ![c] = x])
    PROVE  /\ chain' \in [Chains -> Links] /\ chain'[c] = x
           /\ \A d \in Chains : d # c => chain'[d] = chain[d]
           /\ \A d \in Chains : OnItsWay(d)'
           /\ crossed' \in BOOLEAN
           /\ ~crossed' => Alone' /\ ~crossed
<1>1. chain' = [chain EXCEPT ![c] = x] /\ crossed' \in BOOLEAN
  BY DEF TokenShape, Set
<1>2. ~crossed' => Alone' /\ ~crossed
  BY NotCrossed
<1>3. chain' \in [Chains -> Links] /\ chain'[c] = x /\ \A d \in Chains : d # c => chain'[d] = chain[d]
  BY <1>1 DEF TokenShape
<1>4. OnItsWay(c)'
  BY <1>3, Kind DEF OnItsWay, Steps
<1>5. QED BY <1>1, <1>2, <1>3, <1>4 DEF TokenShape, OnItsWay

LEMMA OneGoes ==
    ASSUME TokenShape, NEW c \in Chains, NEW at \in Places, at \in Steps[c[1]], Go(c, at)
    PROVE  /\ chain' \in [Chains -> Links] /\ chain'[c].at = at
           /\ \A d \in Chains : d # c => chain'[d] = chain[d]
           /\ \A d \in Chains : OnItsWay(d)'
           /\ crossed' \in BOOLEAN
           /\ ~crossed' => Alone' /\ ~crossed
           /\ chain'[c].of = chain[c].of /\ chain'[c].endpoint = chain[c].endpoint
<1> DEFINE x == [chain[c] EXCEPT !.at = at]
<1>1. chain[c] \in Links
  BY DEF TokenShape
<1>2. [chain EXCEPT ![c].at = at] = [chain EXCEPT ![c] = x]
  BY DEF TokenShape
<1>3. x \in Links /\ x.at = at /\ x.of = chain[c].of /\ x.endpoint = chain[c].endpoint
  BY <1>1 DEF Links
<1>4. Set([chain EXCEPT ![c] = x])
  BY <1>2 DEF Go
<1> HIDE DEF x
<1>5. QED BY <1>3, <1>4, OneMoves

LEMMA OneEnds ==
    ASSUME TokenShape, NEW c \in Chains, End(c)
    PROVE  /\ chain' \in [Chains -> Links] /\ chain'[c].at = "done"
           /\ \A d \in Chains : d # c => chain'[d] = chain[d]
           /\ \A d \in Chains : OnItsWay(d)'
           /\ crossed' \in BOOLEAN
           /\ ~crossed' => Alone' /\ ~crossed
<1>1. Done \in Links /\ Done.at = "done"
  BY DEF Done, Links, Places
<1>2. QED BY <1>1, OneMoves DEF End

\* An event starts chains where none runs.
LEMMA Started ==
    ASSUME TokenShape, NEW first, DOMAIN first \subseteq Kinds,
           \A k \in DOMAIN first : first[k] \in Steps[k], Start(first)
    PROVE  /\ chain' \in [Chains -> Links] /\ (\A c \in Chains : OnItsWay(c)') /\ crossed' \in BOOLEAN
           /\ \A c \in Chains : \/ chain'[c] = chain[c]
                                \/ c[1] \in DOMAIN first /\ ~IsRunning(c) /\ chain'[c].at = first[c[1]]
           /\ \A k \in DOMAIN first : \E c \in Chains : c[1] = k /\ chain'[c].at = first[k]
           /\ ~crossed' => Alone' /\ ~crossed
<1>1. PICK n \in [DOMAIN first -> 1..PerKind] :
         /\ \A k \in DOMAIN first : chain[<<k, n[k]>>] = Done
         /\ Set([c \in Chains |-> IF c[1] \in DOMAIN first /\ c[2] = n[c[1]]
                                  THEN [Done EXCEPT !.at = first[c[1]]] ELSE chain[c]])
  BY DEF Start
<1>2. chain' = [c \in Chains |-> IF c[1] \in DOMAIN first /\ c[2] = n[c[1]]
                                  THEN [Done EXCEPT !.at = first[c[1]]] ELSE chain[c]]
      /\ crossed' \in BOOLEAN
  BY <1>1 DEF Set, TokenShape
<1>3. ASSUME NEW k \in DOMAIN first
      PROVE  /\ [Done EXCEPT !.at = first[k]] \in Links /\ [Done EXCEPT !.at = first[k]].at = first[k]
             /\ first[k] \in Steps[k] /\ k \in Kinds
  BY <1>3 DEF Done, Links, Places, Steps, Kinds
<1>4. \A c \in Chains : c = <<c[1], c[2]>> /\ c[1] \in Kinds
  BY DEF Chains, Kinds
<1>5. \A c \in Chains : c[1] \in DOMAIN first /\ c[2] = n[c[1]] => chain[c] = Done
  BY <1>1, <1>4
<1>6. chain' \in [Chains -> Links]
  BY <1>2, <1>3 DEF TokenShape
<1>7. \A c \in Chains : \/ chain'[c] = chain[c]
                        \/ c[1] \in DOMAIN first /\ ~IsRunning(c) /\ chain'[c].at = first[c[1]]
  BY <1>2, <1>3, <1>5 DEF IsRunning, Done
<1>8. ASSUME NEW k \in DOMAIN first PROVE \E c \in Chains : c[1] = k /\ chain'[c].at = first[k]
  <2>1. <<k, n[k]>> \in Chains
    BY <1>3 DEF Chains, Kinds
  <2>2. QED BY <1>2, <1>3, <2>1
<1>9. ASSUME NEW c \in Chains PROVE OnItsWay(c)'
  <2>1. CASE chain'[c] = chain[c]
    BY <2>1 DEF TokenShape, OnItsWay
  <2>2. CASE c[1] \in DOMAIN first /\ chain'[c].at = first[c[1]]
    BY <1>3, <1>4, <2>2 DEF OnItsWay, Steps, Kinds
  <2>3. QED BY <1>7, <2>1, <2>2
<1>10. ASSUME ~crossed' PROVE Alone' /\ ~crossed
  BY <1>1, <1>10, NotCrossed
<1>11. crossed' \in BOOLEAN
  BY <1>2
<1>12. QED
  BY <1>6, <1>7, <1>8, <1>9, <1>10, <1>11

LEMMA SignedIn ==
    ASSUME TokenInv, NEW u \in Users, SignIn(u)
    PROVE  TokenInv'
<1> DEFINE first == [ensure |-> "look", enroll |-> "notify"]
<1>1. TokenShape
  BY DEF TokenInv
<1>2. DOMAIN first = {"ensure", "enroll"} /\ first["ensure"] = "look" /\ first["enroll"] = "notify"
  OBVIOUS
<1>3. DOMAIN first \subseteq Kinds /\ \A k \in DOMAIN first : first[k] \in Steps[k]
  BY <1>2 DEF Kinds, Steps
<1>4. Start(first)
  BY DEF SignIn
<1> HIDE DEF first
<1>5. /\ chain' \in [Chains -> Links] /\ (\A c \in Chains : OnItsWay(c)') /\ crossed' \in BOOLEAN
      /\ \A c \in Chains : \/ chain'[c] = chain[c]
                           \/ c[1] \in {"ensure", "enroll"} /\ ~IsRunning(c) /\ chain'[c].at \in {"look", "notify"}
      /\ \E c \in Chains : c[1] = "ensure" /\ chain'[c].at = "look"
      /\ \E c \in Chains : c[1] = "enroll" /\ chain'[c].at = "notify"
      /\ ~crossed' => Alone' /\ ~crossed
  BY <1>1, <1>2, <1>3, <1>4, Started
<1>6. TokenShape'
  BY <1>1, <1>5, SWTokenAssumption DEF SignIn, TokenShape
<1>7. ASSUME ~crossed', rejects' = 0 PROVE Followed'
  <2>1. Followed /\ Alone'
    BY <1>5, <1>7 DEF SignIn, TokenInv
  <2>2. /\ \A c \in Chains : ~IsRunning(c)
        /\ token = None /\ subscription = 0
    BY <2>1, <1>1, <1>5 DEF Followed, Away, Alone, SignIn, IsRunning
  <2>3. Away' /\ Present' /\ Served'
    BY <2>2, <1>1, <1>5, SWTokenAssumption
       DEF SignIn, Away, Present, Served, Agreeing, IsRunning
  <2>4. QED BY <2>1, <2>3 DEF Followed
<1>8. QED BY <1>6, <1>7 DEF TokenInv

LEMMA SignedOut ==
    ASSUME TokenInv, SignOut
    PROVE  TokenInv'
<1> DEFINE first == [leave |-> "unsubscribe"]
<1>1. TokenShape
  BY DEF TokenInv
<1>2. DOMAIN first = {"leave"} /\ first["leave"] = "unsubscribe"
  OBVIOUS
<1>3. DOMAIN first \subseteq Kinds /\ \A k \in DOMAIN first : first[k] \in Steps[k]
  BY <1>2 DEF Kinds, Steps
<1>4. Start(first)
  BY DEF SignOut
<1> HIDE DEF first
<1>5. /\ chain' \in [Chains -> Links] /\ (\A c \in Chains : OnItsWay(c)') /\ crossed' \in BOOLEAN
      /\ \E c \in Chains : c[1] = "leave" /\ chain'[c].at = "unsubscribe"
      /\ ~crossed' => Alone' /\ ~crossed
  BY <1>1, <1>2, <1>3, <1>4, Started
<1>6. TokenShape'
  BY <1>1, <1>5 DEF SignOut, TokenShape
<1>7. ASSUME ~crossed', rejects' = 0 PROVE Followed'
  BY <1>5, <1>7 DEF Followed, SignOut, Away, Present, Served, IsRunning
<1>8. QED BY <1>6, <1>7 DEF TokenInv

LEMMA TurnedOn ==
    ASSUME TokenInv, TurnOn
    PROVE  TokenInv'
<1> DEFINE first == [turnOn |-> "subscribe"]
<1>1. TokenShape
  BY DEF TokenInv
<1>2. DOMAIN first = {"turnOn"} /\ first["turnOn"] = "subscribe"
  OBVIOUS
<1>3. DOMAIN first \subseteq Kinds /\ \A k \in DOMAIN first : first[k] \in Steps[k]
  BY <1>2 DEF Kinds, Steps
<1>4. Start(first)
  BY DEF TurnOn
<1> HIDE DEF first
<1>5. /\ chain' \in [Chains -> Links] /\ (\A c \in Chains : OnItsWay(c)') /\ crossed' \in BOOLEAN
      /\ \A c \in Chains : \/ chain'[c] = chain[c]
                           \/ c[1] = "turnOn" /\ ~IsRunning(c) /\ chain'[c].at = "subscribe"
      /\ \E c \in Chains : c[1] = "turnOn" /\ chain'[c].at = "subscribe"
      /\ ~crossed' => Alone' /\ ~crossed
  BY <1>1, <1>2, <1>3, <1>4, Started
<1>6. TokenShape'
  BY <1>1, <1>5 DEF TurnOn, TokenShape
<1>7. ASSUME ~crossed', rejects' = 0 PROVE Followed'
  <2>1. Followed /\ Alone' /\ user # None
    BY <1>5, <1>7 DEF TurnOn, TokenInv
  <2>2. Agreeing
    <3>1. \A c \in Chains : c[1] = "turnOff" => ~IsRunning(c)
      BY <2>1, <1>5 DEF Alone, IsRunning
    <3>2. QED BY <2>1, <3>1 DEF Followed, Served, TurningOff
  <2>3. Away' /\ Present'
    BY <2>1, <1>1, <1>5 DEF TurnOn, Followed, Away, Present, IsRunning
  <2>4. Agreeing'
    BY <2>2, <1>1, <1>5 DEF TurnOn, Agreeing, IsRunning
  <2>5. QED BY <2>1, <2>3, <2>4 DEF Followed, Served
<1>8. QED BY <1>6, <1>7 DEF TokenInv

LEMMA TurnedOff ==
    ASSUME TokenInv, TurnOff
    PROVE  TokenInv'
<1> DEFINE first == [turnOff |-> "unsubscribe"]
<1>1. TokenShape
  BY DEF TokenInv
<1>2. DOMAIN first = {"turnOff"} /\ first["turnOff"] = "unsubscribe"
  OBVIOUS
<1>3. DOMAIN first \subseteq Kinds /\ \A k \in DOMAIN first : first[k] \in Steps[k]
  BY <1>2 DEF Kinds, Steps
<1>4. Start(first)
  BY DEF TurnOff
<1> HIDE DEF first
<1>5. /\ chain' \in [Chains -> Links] /\ (\A c \in Chains : OnItsWay(c)') /\ crossed' \in BOOLEAN
      /\ \A c \in Chains : \/ chain'[c] = chain[c]
                           \/ c[1] = "turnOff" /\ ~IsRunning(c) /\ chain'[c].at = "unsubscribe"
      /\ \E c \in Chains : c[1] = "turnOff" /\ chain'[c].at = "unsubscribe"
      /\ ~crossed' => Alone' /\ ~crossed
  BY <1>1, <1>2, <1>3, <1>4, Started
<1>6. TokenShape'
  BY <1>1, <1>5 DEF TurnOff, TokenShape
<1>7. ASSUME ~crossed', rejects' = 0 PROVE Followed'
  <2>1. Followed /\ Alone' /\ user # None
    BY <1>5, <1>7 DEF TurnOff, TokenInv
  <2>2. Away' /\ Present'
    BY <2>1, <1>1, <1>5 DEF TurnOff, Followed, Away, Present, IsRunning
  <2>3. TurningOff'
    BY <1>5 DEF TurningOff, IsRunning
  <2>4. QED BY <2>1, <2>2, <2>3 DEF Followed, Served
<1>8. QED BY <1>6, <1>7 DEF TokenInv

LEMMA Pushed ==
    ASSUME TokenInv, PushEvent
    PROVE  TokenInv'
<1> DEFINE first == [push |-> "load"]
<1>1. TokenShape
  BY DEF TokenInv
<1>2. DOMAIN first = {"push"} /\ first["push"] = "load"
  OBVIOUS
<1>3. DOMAIN first \subseteq Kinds /\ \A k \in DOMAIN first : first[k] \in Steps[k]
  BY <1>2 DEF Kinds, Steps
<1>4. Start(first)
  BY DEF PushEvent
<1> HIDE DEF first
<1>5. /\ chain' \in [Chains -> Links] /\ (\A c \in Chains : OnItsWay(c)') /\ crossed' \in BOOLEAN
      /\ \A c \in Chains : \/ chain'[c] = chain[c]
                           \/ c[1] = "push" /\ ~IsRunning(c) /\ chain'[c].at = "load"
      /\ \E c \in Chains : c[1] = "push" /\ chain'[c].at = "load"
      /\ ~crossed' => Alone' /\ ~crossed
  BY <1>1, <1>2, <1>3, <1>4, Started
<1>6. TokenShape'
  BY <1>1, <1>5 DEF PushEvent, TokenShape
<1>7. ASSUME ~crossed', rejects' = 0 PROVE Followed'
  <2>1. Followed /\ Alone' /\ subscription # 0
    BY <1>5, <1>7 DEF PushEvent, TokenInv
  <2>2. \A c \in Chains : c[1] \in {"leave", "turnOff"} => ~IsRunning(c)
    BY <2>1, <1>5 DEF Alone, IsRunning
  <2>3. user # None
    BY <2>1, <2>2 DEF Followed, Away
  <2>4. Agreeing
    BY <2>1, <2>2, <2>3 DEF Followed, Served, TurningOff
  <2>5. Away' /\ Present'
    BY <2>1, <2>3, <1>1, <1>5 DEF PushEvent, Followed, Away, Present, IsRunning
  <2>6. Agreeing'
    BY <2>4, <1>1, <1>5 DEF PushEvent, Agreeing, IsRunning
  <2>7. QED BY <2>1, <2>5, <2>6 DEF Followed, Served
<1>8. QED BY <1>6, <1>7 DEF TokenInv

LEMMA Reloaded ==
    ASSUME TokenInv, Reload
    PROVE  TokenInv'
<1>1. TokenShape /\ Done \in Links /\ [Done EXCEPT !.at = "look"] \in Links /\ [Done EXCEPT !.at = "notify"] \in Links
  BY DEF TokenInv, Done, Links, Places
<1>2. <<"ensure", 1>> \in Chains /\ <<"enroll", 1>> \in Chains
  BY SWTokenAssumption DEF Chains, Steps
<1>3. /\ chain' \in [Chains -> Links]
      /\ \A c \in Chains : \/ c[1] = "push" /\ chain'[c] = chain[c]
                           \/ c = <<"ensure", 1>> /\ chain'[c].at = "look"
                           \/ c = <<"enroll", 1>> /\ chain'[c].at = "notify"
                           \/ chain'[c].at = "done"
      /\ chain'[<<"ensure", 1>>].at = "look" /\ chain'[<<"enroll", 1>>].at = "notify"
  <2>1. chain' = [c \in Chains |->
                   CASE c[1] = "push" -> chain[c]
                     [] c = <<"ensure", 1>> -> [Done EXCEPT !.at = "look"]
                     [] c = <<"enroll", 1>> -> [Done EXCEPT !.at = "notify"]
                     [] OTHER -> Done]
    BY DEF Reload
  <2>2. ASSUME NEW c \in Chains
        PROVE  \/ c[1] = "push" /\ chain'[c] = chain[c]
               \/ c = <<"ensure", 1>> /\ chain'[c] = [Done EXCEPT !.at = "look"]
               \/ c = <<"enroll", 1>> /\ chain'[c] = [Done EXCEPT !.at = "notify"]
               \/ chain'[c] = Done
    BY <2>1
  <2>3. chain' \in [Chains -> Links]
    BY <1>1, <2>1, <2>2 DEF TokenShape
  <2>4. chain'[<<"ensure", 1>>] = [Done EXCEPT !.at = "look"] /\ chain'[<<"enroll", 1>>] = [Done EXCEPT !.at = "notify"]
    BY <1>2, <2>1
  <2>5. QED BY <2>2, <2>3, <2>4 DEF Done
<1>4. TokenShape'
  <2>1. \A c \in Chains : OnItsWay(c)'
    BY <1>1, <1>3 DEF TokenShape, OnItsWay
  <2>2. QED BY <1>1, <1>3, <2>1 DEF Reload, TokenShape, Running
<1>5. ASSUME ~crossed', rejects' = 0 PROVE Followed'
  <2>1. Followed /\ user # None /\ \A c \in Chains : chain[c].at \notin {"enable", "unsubscribe", "disable", "clear"}
    BY <1>1, <1>5 DEF Reload, TokenInv, Running, TokenShape
  <2>2. Alone'
    BY <1>3 DEF Alone, IsRunning
  <2>3. \A c \in Chains : c[1] = "turnOff" => ~IsRunning(c)
    <3>1. \A c \in Chains : c[1] = "turnOff" => chain[c].at \in {"done", "unsubscribe", "disable"}
      BY <1>1 DEF TokenShape, OnItsWay, Links, Places
    <3>2. QED BY <2>1, <3>1 DEF IsRunning
  <2>4. Agreeing
    BY <2>1, <2>3 DEF Followed, Served, TurningOff
  <2>5. Away' /\ Present'
    BY <1>1, <1>2, <1>3, <2>1 DEF Reload, Followed, Away, Present, IsRunning, TokenShape, OnItsWay
  <2>6. Agreeing'
    BY <1>1, <1>2, <1>3, <2>1, <2>4 DEF Reload, Agreeing, IsRunning, TokenShape, OnItsWay
  <2>7. QED BY <2>2, <2>5, <2>6 DEF Followed, Served
<1>6. QED BY <1>4, <1>5 DEF TokenInv

-----------------------------------------------------------------------------
LEMMA TokenLooked ==
    ASSUME TokenInv, NEW c \in Chains, LookForToken(c)
    PROVE  TokenInv'
<1>1. TokenShape /\ c[1] = "ensure"
  BY DEF TokenInv, TokenShape, OnItsWay, LookForToken
<1>2. /\ chain' \in [Chains -> Links]
      /\ chain'[c].at = IF token = None THEN "ask" ELSE "done"
      /\ \A d \in Chains : d # c => chain'[d] = chain[d]
      /\ \A d \in Chains : OnItsWay(d)'
      /\ crossed' \in BOOLEAN
      /\ ~crossed' => Alone' /\ ~crossed
  <2>1. CASE token = None
    <3>1. Go(c, "ask") /\ "ask" \in Places /\ "ask" \in Steps[c[1]]
      BY <1>1, <2>1 DEF LookForToken, Places, Steps
    <3>2. QED BY <1>1, <2>1, <3>1, OneGoes
  <2>2. CASE token # None
    BY <1>1, <2>2, OneEnds DEF LookForToken
  <2>3. QED BY <2>1, <2>2
<1>3. TokenShape'
  BY <1>1, <1>2 DEF LookForToken, TokenShape
<1>4. ASSUME ~crossed', rejects' = 0 PROVE Followed'
  <2>1. Followed /\ Alone'
    BY <1>2, <1>4 DEF LookForToken, TokenInv
  <2>2. Away' /\ Present'
    BY <1>1, <1>2, <2>1 DEF LookForToken, Followed, Alone, Away, Present, IsRunning
  <2>3. Served'
    BY <1>1, <1>2, <2>1 DEF LookForToken, Followed, Served, TurningOff, Agreeing, IsRunning
  <2>4. QED BY <2>1, <2>2, <2>3 DEF Followed
<1>5. QED BY <1>3, <1>4 DEF TokenInv

LEMMA TokenAsked ==
    ASSUME TokenInv, NEW c \in Chains, AskForToken(c)
    PROVE  TokenInv'
<1>1. TokenShape /\ c[1] = "ensure"
  BY DEF TokenInv, TokenShape, OnItsWay, AskForToken
<1>2. /\ chain' \in [Chains -> Links]
      /\ IF user = None THEN chain'[c].at = "done" ELSE chain'[c].at = "store" /\ chain'[c].of = user
      /\ \A d \in Chains : d # c => chain'[d] = chain[d]
      /\ \A d \in Chains : OnItsWay(d)'
      /\ crossed' \in BOOLEAN
      /\ ~crossed' => Alone' /\ ~crossed
  <2>1. CASE user # None
    <3> DEFINE x == [chain[c] EXCEPT !.at = "store", !.of = user]
    <3>1. chain[c] \in Links /\ user \in Users \union {None}
      BY <1>1 DEF TokenShape
    <3>2. x \in Links /\ x.at = "store" /\ x.of = user
      BY <3>1 DEF Links, Places
    <3>3. "store" \in Steps[c[1]]
      BY <1>1 DEF Steps
    <3>4. Set([chain EXCEPT ![c] = x])
      BY <1>1, <2>1 DEF AskForToken, TokenShape
    <3> HIDE DEF x
    <3>5. QED BY <1>1, <2>1, <3>2, <3>3, <3>4, OneMoves
  <2>2. CASE user = None
    BY <1>1, <2>2, OneEnds DEF AskForToken
  <2>3. QED BY <2>1, <2>2
<1>3. TokenShape'
  BY <1>1, <1>2 DEF AskForToken, TokenShape
<1>4. ASSUME ~crossed', rejects' = 0 PROVE Followed'
  <2>1. Followed /\ Alone' /\ IsRunning(c)
    BY <1>2, <1>4 DEF AskForToken, TokenInv, IsRunning
  <2>2. Away' /\ Present'
    BY <1>1, <1>2, <2>1 DEF AskForToken, Followed, Alone, Away, Present, IsRunning
  <2>3. Served'
    BY <1>1, <1>2, <2>1 DEF AskForToken, Followed, Served, TurningOff, Agreeing, IsRunning
  <2>4. QED BY <2>1, <2>2, <2>3 DEF Followed
<1>5. QED BY <1>3, <1>4 DEF TokenInv

\* The token that is stored, or saved, is the user's.
LEMMA TokenStored ==
    ASSUME TokenInv, NEW c \in Chains, StoreToken(c) \/ SaveToken(c)
    PROVE  TokenInv'
<1>1. TokenShape /\ c[1] \in {"ensure", "push"}
  BY DEF TokenInv, TokenShape, OnItsWay, StoreToken, SaveToken
<1>2. /\ chain' \in [Chains -> Links] /\ chain'[c].at = "done"
      /\ \A d \in Chains : d # c => chain'[d] = chain[d]
      /\ \A d \in Chains : OnItsWay(d)'
      /\ crossed' \in BOOLEAN
      /\ ~crossed' => Alone' /\ ~crossed
  BY <1>1, OneEnds DEF StoreToken, SaveToken
<1>3. /\ chain[c].at \in {"store", "save"} /\ token' = chain[c].of
      /\ UNCHANGED <<user, subscription, issued, registered, notify, events, rejects>>
  BY DEF StoreToken, SaveToken
<1>4. TokenShape'
  BY <1>1, <1>2, <1>3 DEF TokenShape, Links
<1>5. ASSUME ~crossed', rejects' = 0 PROVE Followed'
  <2>1. Followed /\ Alone' /\ IsRunning(c)
    BY <1>2, <1>3, <1>5 DEF TokenInv, IsRunning
  <2>2. user # None
    BY <1>1, <2>1 DEF Followed, Alone, Away, IsRunning
  <2>3. Away' /\ Present'
    BY <1>1, <1>2, <1>3, <2>1, <2>2 DEF Followed, Away, Present, IsRunning
  <2>4. Served'
    BY <1>1, <1>2, <1>3, <2>1 DEF Followed, Served, TurningOff, Agreeing, IsRunning
  <2>5. QED BY <2>1, <2>3, <2>4 DEF Followed
<1>6. QED BY <1>4, <1>5 DEF TokenInv

LEMMA TokenCleared ==
    ASSUME TokenInv, NEW c \in Chains, ClearToken(c)
    PROVE  TokenInv'
<1>1. TokenShape /\ c[1] = "leave" /\ chain[c].at = "clear"
  BY DEF TokenInv, TokenShape, OnItsWay, ClearToken
<1>2. /\ chain' \in [Chains -> Links] /\ chain'[c].at = "done"
      /\ \A d \in Chains : d # c => chain'[d] = chain[d]
      /\ \A d \in Chains : OnItsWay(d)'
      /\ crossed' \in BOOLEAN
      /\ ~crossed' => Alone' /\ ~crossed
  BY <1>1, OneEnds DEF ClearToken
<1>3. TokenShape'
  BY <1>1, <1>2 DEF ClearToken, TokenShape
<1>4. ASSUME ~crossed', rejects' = 0 PROVE Followed'
  <2>1. Followed /\ Alone' /\ IsRunning(c)
    BY <1>1, <1>2, <1>4 DEF ClearToken, TokenInv, IsRunning
  <2>2. \A d \in Chains : d # c => ~IsRunning(d)
    BY <1>1, <2>1 DEF Followed, Alone
  <2>3. user = None /\ subscription = 0
    BY <1>1, <2>1, <2>2 DEF Followed, Present, Away
  <2>4. Away' /\ Present' /\ Served'
    BY <1>2, <2>2, <2>3 DEF ClearToken, Away, Present, Served, IsRunning
  <2>5. QED BY <2>1, <2>4 DEF Followed
<1>5. QED BY <1>3, <1>4 DEF TokenInv

-----------------------------------------------------------------------------
LEMMA TokenLoaded ==
    ASSUME TokenInv, NEW c \in Chains, LoadToken(c)
    PROVE  TokenInv'
<1>1. TokenShape /\ c[1] = "push"
  BY DEF TokenInv, TokenShape, OnItsWay, LoadToken
<1>2. /\ chain' \in [Chains -> Links]
      /\ IF token = None THEN chain'[c].at = "done" ELSE chain'[c].at = "fetch" /\ chain'[c].of = token
      /\ \A d \in Chains : d # c => chain'[d] = chain[d]
      /\ \A d \in Chains : OnItsWay(d)'
      /\ crossed' \in BOOLEAN
      /\ ~crossed' => Alone' /\ ~crossed
  <2>1. CASE token # None
    <3> DEFINE x == [chain[c] EXCEPT !.at = "fetch", !.of = token]
    <3>1. chain[c] \in Links /\ token \in Users \union {None}
      BY <1>1 DEF TokenShape
    <3>2. x \in Links /\ x.at = "fetch" /\ x.of = token
      BY <3>1 DEF Links, Places
    <3>3. "fetch" \in Steps[c[1]]
      BY <1>1 DEF Steps
    <3>4. Set([chain EXCEPT ![c] = x])
      BY <1>1, <2>1 DEF LoadToken, TokenShape
    <3> HIDE DEF x
    <3>5. QED BY <1>1, <2>1, <3>2, <3>3, <3>4, OneMoves
  <2>2. CASE token = None
    BY <1>1, <2>2, OneEnds DEF LoadToken
  <2>3. QED BY <2>1, <2>2
<1>3. TokenShape'
  BY <1>1, <1>2 DEF LoadToken, TokenShape
<1>4. ASSUME ~crossed', rejects' = 0 PROVE Followed'
  <2>1. Followed /\ Alone' /\ IsRunning(c)
    BY <1>2, <1>4 DEF LoadToken, TokenInv, IsRunning
  <2>2. Away' /\ Present'
    BY <1>1, <1>2, <2>1 DEF LoadToken, Followed, Alone, Away, Present, IsRunning
  <2>3. Served'
    BY <1>1, <1>2, <2>1 DEF LoadToken, Followed, Served, TurningOff, Agreeing, IsRunning
  <2>4. QED BY <2>1, <2>2, <2>3 DEF Followed
<1>5. QED BY <1>3, <1>4 DEF TokenInv

LEMMA UpdatesFetched ==
    ASSUME TokenInv, NEW c \in Chains, FetchUpdates(c)
    PROVE  TokenInv'
<1>1. TokenShape /\ c[1] = "push"
  BY DEF TokenInv, TokenShape, OnItsWay, FetchUpdates
<1>2. /\ chain' \in [Chains -> Links]
      /\ \/ chain'[c].at = "done"
         \/ chain'[c].at = "save" /\ chain'[c].of = chain[c].of
      /\ \A d \in Chains : d # c => chain'[d] = chain[d]
      /\ \A d \in Chains : OnItsWay(d)'
      /\ crossed' \in BOOLEAN
      /\ ~crossed' => Alone' /\ ~crossed
  <2>1. CASE Go(c, "save")
    <3>1. "save" \in Places /\ "save" \in Steps[c[1]]
      BY <1>1 DEF Places, Steps
    <3>2. QED BY <1>1, <2>1, <3>1, OneGoes
  <2>2. CASE End(c)
    BY <1>1, <2>2, OneEnds
  <2>3. QED BY <2>1, <2>2 DEF FetchUpdates
<1>3. TokenShape'
  BY <1>1, <1>2 DEF FetchUpdates, TokenShape
<1>4. ASSUME ~crossed', rejects' = 0 PROVE Followed'
  <2>1. Followed /\ Alone' /\ IsRunning(c)
    BY <1>2, <1>4 DEF FetchUpdates, TokenInv, IsRunning
  <2>2. Away' /\ Present'
    BY <1>1, <1>2, <2>1 DEF FetchUpdates, Followed, Alone, Away, Present, IsRunning
  <2>3. Served'
    BY <1>1, <1>2, <2>1 DEF FetchUpdates, Followed, Served, TurningOff, Agreeing, IsRunning
  <2>4. QED BY <2>1, <2>2, <2>3 DEF Followed
<1>5. QED BY <1>3, <1>4 DEF TokenInv

-----------------------------------------------------------------------------
\* isNotifyEnabledPromise, isExistingSubscriptionPromise: of the chains that would
\* subscribe, one goes on as long as there is a need.
LEMMA Enrolled ==
    ASSUME TokenInv, NEW c \in Chains, IsNotifyEnabled(c) \/ IsExistingSubscription(c)
    PROVE  TokenInv'
<1>1. TokenShape /\ c[1] = "enroll" /\ chain[c].at \in {"notify", "existing"}
  BY DEF TokenInv, TokenShape, OnItsWay, IsNotifyEnabled, IsExistingSubscription
<1>2. /\ chain' \in [Chains -> Links]
      /\ chain'[c].at \in {"done", "existing", "subscribe"}
      /\ chain'[c].at = "done" => user \notin notify \/ subscription # 0
      /\ \A d \in Chains : d # c => chain'[d] = chain[d]
      /\ \A d \in Chains : OnItsWay(d)'
      /\ crossed' \in BOOLEAN
      /\ ~crossed' => Alone' /\ ~crossed
  <2>1. CASE Go(c, "existing") \/ Go(c, "subscribe")
    <3>1. {"existing", "subscribe"} \subseteq Places /\ {"existing", "subscribe"} \subseteq Steps[c[1]]
      BY <1>1 DEF Places, Steps
    <3>2. PICK at \in {"existing", "subscribe"} : Go(c, at)
      BY <2>1
    <3>3. QED BY <1>1, <3>1, <3>2, OneGoes
  <2>2. CASE End(c) /\ (user \notin notify \/ subscription # 0)
    BY <1>1, <2>2, OneEnds
  <2>3. QED BY <2>1, <2>2 DEF IsNotifyEnabled, IsExistingSubscription
<1>3. UNCHANGED <<user, token, subscription, issued, registered, notify, events, rejects>>
  BY DEF IsNotifyEnabled, IsExistingSubscription
<1>4. TokenShape'
  BY <1>1, <1>2, <1>3 DEF TokenShape
<1>5. ASSUME ~crossed', rejects' = 0 PROVE Followed'
  <2>1. Followed /\ Alone' /\ IsRunning(c)
    BY <1>1, <1>2, <1>3, <1>5 DEF TokenInv, IsRunning
  <2>2. Away' /\ Present'
    BY <1>1, <1>2, <1>3, <2>1 DEF Followed, Alone, Away, Present, IsRunning
  <2>3. Served'
    BY <1>1, <1>2, <1>3, <2>1 DEF Followed, Served, TurningOff, Agreeing, IsRunning
  <2>4. QED BY <2>1, <2>2, <2>3 DEF Followed
<1>6. QED BY <1>4, <1>5 DEF TokenInv

\* Chains that subscribe get one endpoint and keep it until the backend has it.
LEMMA Subscribed ==
    ASSUME TokenInv, NEW c \in Chains, Subscribe(c)
    PROVE  TokenInv'
<1>1. TokenShape /\ c[1] \in {"enroll", "turnOn"} /\ chain[c].at = "subscribe"
  BY DEF TokenInv, TokenShape, OnItsWay, Subscribe
<1>2. /\ subscription' \in Nat \ {0} /\ issued' \in Nat
      /\ subscription # 0 => subscription' = subscription
  BY <1>1 DEF Subscribe, TokenShape
<1>3. /\ chain' \in [Chains -> Links]
      /\ chain'[c].at = "enable" /\ chain'[c].endpoint = subscription'
      /\ \A d \in Chains : d # c => chain'[d] = chain[d]
      /\ \A d \in Chains : OnItsWay(d)'
      /\ crossed' \in BOOLEAN
      /\ ~crossed' => Alone' /\ ~crossed
  <2> DEFINE x == [chain[c] EXCEPT !.at = "enable", !.endpoint = subscription']
  <2>1. chain[c] \in Links
    BY <1>1 DEF TokenShape
  <2>2. x \in Links /\ x.at = "enable" /\ x.endpoint = subscription'
    BY <1>2, <2>1 DEF Links, Places
  <2>3. "enable" \in Steps[c[1]]
    BY <1>1 DEF Steps
  <2>4. Set([chain EXCEPT ![c] = x])
    BY <1>1 DEF Subscribe, TokenShape
  <2> HIDE DEF x
  <2>5. QED BY <1>1, <2>2, <2>3, <2>4, OneMoves
<1>4. TokenShape'
  BY <1>1, <1>2, <1>3 DEF Subscribe, TokenShape
<1>5. ASSUME ~crossed', rejects' = 0 PROVE Followed'
  <2>1. Followed /\ Alone' /\ IsRunning(c)
    BY <1>1, <1>3, <1>5 DEF Subscribe, TokenInv, IsRunning
  <2>2. user # None
    BY <1>1, <2>1 DEF Followed, Alone, Away, IsRunning
  <2>3. Away' /\ Present'
    BY <1>1, <1>3, <2>1, <2>2 DEF Subscribe, Followed, Away, Present, IsRunning
  <2>4. Agreeing
    BY <1>1, <2>1, <2>2 DEF Followed, Alone, Served, TurningOff
  <2>5. Agreeing'
    BY <1>1, <1>2, <1>3, <2>4 DEF Subscribe, Agreeing, IsRunning
  <2>6. QED BY <2>1, <2>3, <2>5 DEF Followed, Served
<1>6. QED BY <1>4, <1>5 DEF TokenInv

LEMMA NotificationsEnabled ==
    ASSUME TokenInv, NEW c \in Chains, EnableNotifications(c)
    PROVE  TokenInv'
<1>1. TokenShape /\ c[1] \in {"enroll", "turnOn"} /\ chain[c].at = "enable"
  BY DEF TokenInv, TokenShape, OnItsWay, EnableNotifications
<1>2. /\ chain' \in [Chains -> Links] /\ chain'[c].at = "done"
      /\ \A d \in Chains : d # c => chain'[d] = chain[d]
      /\ \A d \in Chains : OnItsWay(d)'
      /\ crossed' \in BOOLEAN
      /\ ~crossed' => Alone' /\ ~crossed
  BY <1>1, OneEnds DEF EnableNotifications
<1>3. /\ registered' \in [Users -> SUBSET Nat] /\ notify' \subseteq Users
      /\ user # None => user \in notify' /\ chain[c].endpoint \in registered'[user]
  <2>1. CASE user = None
    BY <1>1, <2>1 DEF EnableNotifications, TokenShape
  <2>2. CASE user # None
    BY <1>1, <2>2 DEF EnableNotifications, TokenShape, Links
  <2>3. QED BY <2>1, <2>2
<1>4. TokenShape'
  BY <1>1, <1>2, <1>3 DEF EnableNotifications, TokenShape
<1>5. ASSUME ~crossed', rejects' = 0 PROVE Followed'
  <2>1. Followed /\ Alone' /\ IsRunning(c)
    BY <1>1, <1>2, <1>5 DEF EnableNotifications, TokenInv, IsRunning
  <2>2. user # None
    BY <1>1, <2>1 DEF Followed, Alone, Away, IsRunning
  <2>3. Away' /\ Present'
    BY <1>1, <1>2, <2>1, <2>2 DEF EnableNotifications, Followed, Away, Present, IsRunning
  <2>4. Agreeing
    BY <1>1, <2>1, <2>2 DEF Followed, Alone, Served, TurningOff
  <2>5. Agreeing'
    BY <1>1, <1>2, <1>3, <2>2, <2>4 DEF EnableNotifications, Agreeing, IsRunning
  <2>6. QED BY <2>1, <2>3, <2>5 DEF Followed, Served
<1>6. QED BY <1>4, <1>5 DEF TokenInv

LEMMA Unsubscribed ==
    ASSUME TokenInv, NEW c \in Chains, Unsubscribe(c)
    PROVE  TokenInv'
<1>1. TokenShape /\ c[1] \in {"leave", "turnOff"} /\ chain[c].at = "unsubscribe"
  BY DEF TokenInv, TokenShape, OnItsWay, Unsubscribe
<1>2. /\ chain' \in [Chains -> Links]
      /\ chain'[c].at = IF c[1] = "leave" THEN "clear" ELSE "disable"
      /\ \A d \in Chains : d # c => chain'[d] = chain[d]
      /\ \A d \in Chains : OnItsWay(d)'
      /\ crossed' \in BOOLEAN
      /\ ~crossed' => Alone' /\ ~crossed
  <2> DEFINE at == IF c[1] = "leave" THEN "clear" ELSE "disable"
  <2>1. at \in Places /\ at \in Steps[c[1]]
    BY <1>1 DEF Places, Steps
  <2>2. Go(c, at)
    BY DEF Unsubscribe
  <2> HIDE DEF at
  <2>3. chain'[c].at = at /\ chain' \in [Chains -> Links]
      /\ (\A d \in Chains : d # c => chain'[d] = chain[d])
      /\ (\A d \in Chains : OnItsWay(d)')
      /\ crossed' \in BOOLEAN
      /\ (~crossed' => Alone' /\ ~crossed)
    BY <1>1, <2>1, <2>2, OneGoes
  <2>4. QED BY <2>3 DEF at
<1>3. TokenShape'
  BY <1>1, <1>2 DEF Unsubscribe, TokenShape
<1>4. ASSUME ~crossed', rejects' = 0 PROVE Followed'
  <2>1. Followed /\ Alone' /\ IsRunning(c)
    BY <1>1, <1>2, <1>4 DEF Unsubscribe, TokenInv, IsRunning
  <2>2. \A d \in Chains : d # c => ~IsRunning(d)
    BY <1>1, <2>1 DEF Followed, Alone
  <2>3. Away' /\ Present' /\ Served'
    BY <1>1, <1>2, <2>1, <2>2 DEF Unsubscribe, Followed, Away, Present, Served, TurningOff, IsRunning
  <2>4. QED BY <2>1, <2>3 DEF Followed
<1>5. QED BY <1>3, <1>4 DEF TokenInv

LEMMA NotificationsDisabled ==
    ASSUME TokenInv, NEW c \in Chains, DisableNotifications(c)
    PROVE  TokenInv'
<1>1. TokenShape /\ c[1] = "turnOff" /\ chain[c].at = "disable"
  BY DEF TokenInv, TokenShape, OnItsWay, DisableNotifications
<1>2. /\ chain' \in [Chains -> Links] /\ chain'[c].at = "done"
      /\ \A d \in Chains : d # c => chain'[d] = chain[d]
      /\ \A d \in Chains : OnItsWay(d)'
      /\ crossed' \in BOOLEAN
      /\ ~crossed' => Alone' /\ ~crossed
  BY <1>1, OneEnds DEF DisableNotifications
<1>3. TokenShape'
  BY <1>1, <1>2 DEF DisableNotifications, TokenShape
<1>4. ASSUME ~crossed', rejects' = 0 PROVE Followed'
  <2>1. Followed /\ Alone' /\ IsRunning(c)
    BY <1>1, <1>2, <1>4 DEF DisableNotifications, TokenInv, IsRunning
  <2>2. \A d \in Chains : d # c => ~IsRunning(d)
    BY <1>1, <2>1 DEF Followed, Alone
  <2>3. user # None
    BY <1>1, <2>1, <2>2 DEF Followed, Away
  <2>4. subscription = 0
    BY <1>1, <2>1, <2>2, <2>3 DEF Followed, Served, TurningOff, Agreeing
  <2>5. Away' /\ Present' /\ Served'
    BY <1>1, <1>2, <2>1, <2>2, <2>3, <2>4 DEF DisableNotifications, Followed, Away, Present, Served, Agreeing, IsRunning
  <2>6. QED BY <2>1, <2>5 DEF Followed
<1>5. QED BY <1>3, <1>4 DEF TokenInv

LEMMA Rejected ==
    ASSUME TokenInv, NEW c \in Chains, Reject(c)
    PROVE  TokenInv'
<1>1. TokenShape /\ rejects' \in Nat \ {0}
  BY DEF TokenInv, TokenShape, Reject
<1>2. /\ chain' \in [Chains -> Links] /\ \A d \in Chains : OnItsWay(d)'
      /\ crossed' \in BOOLEAN
  BY <1>1, OneEnds DEF Reject
<1>3. QED BY <1>1, <1>2 DEF Reject, TokenShape, TokenInv

-----------------------------------------------------------------------------
LEMMA TokenStep == TokenInv /\ [SWTokenNext]_swVars => TokenInv'
<1> SUFFICES ASSUME TokenInv, [SWTokenNext]_swVars PROVE TokenInv'
  OBVIOUS
<1>1. CASE UNCHANGED swVars
  BY <1>1 DEF swVars, TokenInv, TokenShape, OnItsWay, Followed, Alone, Away, Present, Served,
              TurningOff, Agreeing, IsRunning
<1>2. CASE SWTokenNext
  BY <1>2, SignedIn, SignedOut, TurnedOn, TurnedOff, Pushed, Reloaded, TokenLooked, TokenAsked,
     TokenStored, TokenCleared, TokenLoaded, UpdatesFetched, Enrolled, Subscribed,
     NotificationsEnabled, Unsubscribed, NotificationsDisabled, Rejected
     DEF SWTokenNext
<1>3. QED BY <1>1, <1>2

(***************************************************************************)
(* BrowserFollowsUser, for any number of users and of chains of each kind: *)
(* once the chains of promises of sign-in, sign-out, settings and push     *)
(* events have ended, the token is the user's and the browser is           *)
(* subscribed, under an endpoint the backend has, if and only if its user  *)
(* has notifications on (auth.js, notifications.js, bootstrap.js), unless  *)
(* a promise rejected or something was taken back while another chain ran. *)
(***************************************************************************)
THEOREM BrowserServesItsUser == SWTokenSpec => []BrowserFollowsUser
<1>1. TokenInv => BrowserFollowsUser
  <2> SUFFICES ASSUME TokenInv, Quiet, ~crossed, rejects = 0
               PROVE  /\ token = user
                      /\ subscription # 0 <=> user \in notify
                      /\ subscription # 0 => subscription \in registered[user]
    BY DEF BrowserFollowsUser
  <2>1. TokenShape /\ Followed /\ \A c \in Chains : ~IsRunning(c)
    BY DEF TokenInv, Quiet, Running, IsRunning
  <2>2. CASE user = None
    BY <2>1, <2>2, SWTokenAssumption DEF Followed, Away, TokenShape
  <2>3. CASE user # None
    BY <2>1, <2>3 DEF Followed, Present, Served, TurningOff, Agreeing, IsRunning
  <2>4. QED BY <2>2, <2>3
<1>2. QED BY <1>1, TokenStart, TokenStep, PTL DEF SWTokenSpec

=============================================================================
