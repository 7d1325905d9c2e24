----------------------------- MODULE BrowserProofs -----------------------------
(***************************************************************************)
(* Theorems about the parts of MCBrowser: My Schedule with its offline     *)
(* queue, the page router, the countdown and the globe; then the           *)
(* instruments, the audio engine, the drums, the link of a composition,    *)
(* and the stage, which is the hexagons and the guitar; last the types of  *)
(* all of them.                                                            *)
(*                                                                         *)
(* A user who lets the page finish before signing out leaves nothing       *)
(* behind: for every set of users and sessions and all bounds, no change   *)
(* of one user is sent with the token of another.                          *)
(*                                                                         *)
(* The invariant that carries the proof ties the three places where a      *)
(* change can be to the user who is signed in.  The queue is the only one  *)
(* that may hold changes of somebody else, and only while its deletion,    *)
(* asked for at the sign-out, is pending; a replay cannot open the         *)
(* database before that is over.                                           *)
(*                                                                         *)
(* The second half proves that no promised retry is lost.  Its invariant   *)
(* says of each session where the last change is, and that nothing older   *)
(* is behind it on the way to the queue or to the backend.                 *)
(*                                                                         *)
(* The third part proves that what is shown is what is stored.  The page   *)
(* and the backend may differ while something is outstanding: its          *)
(* invariant names, for every session on which they differ, the request,   *)
(* the answer or the queued change that will settle it.                    *)
(*                                                                         *)
(* The page router's invariant says, of each thing that is not yet as it   *)
(* should be, which transition under way will see to it.  It is needed     *)
(* because the transitions overlap: none can rely on being the last.       *)
(*                                                                         *)
(* The colours of the countdown are in order because each of them says how *)
(* many seconds were left when it was asked for (Reached), and ripples are *)
(* asked for in the order of the time that is left.                        *)
(*                                                                         *)
(* The tree of the globe's markers: the order of the markers is total, so  *)
(* a set of them has exactly one of each rank (counting), which is the     *)
(* split; the sizes of the parts of a complete tree then say which         *)
(* positions are filled. While a search is under way, a marker that is     *)
(* near enough and not yet found lies under the current position or under  *)
(* one on the stack (NotMissed).                                           *)
(*                                                                         *)
(* The types need more than themselves: that the queued sessions are       *)
(* finitely many and so a request finds a free identity, how long a fade   *)
(* and how far ahead the sequencer can be, what the tracks of an           *)
(* instrument are made of, that the grid of the hexagons is a grid, and    *)
(* that the ripples of the countdown are a sequence.                       *)
(***************************************************************************)
EXTENDS MCBrowser, SequenceTheorems, FiniteSetTheorems, FunctionTheorems,
        WellFoundedInduction, TLAPS


\* A request in flight is a record, sent on behalf of the user signed in.
OwnCall(c) ==
    /\ c = [id |-> c.id, kind |-> c.kind, phase |-> c.phase, session |-> c.session,
            method |-> c.method, user |-> c.user, by |-> c.by]
    /\ c.by = user /\ c.user = user

OwnFailing ==
    /\ failing \in Seq([session : Sessions, method : Methods, by : Users])
    /\ \A i \in 1..Len(failing) : failing[i].by = user

OwnQueue == ~clearing => \A s \in Sessions : queue[s] # None => queue[s].by = user

\* Nobody is signed in: nothing is on its way, and what is left is to be deleted.
SignedOut == user = None => calls = {} /\ failing = <<>> /\ page = "out" /\
                            (\A s \in Sessions : queue[s] # None => clearing)

OwnInv ==
    /\ \A c \in calls : OwnCall(c) /\ c.session \in Sessions /\ c.method \in Methods
    /\ OwnFailing /\ OwnQueue /\ SignedOut
    /\ user \in Users \union {None}
    /\ queue \in [Sessions -> Entries \union {None}]
    /\ clearing \in BOOLEAN

-----------------------------------------------------------------------------
(* Initially nothing is queued, failing or in flight. *)
LEMMA OwnInit == Init => OwnInv
<1> SUFFICES ASSUME Init PROVE OwnInv
  OBVIOUS
<1>1. OwnFailing
  <2>1. failing = <<>>
    BY DEF Init
  <2> QED BY <2>1 DEF OwnFailing
<1>2. queue \in [Sessions -> Entries \union {None}] /\ OwnQueue
  BY DEF Init, NoEntries, OwnQueue
<1> QED BY <1>1, <1>2 DEF Init, OwnInv, OwnQueue, SignedOut, NoEntries

(* A request leaves the set of requests in flight, possibly into the queue's
   waiting line: what the five kinds of answer have in common. *)
LEMMA AnswerKeeps ==
  ASSUME OwnInv, NEW c \in calls, calls' = calls \ {c},
         failing' \in {failing, Keep(c)}, queue' \in {queue, AfterSuccess(c)},
         page' \in {page, "loading"}, UNCHANGED <<user, clearing>>
  PROVE  OwnInv'
<1>1. user # None /\ user \in Users
  BY DEF OwnInv, SignedOut
<1>2. OwnFailing'
  <2>1. CASE failing' = failing
    BY <2>1 DEF OwnInv, OwnFailing
  <2>2. CASE failing' = Keep(c)
    <3>1. [session |-> c.session, method |-> c.method, by |-> c.by]
              \in [session : Sessions, method : Methods, by : Users]
      BY <1>1 DEF OwnInv, OwnCall
    <3>2. c.by = user
      BY DEF OwnInv, OwnCall
    <3> QED BY <2>2, <3>1, <3>2 DEF Keep, OwnInv, OwnFailing
  <2> QED BY <2>1, <2>2
<1>3. queue' \in [Sessions -> Entries \union {None}] /\ OwnQueue'
  BY DEF AfterSuccess, OwnInv, OwnQueue
<1>4. \A d \in calls' : OwnCall(d)' /\ d.session \in Sessions /\ d.method \in Methods
  BY DEF OwnInv, OwnCall
<1> QED BY <1>1, <1>2, <1>3, <1>4 DEF OwnInv, SignedOut

(* Every step keeps the invariant when users are patient: signing out is then
   possible only when nothing is on its way. *)
LEMMA OwnStep == ASSUME Patient, OwnInv, [Next]_vars PROVE OwnInv'
<1> USE OfflineQueueAssumption
<1>1. ASSUME NEW s \in Sessions, ToggleSaveSession(s) PROVE OwnInv'
  BY <1>1 DEF ToggleSaveSession, OwnInv, OwnCall, OwnFailing, OwnQueue, SignedOut, Methods
<1>2. ASSUME NEW u \in Users, SignIn(u) PROVE OwnInv'
  BY <1>2 DEF SignIn, OwnInv, OwnCall, OwnFailing, OwnQueue, SignedOut
<1>3. CASE Reload
  BY <1>3 DEF Reload, Quiet, OwnInv, OwnCall, OwnFailing, OwnQueue, SignedOut
<1>4. CASE SignOut
  BY <1>4 DEF SignOut, Quiet, OwnInv, OwnCall, OwnFailing, OwnQueue, SignedOut
<1>5. CASE ClearQueuedRequests
  BY <1>5 DEF ClearQueuedRequests, NoEntries, OwnInv, OwnCall, OwnFailing, OwnQueue, SignedOut
<1>6. CASE QueueFailedRequest
  <2> DEFINE f == Head(failing)
  <2>1. f \in [session : Sessions, method : Methods, by : Users] /\ f.by = user
    <3>1. failing \in Seq([session : Sessions, method : Methods, by : Users]) /\ failing # <<>>
      BY <1>6 DEF QueueFailedRequest, OwnInv, OwnFailing
    <3>2. 1 \in 1..Len(failing) /\ f = failing[1]
      BY <3>1
    <3>3. failing[1] \in [session : Sessions, method : Methods, by : Users]
      <4> DEFINE S == [session : Sessions, method : Methods, by : Users]
      <4>1. failing \in Seq(S) /\ 1 \in 1..Len(failing)
        BY <3>1, <3>2
      <4> HIDE DEF S, f
      <4>2. failing[1] \in S
        BY <4>1
      <4> QED BY <4>2 DEF S
    <3>4. failing[1].by = user
      <4> HIDE DEF f
      <4>1. \A i \in 1..Len(failing) : failing[i].by = user
        BY DEF OwnInv, OwnFailing
      <4> QED BY <3>2, <4>1
    <3> HIDE DEF f
    <3> QED BY <3>2, <3>3, <3>4
  <2>2. OwnFailing'
    BY <1>6 DEF QueueFailedRequest, OwnInv, OwnFailing
  <2>3. queue' = [queue EXCEPT ![f.session] = [method |-> f.method, by |-> f.by]]
    BY <1>6 DEF QueueFailedRequest
  <2>4. [method |-> f.method, by |-> f.by] \in Entries
    BY <2>1 DEF Entries
  <2> HIDE DEF f
  <2>5. queue' \in [Sessions -> Entries \union {None}]
    BY <2>1, <2>3, <2>4 DEF OwnInv
  <2>6. OwnQueue'
    BY <1>6, <2>1, <2>3 DEF QueueFailedRequest, OwnInv, OwnQueue
  <2>7. user # None
    BY <1>6 DEF QueueFailedRequest, OwnInv, SignedOut
  <2> QED BY <1>6, <2>2, <2>5, <2>6, <2>7 DEF QueueFailedRequest, OwnInv, OwnCall, SignedOut
<1>7. CASE ReplayQueuedRequests
  <2>1. user # None
    BY <1>7 DEF ReplayQueuedRequests, OwnInv, SignedOut
  <2>2. \A c \in ReplayCalls : OwnCall(c) /\ c.session \in Sessions /\ c.method \in Methods
    <3> SUFFICES ASSUME NEW c \in ReplayCalls
                 PROVE  OwnCall(c) /\ c.session \in Sessions /\ c.method \in Methods
      OBVIOUS
    <3>1. PICK s \in Queued :
             /\ c.session = s /\ c.method = queue[s].method
             /\ c.user = user /\ c.by = queue[s].by
             /\ c = [id |-> c.id, kind |-> c.kind, phase |-> c.phase, session |-> c.session,
                     method |-> c.method, user |-> c.user, by |-> c.by]
      BY DEF ReplayCalls
    <3>2. s \in Sessions /\ queue[s] # None
      BY DEF Queued
    <3>3. queue[s] \in Entries
      BY <3>2 DEF OwnInv
    <3>4. queue[s].method \in Methods
      BY <3>3 DEF Entries
    <3>5. queue[s].by = user
      BY <1>7, <3>2 DEF ReplayQueuedRequests, OwnInv, OwnQueue
    <3> QED BY <3>1, <3>2, <3>4, <3>5 DEF OwnCall
  <2>3. calls' = calls \union ReplayCalls
    BY <1>7 DEF ReplayQueuedRequests
  <2>4. \A c \in calls' : OwnCall(c) /\ c.session \in Sessions /\ c.method \in Methods
    BY <2>2, <2>3 DEF OwnInv
  <2>5. user' = user
    BY <1>7 DEF ReplayQueuedRequests
  <2>6. \A c \in calls' : OwnCall(c)'
    BY <2>4, <2>5 DEF OwnCall
  <2> QED BY <1>7, <2>1, <2>4, <2>6
          DEF ReplayQueuedRequests, OwnInv, OwnFailing, OwnQueue, SignedOut
<1>8. ASSUME NEW c \in calls, Serve(c) PROVE OwnInv'
  <2> DEFINE d == [c EXCEPT !.phase = "served"]
  <2>1. calls' = (calls \ {c}) \union {d} /\ user' = user
    BY <1>8 DEF Serve
  <2>2. OwnCall(d) /\ d.session \in Sessions /\ d.method \in Methods
    BY DEF OwnInv, OwnCall
  <2> HIDE DEF d
  <2>3. \A e \in calls' : OwnCall(e)' /\ e.session \in Sessions /\ e.method \in Methods
    BY <2>1, <2>2 DEF OwnInv, OwnCall
  <2> QED BY <1>8, <2>3 DEF Serve, OwnInv, OwnFailing, OwnQueue, SignedOut
<1>9. ASSUME NEW c \in calls, Succeed(c) PROVE OwnInv'
  BY <1>9, AnswerKeeps DEF Succeed, AfterReplay
<1>10. ASSUME NEW c \in calls, NetworkError(c) PROVE OwnInv'
  BY <1>10, AnswerKeeps DEF NetworkError, AfterReplay
<1>11. ASSUME NEW c \in calls, ServerError(c) PROVE OwnInv'
  BY <1>11, AnswerKeeps DEF ServerError, AfterReplay
<1>12. ASSUME NEW c \in calls, ClientError(c) PROVE OwnInv'
  BY <1>12, AnswerKeeps DEF ClientError, AfterReplay
<1>13. CASE LoadUserSchedule
  BY <1>13 DEF LoadUserSchedule, OwnInv, OwnCall, OwnFailing, OwnQueue, SignedOut
<1>14. CASE UpdateSavedSessionsUI
  BY <1>14 DEF UpdateSavedSessionsUI, OwnInv, OwnCall, OwnFailing, OwnQueue, SignedOut
<1>15. CASE UNCHANGED vars
  BY <1>15 DEF vars, OwnInv, OwnCall, OwnFailing, OwnQueue, SignedOut
<1> QED BY <1>1, <1>2, <1>3, <1>4, <1>5, <1>6, <1>7, <1>8, <1>9, <1>10, <1>11, <1>12,
           <1>13, <1>14, <1>15 DEF Next

(***************************************************************************)
(* No change is ever sent in another user's name, in every execution in    *)
(* which users let the page finish before they sign out: the order         *)
(* "delete the database, then open it" of auth.js and schedule.js is       *)
(* enough.                                                                 *)
(***************************************************************************)
THEOREM OwnChangesHold == Patient /\ Spec => []OwnChanges
<1>1. OwnInv => OwnChanges
  BY DEF OwnInv, OwnCall, OwnChanges
<1>2. Patient /\ OwnInv /\ [Next]_vars => OwnInv'
  BY OwnStep
<1>3. SUFFICES ASSUME Patient PROVE Spec => []OwnChanges
  OBVIOUS
<1>4. OwnInv /\ [Next]_vars => OwnInv'
  BY <1>2, <1>3
<1> QED BY <1>1, <1>4, OwnInit, PTL DEF Spec

-----------------------------------------------------------------------------
(* What was promised is kept *)

\* The user was told that the last change of the session will be retried.
Owed(s) == owed[s] # None /\ owed[s].cause = "network"

\* The waiting line decides what the queue will hold: its last change of the
\* session, or what the queue holds already.
InLine(s) == \E i \in 1..Len(failing) : failing[i].session = s
LastInLine(s, method) ==
    \E i \in 1..Len(failing) :
       /\ failing[i].session = s /\ failing[i].method = method
       /\ \A j \in 1..Len(failing) : j > i => failing[j].session # s
WillBeQueued(s, method) ==
    IF InLine(s) THEN LastInLine(s, method) ELSE queue[s] # None /\ queue[s].method = method

OneCall == \A c, d \in calls : c.session = d.session => c = d

\* A replay repeats what is promised, and ends the promise when it is served.
ReplaysPromise ==
    \A c \in calls :
       /\ c.kind \in {"click", "replay"}
       /\ c.kind = "replay" /\ Owed(c.session) =>
             c.phase = "sent" /\ c.method = owed[c.session].method

NothingOpening == page = "opening" => calls = {} /\ failing = <<>>

NothingOwedClearing ==
    clearing => calls = {} /\ page \in {"out", "opening"} /\ \A s \in Sessions : ~Owed(s)

Promising == \A s \in Sessions : Owed(s) => WillBeQueued(s, owed[s].method)

\* The inductive invariant, given OwnInv.
RetryInv ==
    /\ owed \in [Sessions -> Promises \union {None}]
    /\ OneCall /\ ReplaysPromise /\ NothingOpening /\ NothingOwedClearing /\ Promising

Failed == [session : Sessions, method : Methods, by : Users]

(* A change that joins the waiting line is the last of its session, and
   leaves those of the others as they are. *)
LEMMA JoinsLine ==
  ASSUME failing \in Seq(Failed), NEW e \in Failed, failing' = Append(failing, e),
         NEW s, NEW m, queue'[s] = queue[s]
  PROVE  /\ s = e.session /\ m = e.method => WillBeQueued(s, m)'
         /\ s # e.session /\ WillBeQueued(s, m) => WillBeQueued(s, m)'
<1>1. /\ Len(failing) \in Nat /\ Len(failing') = Len(failing) + 1
      /\ failing'[Len(failing) + 1] = e
      /\ \A i \in 1..Len(failing) : failing'[i] = failing[i]
  OBVIOUS
<1>2. s = e.session /\ m = e.method => InLine(s)' /\ LastInLine(s, m)'
  BY <1>1 DEF InLine, LastInLine
<1>3. s # e.session => (InLine(s)' <=> InLine(s))
  BY <1>1 DEF InLine
<1>4. s # e.session /\ LastInLine(s, m) => LastInLine(s, m)'
  BY <1>1 DEF LastInLine
<1> QED BY <1>2, <1>3, <1>4 DEF WillBeQueued

(* The first of the line goes into the queue: what will be queued in the end
   is the same. *)
LEMMA LeavesLine ==
  ASSUME OwnInv, failing \in Seq(Failed), QueueFailedRequest, NEW s \in Sessions, NEW m,
         WillBeQueued(s, m)
  PROVE  WillBeQueued(s, m)'
<1> DEFINE f == failing[1]
<1>1. Len(failing) \in Nat \ {0} /\ f \in Failed
  BY DEF QueueFailedRequest
<1>2. /\ Len(failing') = Len(failing) - 1
      /\ \A i \in 1..Len(failing') : failing'[i] = failing[i + 1]
  BY <1>1 DEF QueueFailedRequest
<1>3. queue' = [queue EXCEPT ![f.session] = [method |-> f.method, by |-> f.by]]
  <2>1. f = Head(failing)
    BY <1>1
  <2> HIDE DEF f
  <2>2. queue' = [queue EXCEPT ![Head(failing).session] =
                               [method |-> Head(failing).method, by |-> Head(failing).by]]
    BY DEF QueueFailedRequest
  <2> QED BY <2>1, <2>2
<1>4. [method |-> f.method, by |-> f.by] \in Entries
  BY <1>1 DEF Failed, Entries
<1>5. queue'[s] = IF s = f.session THEN [method |-> f.method, by |-> f.by] ELSE queue[s]
  BY <1>3 DEF OwnInv
<1> HIDE DEF f
<1>6. CASE InLine(s)'
  <2>1. InLine(s)
    BY <1>1, <1>2, <1>6 DEF InLine
  <2>2. PICK i \in 1..Len(failing) :
           /\ failing[i].session = s /\ failing[i].method = m
           /\ \A j \in 1..Len(failing) : j > i => failing[j].session # s
    BY <2>1 DEF WillBeQueued, LastInLine
  <2>3. PICK k \in 1..Len(failing') : failing'[k].session = s
    BY <1>6 DEF InLine
  <2>4. k + 1 \in 1..Len(failing) /\ failing[k + 1].session = s
    BY <1>1, <1>2, <2>3
  <2>5. i # 1
    BY <1>1, <1>2, <2>2, <2>3, <2>4
  <2>6. i - 1 \in 1..Len(failing') /\ failing'[i - 1] = failing[i]
    BY <1>1, <1>2, <2>2, <2>5
  <2>7. \A j \in 1..Len(failing') : j > i - 1 => failing'[j].session # s
    BY <1>1, <1>2, <2>2
  <2>8. LastInLine(s, m)'
    BY <2>2, <2>6, <2>7 DEF LastInLine
  <2> QED BY <1>6, <2>8 DEF WillBeQueued
<1>7. CASE ~InLine(s)'
  <2>1. CASE InLine(s)
    <3>1. PICK i \in 1..Len(failing) : failing[i].session = s /\ failing[i].method = m
      BY <2>1 DEF WillBeQueued, LastInLine
    <3>2. i = 1
      <4>1. SUFFICES ASSUME i # 1 PROVE FALSE
        OBVIOUS
      <4>2. i - 1 \in 1..Len(failing') /\ failing'[i - 1] = failing[i]
        BY <1>1, <1>2, <3>1, <4>1
      <4> QED BY <1>7, <3>1, <4>2 DEF InLine
    <3>3. queue'[s] = [method |-> m, by |-> f.by] /\ queue'[s] \in Entries
      BY <1>4, <1>5, <3>1, <3>2 DEF f
    <3> QED BY <1>7, <3>3, OfflineQueueAssumption DEF WillBeQueued
  <2>2. CASE ~InLine(s)
    <3>1. f.session # s
      BY <1>1, <2>2 DEF InLine, f
    <3> QED BY <1>5, <1>7, <2>2, <3>1 DEF WillBeQueued
  <2> QED BY <2>1, <2>2
<1> QED BY <1>6, <1>7

LEMMA RetryInit == Init => RetryInv
BY DEF Init, NoEntries, RetryInv, OneCall, ReplaysPromise, NothingOpening, NothingOwedClearing,
       Promising, Owed

(* The line, the queue and the promises stay, the requests do not grow. *)
LEMMA RetryRests ==
  ASSUME RetryInv, calls' \subseteq calls, UNCHANGED <<failing, queue, owed>>,
         page' = "opening" => page = "opening" \/ (calls = {} /\ failing = <<>>),
         clearing' => clearing /\ page' \in {page, "out", "opening"}
  PROVE  RetryInv'
<1>1. Promising'
  BY DEF RetryInv, Promising, Owed, WillBeQueued, InLine, LastInLine
<1> QED BY <1>1 DEF RetryInv, OneCall, ReplaysPromise, NothingOpening, NothingOwedClearing, Owed

(* A request is answered: the queue loses no entry that is promised, and
   what is promised now is the last change in the line. *)
LEMMA AnswerKeepsPromise ==
  ASSUME OwnInv, RetryInv, NEW c \in calls, calls' = calls \ {c},
         page' \in {page, "loading"}, clearing' = clearing,
         owed' \in [Sessions -> Promises \union {None}],
         \A s \in Sessions \ {c.session} : owed'[s] = owed[s] /\ queue'[s] = queue[s],
         Owed(c.session)' => WillBeQueued(c.session, owed[c.session].method)',
         failing' \in {failing, Keep(c)}
  PROVE  RetryInv'
<1>1. c.session \in Sessions /\ c.method \in Methods /\ c.by \in Users
  BY DEF OwnInv, OwnCall, SignedOut
<1>2. failing \in Seq(Failed)
  BY DEF OwnInv, OwnFailing, Failed
<1>3. OneCall' /\ NothingOpening'
  BY DEF RetryInv, OneCall, NothingOpening
<1>4. \A d \in calls' : d \in calls /\ d.session # c.session /\ d.session \in Sessions
  BY DEF RetryInv, OneCall, OwnInv
<1>5. ReplaysPromise'
  BY <1>4 DEF RetryInv, ReplaysPromise, Owed
<1>6. NothingOwedClearing'
  BY DEF RetryInv, NothingOwedClearing
<1>7. Promising'
  <2> SUFFICES ASSUME NEW s \in Sessions, Owed(s)' PROVE WillBeQueued(s, owed[s].method)'
    BY DEF Promising
  <2>1. CASE s = c.session
    BY <2>1
  <2>2. CASE s # c.session
    <3>1. owed'[s] = owed[s] /\ queue'[s] = queue[s] /\ WillBeQueued(s, owed[s].method)
      BY <2>2 DEF RetryInv, Promising, Owed
    <3>2. CASE failing' = failing
      BY <3>1, <3>2 DEF WillBeQueued, InLine, LastInLine
    <3>3. CASE failing' = Keep(c)
      <4> DEFINE e == [session |-> c.session, method |-> c.method, by |-> c.by]
      <4>1. e \in Failed /\ e.session = c.session
        BY <1>1 DEF Failed
      <4>2. failing' = Append(failing, e)
        BY <3>3 DEF Keep
      <4> HIDE DEF e
      <4>3. PICK m : m = owed[s].method /\ m = owed'[s].method
        BY <3>1
      <4>4. WillBeQueued(s, m)
        BY <3>1, <4>3 DEF WillBeQueued, LastInLine
      <4>5. WillBeQueued(s, m)'
        BY <1>2, <2>2, <3>1, <4>1, <4>2, <4>4, JoinsLine
      <4> QED BY <4>3, <4>5 DEF WillBeQueued, LastInLine
    <3> QED BY <3>2, <3>3
  <2> QED BY <2>1, <2>2
<1> QED BY <1>3, <1>5, <1>6, <1>7 DEF RetryInv

LEMMA ServeKeepsPromise ==
  ASSUME OwnInv, RetryInv, NEW c \in calls, Serve(c)
  PROVE  RetryInv'
<1> DEFINE d == [c EXCEPT !.phase = "served"]
<1>1. /\ calls' = (calls \ {c}) \union {d}
      /\ UNCHANGED <<page, queue, failing, clearing>>
  BY DEF Serve
<1>2. d.session = c.session /\ d.kind = c.kind /\ c.session \in Sessions /\ c.user = user
  BY DEF OwnInv, OwnCall
<1> HIDE DEF d
<1>3. owed' = owed \/ owed' = [owed EXCEPT ![c.session] = None]
  BY DEF Serve
<1>4. owed' \in [Sessions -> Promises \union {None}]
  BY <1>3 DEF RetryInv
<1>5. \A s \in Sessions : Owed(s)' => owed'[s] = owed[s] /\ Owed(s)
  BY <1>2, <1>3 DEF RetryInv, Owed
<1>6. c.kind = "replay" => ~Owed(c.session)'
  <2>1. SUFFICES ASSUME c.kind = "replay", Owed(c.session) PROVE ~Owed(c.session)'
    BY <1>2, <1>5
  <2>2. Promised(c.session, c.method)
    BY <2>1 DEF RetryInv, ReplaysPromise, Owed, Promised
  <2>3. owed' = [owed EXCEPT ![c.session] = None]
    BY <1>2, <2>2 DEF Serve
  <2> QED BY <1>2, <2>3 DEF RetryInv, Owed
<1>7. OneCall'
  BY <1>1, <1>2 DEF RetryInv, OneCall
<1>8. ReplaysPromise'
  <2> SUFFICES ASSUME NEW e \in calls'
               PROVE  /\ e.kind \in {"click", "replay"}
                      /\ e.kind = "replay" /\ Owed(e.session)' =>
                            e.phase = "sent" /\ e.method = owed'[e.session].method
    BY DEF ReplaysPromise
  <2>1. CASE e = d
    BY <1>2, <1>6, <2>1 DEF RetryInv, ReplaysPromise
  <2>2. CASE e \in calls
    BY <1>5, <2>2 DEF RetryInv, ReplaysPromise, OwnInv
  <2> QED BY <1>1, <2>1, <2>2
<1>9. NothingOpening' /\ NothingOwedClearing'
  BY <1>1 DEF RetryInv, NothingOpening, NothingOwedClearing
<1>10. Promising'
  BY <1>1, <1>5 DEF RetryInv, Promising, WillBeQueued, InLine, LastInLine
<1> QED BY <1>4, <1>7, <1>8, <1>9, <1>10 DEF RetryInv

LEMMA ReplayKeepsPromise ==
  ASSUME OwnInv, RetryInv, ReplayQueuedRequests
  PROVE  RetryInv'
<1>1. calls = {} /\ failing = <<>>
  BY DEF ReplayQueuedRequests, RetryInv, NothingOpening
<1>2. /\ calls' = ReplayCalls /\ UNCHANGED <<queue, failing, owed, clearing>>
      /\ ~clearing
  BY <1>1 DEF ReplayQueuedRequests
<1>3. \A c \in ReplayCalls :
         /\ c.session \in Queued /\ c.kind = "replay" /\ c.phase = "sent"
         /\ c.method = queue[c.session].method
  BY DEF ReplayCalls
<1>4. \A c, d \in ReplayCalls : c.session = d.session => c = d
  BY DEF ReplayCalls
<1>5. ReplaysPromise'
  <2>1. \A s \in Sessions : Owed(s) => queue[s].method = owed[s].method
    BY <1>1 DEF RetryInv, Promising, WillBeQueued, InLine
  <2> QED BY <1>2, <1>3, <2>1 DEF ReplaysPromise, Owed, Queued
<1>6. OneCall'
  BY <1>2, <1>4 DEF OneCall
<1>7. page' # "opening" \/ (calls' = {} /\ failing' = <<>>)
  BY DEF ReplayQueuedRequests
<1>8. Promising'
  BY <1>2 DEF RetryInv, Promising, Owed, WillBeQueued, InLine, LastInLine
<1> QED BY <1>2, <1>5, <1>6, <1>7, <1>8 DEF RetryInv, NothingOpening, NothingOwedClearing

LEMMA FailureKeepsPromise ==
  ASSUME OwnInv, RetryInv, NEW c \in calls, NetworkError(c) \/ ServerError(c)
  PROVE  RetryInv'
<1> DEFINE s == c.session
<1>1. s \in Sessions /\ c.method \in Methods /\ c.user = user /\ c.by \in Users
  BY DEF OwnInv, OwnCall, SignedOut
<1>2. /\ calls' = calls \ {c} /\ page' \in {page, "loading"}
      /\ UNCHANGED <<queue, clearing>>
  BY DEF NetworkError, ServerError, AfterReplay
<1>3. PICK cause \in {"network", "server"} :
         /\ owed' = Promise(c, cause)
         /\ failing' = IF cause = "network" THEN Keep(c) ELSE failing
  BY DEF NetworkError, ServerError
<1>4. owed' = IF c.kind = "click"
              THEN [owed EXCEPT ![s] = [method |-> c.method, cause |-> cause]] ELSE owed
  BY <1>1, <1>3 DEF Promise
<1>5. [method |-> c.method, cause |-> cause] \in Promises
  BY <1>1 DEF Promises
<1>6. owed' \in [Sessions -> Promises \union {None}]
  BY <1>4, <1>5 DEF RetryInv
<1>7. Owed(s)' => WillBeQueued(s, owed[s].method)'
  <2> SUFFICES ASSUME Owed(s)' PROVE WillBeQueued(s, owed[s].method)'
    OBVIOUS
  <2>1. CASE cause = "network"
    <3> DEFINE e == [session |-> s, method |-> c.method, by |-> c.by]
    <3>1. e \in Failed /\ e.session = s /\ e.method = c.method
      BY <1>1 DEF Failed
    <3>2. failing' = Append(failing, e) /\ failing \in Seq(Failed)
      BY <1>3, <2>1 DEF Keep, OwnInv, OwnFailing, Failed
    <3> HIDE DEF e
    <3>3. owed'[s].method = c.method
      <4>1. CASE c.kind = "click"
        BY <1>1, <1>4, <4>1 DEF RetryInv
      <4>2. CASE c.kind = "replay"
        BY <1>4, <4>2 DEF RetryInv, ReplaysPromise, Owed
      <4> QED BY <4>1, <4>2 DEF RetryInv, ReplaysPromise
    <3>4. WillBeQueued(s, c.method)'
      BY <1>2, <3>1, <3>2, JoinsLine
    <3> QED BY <3>3, <3>4 DEF WillBeQueued, LastInLine
  <2>2. CASE cause = "server"
    <3>1. failing' = failing
      BY <1>3, <2>2
    <3>2. c.kind # "click"
      BY <1>1, <1>4, <2>2 DEF RetryInv, Owed
    <3>3. owed' = owed
      BY <1>4, <3>2
    <3> QED BY <1>1, <1>2, <3>1, <3>3
            DEF RetryInv, Promising, Owed, WillBeQueued, InLine, LastInLine
  <2> QED BY <2>1, <2>2
<1>8. \A t \in Sessions \ {s} : owed'[t] = owed[t] /\ queue'[t] = queue[t]
  BY <1>2, <1>4 DEF RetryInv
<1>9. failing' \in {failing, Keep(c)}
  BY <1>3
<1> QED BY <1>2, <1>6, <1>7, <1>8, <1>9, AnswerKeepsPromise

LEMMA RetryStep == ASSUME Patient, OwnInv, RetryInv, [Next]_vars PROVE RetryInv'
<1>1. ASSUME NEW s \in Sessions, ToggleSaveSession(s) PROVE RetryInv'
  <2> DEFINE c == [id |-> FreeId, kind |-> "click", phase |-> "sent", session |-> s,
                   method |-> IF s \in saved THEN "DELETE" ELSE "PUT", user |-> user, by |-> user]
  <2>1. calls' = calls \union {c} /\ c.session = s /\ c.kind = "click"
    BY <1>1 DEF ToggleSaveSession
  <2> HIDE DEF c
  <2>2. page = "ready" /\ ~Busy(s) /\ UNCHANGED <<page, queue, failing, clearing, owed>>
    BY <1>1 DEF ToggleSaveSession
  <2>3. OneCall' /\ ReplaysPromise'
    BY <2>1, <2>2 DEF RetryInv, OneCall, ReplaysPromise, Busy, Owed
  <2>4. NothingOpening' /\ NothingOwedClearing'
    BY <2>2 DEF RetryInv, NothingOpening, NothingOwedClearing
  <2>5. Promising'
    BY <2>2 DEF RetryInv, Promising, Owed, WillBeQueued, InLine, LastInLine
  <2> QED BY <2>2, <2>3, <2>4, <2>5 DEF RetryInv
<1>2. ASSUME NEW u \in Users, SignIn(u) PROVE RetryInv'
  BY <1>2, RetryRests DEF SignIn, OwnInv, SignedOut
<1>3. CASE Reload
  <2>1. calls = {} /\ calls' = {} /\ failing = <<>>
    BY <1>3 DEF Reload, Quiet
  <2> QED BY <1>3, <2>1, RetryRests DEF Reload
<1>4. CASE SignOut
  <2>1. calls' = {} /\ page' = "out" /\ owed' = NoEntries
    BY <1>4 DEF SignOut, Quiet
  <2>2. \A s \in Sessions : owed'[s] = None
    BY <2>1 DEF NoEntries
  <2>3. owed' \in [Sessions -> Promises \union {None}]
    BY <2>1 DEF NoEntries
  <2> QED BY <2>1, <2>2, <2>3
          DEF RetryInv, OneCall, ReplaysPromise, NothingOpening, NothingOwedClearing, Promising, Owed
<1>5. CASE ClearQueuedRequests
  <2>1. clearing /\ ~clearing' /\ UNCHANGED <<page, failing, calls, owed>>
    BY <1>5 DEF ClearQueuedRequests
  <2> QED BY <2>1 DEF RetryInv, OneCall, ReplaysPromise, NothingOpening, NothingOwedClearing,
                      Promising, Owed
<1>6. CASE QueueFailedRequest
  <2>1. failing # <<>> /\ UNCHANGED <<page, calls, clearing, owed>>
    BY <1>6 DEF QueueFailedRequest
  <2>2. failing \in Seq(Failed)
    BY DEF OwnInv, OwnFailing, Failed
  <2>3. Promising'
    <3> SUFFICES ASSUME NEW s \in Sessions, Owed(s)' PROVE WillBeQueued(s, owed[s].method)'
      BY DEF Promising
    <3>1. PICK m : m = owed[s].method /\ m = owed'[s].method
      BY <2>1
    <3>2. WillBeQueued(s, m)
      BY <2>1, <3>1 DEF RetryInv, Promising, Owed, WillBeQueued, LastInLine
    <3>3. WillBeQueued(s, m)'
      BY <1>6, <2>2, <3>2, LeavesLine
    <3> QED BY <3>1, <3>3 DEF WillBeQueued, LastInLine
  <2> QED BY <2>1, <2>3 DEF RetryInv, OneCall, ReplaysPromise, NothingOpening,
                            NothingOwedClearing, Owed
<1>7. CASE ReplayQueuedRequests
  BY <1>7, ReplayKeepsPromise
<1>8. ASSUME NEW c \in calls, Serve(c) PROVE RetryInv'
  BY <1>8, ServeKeepsPromise
<1>9. ASSUME NEW c \in calls, Succeed(c) PROVE RetryInv'
  <2>1. /\ calls' = calls \ {c} /\ page' \in {page, "loading"}
        /\ UNCHANGED <<clearing, owed, failing>>
        /\ queue' = AfterSuccess(c) /\ c.phase = "served"
    BY <1>9 DEF Succeed, AfterReplay
  <2>2. \A s \in Sessions \ {c.session} : queue'[s] = queue[s]
    BY <2>1 DEF AfterSuccess, OwnInv
  <2>3. Owed(c.session)' => WillBeQueued(c.session, owed[c.session].method)'
    <3>1. CASE c.kind = "replay"
      BY <2>1, <3>1 DEF RetryInv, ReplaysPromise, Owed
    <3>2. CASE c.kind # "replay"
      <4>1. queue' = queue /\ c.session \in Sessions
        BY <2>1, <3>2 DEF AfterSuccess, OwnInv
      <4> QED BY <2>1, <4>1 DEF RetryInv, Promising, Owed, WillBeQueued, InLine, LastInLine
    <3> QED BY <3>1, <3>2
  <2>4. owed' \in [Sessions -> Promises \union {None}]
    BY <2>1 DEF RetryInv
  <2> QED BY <2>1, <2>2, <2>3, <2>4, AnswerKeepsPromise
<1>10. ASSUME NEW c \in calls, NetworkError(c) \/ ServerError(c) PROVE RetryInv'
  BY <1>10, FailureKeepsPromise
<1>11. ASSUME NEW c \in calls, ClientError(c) PROVE RetryInv'
  <2>1. /\ calls' \subseteq calls /\ page' \in {page, "loading"} /\ calls # {}
        /\ UNCHANGED <<queue, failing, clearing, owed>>
    BY <1>11 DEF ClientError, AfterReplay
  <2>2. ~clearing
    BY <2>1 DEF RetryInv, NothingOwedClearing
  <2> QED BY <2>1, <2>2, RetryRests
<1>12. CASE LoadUserSchedule \/ UpdateSavedSessionsUI
  <2>1. /\ UNCHANGED <<calls, queue, failing, clearing, owed>>
        /\ page' = page \/ (page \in {"loading", "fetching"} /\ page' \in {"fetching", "ready"})
    BY <1>12 DEF LoadUserSchedule, UpdateSavedSessionsUI
  <2>2. page' # page => ~clearing
    BY <2>1 DEF RetryInv, NothingOwedClearing
  <2> QED BY <2>1, <2>2, RetryRests
<1>13. CASE UNCHANGED vars
  BY <1>13, RetryRests DEF vars
<1> QED BY <1>1, <1>2, <1>3, <1>4, <1>5, <1>6, <1>7, <1>8, <1>9, <1>10, <1>11, <1>12, <1>13 DEF Next

(***************************************************************************)
(* A change that failed in the network, and of which the page said that it *)
(* will be retried, is not lost: for all users who let the page finish, in *)
(* any number of sessions, visits and failures, the last change of the     *)
(* session in the waiting line, else the queue, is the one promised.       *)
(***************************************************************************)
THEOREM PromisesAreKept == Patient /\ Spec => []RetryKept
<1>1. RetryInv => RetryKept
  <2> SUFFICES ASSUME RetryInv, NEW s \in Sessions, Owed(s) PROVE Kept(s, owed[s].method)
    BY DEF RetryKept, Owed
  <2>1. WillBeQueued(s, owed[s].method)
    BY DEF RetryInv, Promising
  <2> QED BY <2>1 DEF WillBeQueued, LastInLine, Kept, OnItsWay
<1>2. Patient /\ OwnInv /\ [Next]_vars => OwnInv'
  BY OwnStep
<1>3. Patient /\ OwnInv /\ RetryInv /\ [Next]_vars => RetryInv'
  BY RetryStep
<1>4. SUFFICES ASSUME Patient PROVE Spec => []RetryKept
  OBVIOUS
<1>5. OwnInv /\ [Next]_vars => OwnInv'
  BY <1>2, <1>4
<1>6. OwnInv /\ RetryInv /\ [Next]_vars => RetryInv'
  BY <1>3, <1>4
<1> QED BY <1>1, <1>5, <1>6, OwnInit, RetryInit, PTL DEF Spec

-----------------------------------------------------------------------------
(* What is shown is what is stored                                         *)

\* The queue has a change of the session, or will have it.
Handed(s) == queue[s] # None \/ InLine(s)

Agrees(s) == s \in saved <=> s \in schedule[user]

\* The answer that is on its way is true of the sessions that no replay can still change.
TrueAnswer ==
    IF page = "fetching"
    THEN \E a \in loads : loads = {a} /\ \A s \in Sessions \ early : s \in a <=> s \in schedule[user]
    ELSE loads = {}

\* Clicks are made on a page that is ready, replays that are left behind are in "early".
Origin ==
    \A c \in calls : /\ c.kind = "click" => page = "ready"
                     /\ c.kind = "replay" => page = "replaying" \/ c.session \in early

\* The click changes what is shown.  What is stored agrees until it is served, and once
\* more when it is answered.
Toggling(c) ==
    /\ c.method = IF c.session \in saved THEN "DELETE" ELSE "PUT"
    /\ IF c.phase = "sent" THEN Agrees(c.session) \/ Handed(c.session)
       ELSE c.session \in schedule[user] <=> c.method = "PUT"

ShownRight ==
    page = "ready" =>
      /\ \A c \in calls : c.session \notin early => Toggling(c)
      /\ \A s \in Sessions \ early : ~Busy(s) => Agrees(s) \/ Handed(s)

\* The inductive invariant, given OwnInv and RetryInv.
ShownInv ==
    /\ schedule \in [Users -> SUBSET Sessions]
    /\ TrueAnswer /\ Origin /\ ShownRight

\* What the other two invariants say of requests in flight and of the line.
LEMMA InFlight ==
  ASSUME OwnInv, RetryInv
  PROVE  /\ \A c \in calls : /\ c.user = user /\ user \in Users /\ user # None
                             /\ c.session \in Sessions /\ c.method \in Methods
                             /\ c.kind \in {"click", "replay"}
                             /\ [c EXCEPT !.phase = "served"] =
                                  [id |-> c.id, kind |-> c.kind, phase |-> "served", session |-> c.session,
                                   method |-> c.method, user |-> c.user, by |-> c.by]
         /\ OneCall /\ failing \in Seq(Failed) /\ queue \in [Sessions -> Entries \union {None}]
  BY DEF OwnInv, OwnCall, SignedOut, OwnFailing, RetryInv, ReplaysPromise, Failed

LEMMA ShownInit == Init => ShownInv
  BY DEF Init, ShownInv, TrueAnswer, Origin, ShownRight

\* Nothing that the invariant speaks of changes, but the line or the queue, which lose no session.
LEMMA ShownRests ==
  ASSUME ShownInv, UNCHANGED <<user, page, saved, schedule, calls, loads, early>>,
         \A s \in Sessions : Handed(s) => Handed(s)', OwnInv
  PROVE  ShownInv'
<1>1. TrueAnswer' /\ Origin'
  BY DEF ShownInv, TrueAnswer, Origin
<1>2. \A c \in calls : c.session \in Sessions /\ (Toggling(c) => Toggling(c)')
  BY DEF OwnInv, Toggling, Agrees
<1>3. ShownRight'
  BY <1>2 DEF ShownInv, ShownRight, Busy, Agrees
<1>4. QED
  BY <1>1, <1>3 DEF ShownInv

\* A page that has nothing to do with requests: it opens, or nobody is signed in.
LEMMA ShownAnew ==
  ASSUME page' \in {"out", "opening"}, calls' = {}, loads' = {}, UNCHANGED schedule, ShownInv
  PROVE  ShownInv'
  BY DEF ShownInv, TrueAnswer, Origin, ShownRight

LEMMA ClickKeepsShown ==
  ASSUME Patient, OwnInv, RetryInv, ShownInv, NEW s \in Sessions, ToggleSaveSession(s)
  PROVE  ShownInv'
<1>1. page = "ready" /\ ~Busy(s) /\ UNCHANGED <<user, page, saved, schedule, queue, failing, loads, early>>
  BY DEF ToggleSaveSession
<1>2. PICK c : /\ calls' = calls \union {c} /\ c.kind = "click" /\ c.phase = "sent" /\ c.session = s
               /\ c.method = IF s \in saved THEN "DELETE" ELSE "PUT"
  <2> DEFINE e == [id |-> FreeId, kind |-> "click", phase |-> "sent", session |-> s,
                   method |-> IF s \in saved THEN "DELETE" ELSE "PUT", user |-> user, by |-> user]
  <2>1. calls' = calls \union {e}
    BY DEF ToggleSaveSession
  <2>2. /\ e.kind = "click" /\ e.phase = "sent" /\ e.session = s
        /\ e.method = IF s \in saved THEN "DELETE" ELSE "PUT"
    OBVIOUS
  <2> HIDE DEF e
  <2>3. QED BY <2>1, <2>2
<1>3. \A t : (Agrees(t)' <=> Agrees(t)) /\ (Handed(t)' <=> Handed(t))
  BY <1>1 DEF Agrees, Handed, InLine
<1>4. TrueAnswer' /\ Origin'
  BY <1>1, <1>2 DEF ShownInv, TrueAnswer, Origin
<1>5. s \notin early => Toggling(c)'
  BY <1>1, <1>2, <1>3 DEF ShownInv, ShownRight, Toggling
<1>6. \A d \in calls : Toggling(d) => Toggling(d)'
  BY <1>1, <1>3 DEF Toggling
<1>7. \A t : ~Busy(t)' => ~Busy(t)
  BY <1>2 DEF Busy
<1>8. ShownRight'
  BY <1>1, <1>2, <1>3, <1>5, <1>6, <1>7 DEF ShownInv, ShownRight
<1>9. QED
  BY <1>1, <1>4, <1>8 DEF ShownInv

LEMMA ReplayKeepsShown ==
  ASSUME OwnInv, RetryInv, ShownInv, ReplayQueuedRequests
  PROVE  ShownInv'
<1>1. calls = {} /\ loads = {} /\ loads' = {} /\ UNCHANGED schedule
  BY DEF RetryInv, NothingOpening, ReplayQueuedRequests, ShownInv, TrueAnswer
<1>2. calls' = ReplayCalls /\ \A c \in ReplayCalls : c.kind = "replay" /\ Queued # {}
  BY <1>1 DEF ReplayQueuedRequests, ReplayCalls
<1>3. page' = IF Queued = {} THEN "loading" ELSE "replaying"
  BY DEF ReplayQueuedRequests
<1>4. QED
  BY <1>1, <1>2, <1>3 DEF ShownInv, TrueAnswer, Origin, ShownRight

LEMMA ServeKeepsShown ==
  ASSUME OwnInv, RetryInv, ShownInv, NEW c \in calls, Serve(c)
  PROVE  ShownInv'
<1> DEFINE d == [c EXCEPT !.phase = "served"]
<1>1. /\ calls' = (calls \ {c}) \union {d} /\ c.phase = "sent"
      /\ UNCHANGED <<user, page, saved, queue, failing, loads, early>>
      /\ schedule' = [schedule EXCEPT ![c.user] = Apply(@, c.session, c.method)]
  BY DEF Serve
<1>2. /\ c.user = user /\ user \in Users /\ c.session \in Sessions /\ c.method \in Methods
      /\ d.phase = "served" /\ d.session = c.session /\ d.method = c.method /\ d.kind = c.kind
      /\ OneCall /\ c.kind \in {"click", "replay"}
  BY InFlight
<1> HIDE DEF d
<1>3. /\ schedule' \in [Users -> SUBSET Sessions]
      /\ schedule'[user'] = Apply(schedule[user], c.session, c.method)
  BY <1>1, <1>2 DEF ShownInv, Apply
<1>4. \A t : t # c.session => (t \in schedule'[user'] <=> t \in schedule[user])
  BY <1>3 DEF Apply
<1>5. c.session \in schedule'[user'] <=> c.method = "PUT"
  BY <1>2, <1>3 DEF Apply, Methods
<1>6. \A t : t # c.session => (Agrees(t)' <=> Agrees(t))
  BY <1>1, <1>4 DEF Agrees
<1>7. \A t : Handed(t)' <=> Handed(t)
  BY <1>1 DEF Handed, InLine
<1>8. Origin'
  BY <1>1, <1>2 DEF ShownInv, Origin
<1>9. page = "fetching" => c.session \in early
  BY <1>2 DEF ShownInv, Origin
<1>10. TrueAnswer'
  BY <1>1, <1>4, <1>9 DEF ShownInv, TrueAnswer
<1>11. ASSUME page = "ready" PROVE ShownRight'
  <2>1. c.session \notin early => Toggling(d)'
    BY <1>1, <1>2, <1>5, <1>11 DEF ShownInv, ShownRight, Toggling
  <2>2. \A e \in calls \ {c} : e.session # c.session /\ (Toggling(e) => Toggling(e)')
    BY <1>1, <1>2, <1>4, <1>6, <1>7 DEF OneCall, Toggling
  <2>3. \A t : Busy(t)' <=> Busy(t)
    BY <1>1, <1>2 DEF Busy
  <2>4. Busy(c.session)
    BY DEF Busy
  <2>5. QED
    BY <1>1, <1>2, <1>6, <1>7, <1>11, <2>1, <2>2, <2>3, <2>4 DEF ShownInv, ShownRight
<1>12. QED
  BY <1>1, <1>3, <1>8, <1>10, <1>11 DEF ShownInv, ShownRight

(* A request is answered.  What it leaves behind: the sessions of the other
   replays if it ends the page's wait for them, and for the page that is ready
   a session that is shown as it is stored, or handed to the queue. *)
LEMMA AnswerKeepsShown ==
  ASSUME OwnInv, RetryInv, ShownInv, NEW c \in calls, calls' = calls \ {c},
         UNCHANGED <<user, schedule, loads>>,
         page' = page \/ (page = "replaying" /\ page' = "loading" /\ c.kind = "replay"),
         early' = early \/ (page = "replaying" /\ c.kind = "replay"),
         page = "replaying" =>
           page' = "replaying" \/ \A d \in calls \ {c} : d.kind = "replay" => d.session \in early',
         \A t : t # c.session => (t \in saved' <=> t \in saved) /\ (Handed(t) => Handed(t)'),
         page = "ready" /\ c.session \notin early => Agrees(c.session)' \/ Handed(c.session)'
  PROVE  ShownInv'
<1>1. OneCall /\ c.kind \in {"click", "replay"} /\ \A d \in calls : d.session \in Sessions
  BY InFlight
<1>2. Origin'
  BY <1>1 DEF ShownInv, Origin
<1>3. TrueAnswer'
  BY DEF ShownInv, TrueAnswer
<1>4. ASSUME page' = "ready" PROVE ShownRight'
  <2>1. page = "ready" /\ early' = early
    BY <1>4
  <2>2. \A t : t # c.session => (Agrees(t)' <=> Agrees(t)) /\ (Handed(t) => Handed(t)')
    BY DEF Agrees
  <2>3. \A d \in calls \ {c} : d.session # c.session /\ (Toggling(d) => Toggling(d)')
    BY <1>1, <2>2 DEF OneCall, Toggling
  <2>4. \A t : t # c.session /\ ~Busy(t)' => ~Busy(t)
    BY DEF Busy
  <2>5. QED
    BY <2>1, <2>2, <2>3, <2>4 DEF ShownInv, ShownRight
<1>5. QED
  BY <1>2, <1>3, <1>4 DEF ShownInv, ShownRight

LEMMA SucceedKeepsShown ==
  ASSUME OwnInv, RetryInv, ShownInv, NEW c \in calls, Succeed(c)
  PROVE  ShownInv'
<1>1. /\ calls' = calls \ {c} /\ c.phase = "served" /\ queue' = AfterSuccess(c)
      /\ UNCHANGED <<user, schedule, failing, loads, early>>
      /\ saved' = IF c.kind = "click" THEN Apply(saved, c.session, c.method) ELSE saved
      /\ page' = IF c.kind = "replay" THEN AfterReplay(FALSE) ELSE page
  BY DEF Succeed
<1>2. /\ c.kind \in {"click", "replay"} /\ c.session \in Sessions /\ c.method \in Methods
      /\ queue \in [Sessions -> Entries \union {None}]
      /\ \A d \in calls : d.kind \in {"click", "replay"}
  BY InFlight
<1>3. \A t : t # c.session => (t \in saved' <=> t \in saved) /\ (Handed(t) => Handed(t)')
  BY <1>1, <1>2 DEF Apply, AfterSuccess, Handed, InLine
<1>4. ASSUME page = "ready", c.session \notin early PROVE Agrees(c.session)'
  <2>1. c.kind = "click" /\ (c.session \in schedule[user] <=> c.method = "PUT")
    BY <1>1, <1>2, <1>4 DEF ShownInv, Origin, ShownRight, Toggling
  <2>2. QED
    BY <1>1, <1>2, <2>1 DEF Agrees, Apply, Methods
<1>5. page' = page \/ (page = "replaying" /\ page' = "loading" /\ c.kind = "replay")
  BY <1>1 DEF AfterReplay
<1>6. page = "replaying" => page' = "replaying" \/ \A d \in calls \ {c} : d.kind # "replay"
  BY <1>1, <1>2 DEF AfterReplay, Replays, ShownInv, Origin
<1>7. QED
  BY <1>1, <1>3, <1>4, <1>5, <1>6, AnswerKeepsShown

LEMMA FailureKeepsShown ==
  ASSUME OwnInv, RetryInv, ShownInv, NEW c \in calls, NetworkError(c) \/ ServerError(c) \/ ClientError(c)
  PROVE  ShownInv'
<1>1. /\ calls' = calls \ {c} /\ UNCHANGED <<user, schedule, saved, queue, loads>>
      /\ page' = IF c.kind = "replay" THEN AfterReplay(TRUE) ELSE page
      /\ early' = Early(c)
      /\ failing' = Keep(c) \/ (failing' = failing /\ c.phase = "sent")
  BY DEF NetworkError, ServerError, ClientError
<1>2. /\ c.kind \in {"click", "replay"} /\ c.session \in Sessions /\ failing \in Seq(Failed)
      /\ [session |-> c.session, method |-> c.method, by |-> c.by] \in Failed
  BY InFlight DEF OwnInv, OwnCall, Failed
<1>3. \A t : Handed(t) => Handed(t)'
  BY <1>1, <1>2 DEF Handed, InLine, Keep
<1>4. failing' = Keep(c) => Handed(c.session)'
  <2>1. ASSUME failing' = Keep(c) PROVE failing'[Len(failing) + 1].session = c.session /\ Len(failing') = Len(failing) + 1
    BY <1>2, <2>1 DEF Keep
  <2>2. QED
    BY <1>2, <2>1 DEF Handed, InLine
<1>5. ASSUME page = "ready", c.session \notin early PROVE Agrees(c.session)' \/ Handed(c.session)'
  BY <1>1, <1>2, <1>3, <1>4, <1>5 DEF ShownInv, Origin, ShownRight, Toggling, Agrees
<1>6. page' = page \/ (page = "replaying" /\ page' = "loading" /\ c.kind = "replay")
  BY <1>1 DEF AfterReplay
<1>7. early' = early \/ (page = "replaying" /\ c.kind = "replay")
  BY <1>1 DEF Early
<1>8. page = "replaying" =>
        page' = "replaying" \/ \A d \in calls \ {c} : d.kind = "replay" => d.session \in early'
  BY <1>1, <1>2 DEF AfterReplay, Early, Replays
<1>9. QED
  BY <1>1, <1>3, <1>5, <1>6, <1>7, <1>8, AnswerKeepsShown

\* The first of the line goes into the queue.
LEMMA QueueHolds ==
  ASSUME OwnInv, RetryInv, QueueFailedRequest, NEW s \in Sessions, Handed(s)
  PROVE  Handed(s)'
<1>1. failing \in Seq(Failed) /\ failing # <<>> /\ queue \in [Sessions -> Entries \union {None}]
  BY InFlight DEF QueueFailedRequest
<1>2. PICK f \in Failed : f = failing[1] /\ f = Head(failing)
  BY <1>1
<1>3. /\ queue' = [queue EXCEPT ![f.session] = [method |-> f.method, by |-> f.by]]
      /\ failing' = Tail(failing)
  BY <1>2 DEF QueueFailedRequest
<1>4. queue'[s] = (IF s = f.session THEN [method |-> f.method, by |-> f.by] ELSE queue[s])
  BY <1>1, <1>3
<1>5. [method |-> f.method, by |-> f.by] # None
  BY OfflineQueueAssumption DEF Failed, Entries
<1>6. CASE s = f.session
  BY <1>4, <1>5, <1>6 DEF Handed
<1>7. CASE s # f.session /\ queue[s] # None
  BY <1>4, <1>7 DEF Handed
<1>8. CASE s # f.session /\ queue[s] = None
  <2>1. PICK i \in 1..Len(failing) : failing[i].session = s
    BY <1>8 DEF Handed, InLine
  <2>2. i # 1 /\ Len(failing) \in Nat
    BY <1>1, <1>2, <1>8, <2>1
  <2>3. i - 1 \in 1..Len(failing') /\ failing'[i - 1] = failing[i]
    BY <1>1, <1>3, <2>1, <2>2
  <2>4. QED BY <2>1, <2>3 DEF Handed, InLine
<1>9. QED BY <1>6, <1>7, <1>8

LEMMA ShownStep == ASSUME Patient, OwnInv, RetryInv, ShownInv, [Next]_vars PROVE ShownInv'
<1>1. ASSUME NEW s \in Sessions, ToggleSaveSession(s) PROVE ShownInv'
  BY <1>1, ClickKeepsShown
<1>2. ASSUME NEW u \in Users, SignIn(u) PROVE ShownInv'
  BY <1>2, ShownAnew DEF SignIn, OwnInv, SignedOut, ShownInv, TrueAnswer
<1>3. CASE Reload \/ SignOut
  BY <1>3, ShownAnew DEF Reload, SignOut, Quiet
<1>4. CASE ClearQueuedRequests
  <2>1. page \in {"out", "opening"} /\ page' = page /\ calls' = {} /\ loads' = {} /\ UNCHANGED schedule
    BY <1>4 DEF ClearQueuedRequests, RetryInv, NothingOwedClearing, ShownInv, TrueAnswer
  <2>2. QED BY <2>1, ShownAnew
<1>5. CASE QueueFailedRequest
  <2>1. \A s \in Sessions : Handed(s) => Handed(s)'
    BY <1>5, QueueHolds
  <2>2. QED BY <1>5, <2>1, ShownRests DEF QueueFailedRequest
<1>6. CASE ReplayQueuedRequests
  BY <1>6, ReplayKeepsShown
<1>7. ASSUME NEW c \in calls, Serve(c) PROVE ShownInv'
  BY <1>7, ServeKeepsShown
<1>8. ASSUME NEW c \in calls, Succeed(c) PROVE ShownInv'
  BY <1>8, SucceedKeepsShown
<1>9. ASSUME NEW c \in calls, NetworkError(c) \/ ServerError(c) \/ ClientError(c) PROVE ShownInv'
  BY <1>9, FailureKeepsShown
<1>10. CASE LoadUserSchedule
  BY <1>10 DEF LoadUserSchedule, ShownInv, TrueAnswer, Origin, ShownRight
<1>11. CASE UpdateSavedSessionsUI
  <2>1. page = "fetching" /\ page' = "ready" /\ loads' = {} /\ UNCHANGED <<user, schedule, calls, early>>
    BY <1>11 DEF UpdateSavedSessionsUI, ShownInv, TrueAnswer
  <2>2. \A s \in Sessions \ early : Agrees(s)'
    BY <1>11, <2>1 DEF UpdateSavedSessionsUI, ShownInv, TrueAnswer, Agrees
  <2>3. \A c \in calls : c.session \in early
    BY <2>1, InFlight DEF ShownInv, Origin
  <2>4. QED
    BY <2>1, <2>2, <2>3 DEF ShownInv, TrueAnswer, Origin, ShownRight
<1>12. CASE UNCHANGED vars
  BY <1>12, ShownRests DEF vars, Handed, InLine
<1>13. QED
  BY <1>1, <1>2, <1>3, <1>4, <1>5, <1>6, <1>7, <1>8, <1>9, <1>10, <1>11, <1>12 DEF Next

(***************************************************************************)
(* For all users who let the page finish, in any number of sessions,       *)
(* visits and failures: a session on which nothing is outstanding is shown *)
(* as the backend stores it, or the queue has the change or will have it   *)
(* (toggleSaveSession, replayQueuedRequests, loadUserSchedule).            *)
(***************************************************************************)
THEOREM ShownOrQueuedHolds == Patient /\ Spec => []ShownOrQueued
<1>1. ShownInv => ShownOrQueued
  BY DEF ShownInv, ShownRight, ShownOrQueued, Agrees, Handed, InLine
<1>2. Patient /\ OwnInv /\ [Next]_vars => OwnInv'
  BY OwnStep
<1>3. Patient /\ OwnInv /\ RetryInv /\ [Next]_vars => RetryInv'
  BY RetryStep
<1>4. Patient /\ OwnInv /\ RetryInv /\ ShownInv /\ [Next]_vars => ShownInv'
  BY ShownStep
<1>5. SUFFICES ASSUME Patient PROVE Spec => []ShownOrQueued
  OBVIOUS
<1>6. OwnInv /\ [Next]_vars => OwnInv'
  BY <1>2, <1>5
<1>7. OwnInv /\ RetryInv /\ [Next]_vars => RetryInv'
  BY <1>3, <1>5
<1>8. OwnInv /\ RetryInv /\ ShownInv /\ [Next]_vars => ShownInv'
  BY <1>4, <1>5
<1> QED BY <1>1, <1>6, <1>7, <1>8, OwnInit, RetryInit, ShownInit, PTL DEF Spec

-----------------------------------------------------------------------------
(* The page router                                                         *)

Sections == (UNION {Subpages[p] : p \in Pages}) \union {NoSection}
Chains == [id : Nat, kind : {"page", "subpage"}, step : {"exit", "import", "render", "enter"}, left : Pages,
           page : Pages, new : Sections, attached : BOOLEAN]

RouterShape ==
    /\ start \in Places /\ currentPlace \in Places /\ end \in Places
    /\ entries \in Seq(Places) /\ at \in 1..Len(entries)
    /\ rendered \in Pages /\ shown \in Subpages[rendered] \union {NoSection}
    /\ chains \subseteq Chains /\ navigations \in Nat

\* Chains that have yet to bring the page, to show it, to change the router's state.
Bringing == {c \in chains : c.kind = "page" /\ c.step \in {"exit", "import"}}
Showing == {c \in chains : c.kind = "page" /\ c.step \in {"exit", "import", "render"}}
Sliding == {c \in chains : c.kind = "subpage" /\ c.step = "exit"}
Updating == Showing \union Sliding

\* Another page than the one shown is on its way.
PageComes ==
    end.page # rendered => \E c \in Bringing : c.step = "exit" \/ c.page = end.page

HandlerRan == rendered \in loaded \/ Bringing # {}

MastheadFollows == currentPlace.page \in {start.page, end.page} /\ masthead = currentPlace.page

\* What the last of the chains to change the router's state leaves behind.
StateFollows ==
    Updating = {} =>
      /\ currentPlace = end /\ entries[at] = currentPlace
      /\ currentPlace.sub # NoSection => shown = currentPlace.sub

NothingFaded ==
    Showing = {} =>
      /\ Masthead \notin faded
      /\ Content(rendered, end.sub) \in faded => \E c \in Sliding : c.attached /\ c.new = end.sub

DoneTold == pageTransitionDone \/ \E c \in chains : c.kind = "page"

Follows == PageComes /\ HandlerRan /\ StateFollows /\ NothingFaded /\ DoneTold

\* The inductive invariant.
RouterInv == RouterShape /\ MastheadFollows /\ (hasty \/ broken # {} \/ Follows)

-----------------------------------------------------------------------------

LEMMA PlaceIs ==
    /\ \A p \in Places : /\ p.page \in Pages
                         /\ \/ p.sub = NoSection /\ Subpages[p.page] = {}
                            \/ p.sub # NoSection /\ p.sub \in Subpages[p.page]
    /\ \A p, q \in Places : p.page = q.page /\ p.sub = q.sub => p = q
<1>1. ASSUME NEW p \in Places
      PROVE  /\ p = [page |-> p.page, sub |-> p.sub] /\ p.page \in Pages
             /\ \/ p.sub = NoSection /\ Subpages[p.page] = {}
                \/ p.sub # NoSection /\ p.sub \in Subpages[p.page]
  <2>1. PICK g \in Pages : p \in [page : {g}, sub : IF Subpages[g] = {} THEN {NoSection} ELSE Subpages[g]]
    BY DEF Places
  <2>2. p = [page |-> p.page, sub |-> p.sub] /\ p.page = g /\ p.sub \in IF Subpages[g] = {} THEN {NoSection} ELSE Subpages[g]
    BY <2>1
  <2>3. QED BY <2>2, RouterAssumption
<1>2. QED BY <1>1

\* A chain goes on with another step, and is as it was in the rest.
LEMMA GoesOn ==
    ASSUME NEW c \in Chains, NEW step \in {"exit", "import", "render", "enter"}
    PROVE  LET d == [c EXCEPT !.step = step] IN d \in Chains /\ d.step = step /\ d.kind = c.kind
<1>1. [c EXCEPT !.step = step] \in Chains
  BY DEF Chains
<1>2. QED BY <1>1 DEF Chains

LEMMA Detached ==
    ASSUME NEW c \in Chains
    PROVE  LET d == [c EXCEPT !.attached = FALSE] IN
           d \in Chains /\ d.kind = c.kind /\ d.step = c.step /\ d.page = c.page
<1>1. [c EXCEPT !.attached = FALSE] \in Chains
  BY DEF Chains
<1>2. QED BY <1>1 DEF Chains

LEMMA PlaceParts == \A p \in Places : p.page \in Pages /\ p.sub \in Sections
<1>1. NoSection \in Sections
  BY DEF Sections
<1>2. ASSUME NEW p \in Places PROVE p.page \in Pages /\ p.sub \in Sections
  <2>1. p.page \in Pages /\ (p.sub = NoSection \/ p.sub \in Subpages[p.page])
    BY PlaceIs
  <2>2. QED BY <2>1, <1>1 DEF Sections
<1>3. QED BY <1>2

LEMMA ChainsShape == RouterShape => end.page \in Pages /\ currentPlace.page \in Pages /\ chains \subseteq Chains
<1>1. RouterShape => end \in Places /\ currentPlace \in Places /\ chains \subseteq Chains
  BY DEF RouterShape
<1>2. QED BY <1>1, PlaceParts

LEMMA RouterStart == RouterInit => RouterInv
<1> SUFFICES ASSUME RouterInit PROVE RouterInv
  OBVIOUS
<1>1. PICK place \in Places :
        /\ entries = <<place>> /\ start = place /\ currentPlace = place /\ end = place
        /\ rendered = place.page /\ shown = place.sub /\ masthead = place.page /\ loaded = {place.page}
  BY DEF RouterInit
<1>2. chains = {} /\ faded = {} /\ pageTransitionDone = TRUE /\ at = 1 /\ navigations = 0
  BY DEF RouterInit
<1>3. entries \in Seq(Places) /\ Len(entries) = 1 /\ entries[1] = place
  BY <1>1
<1>4. RouterShape
  BY <1>1, <1>2, <1>3, PlaceIs DEF RouterShape
<1>5. QED
  BY <1>1, <1>2, <1>3, <1>4 DEF RouterInv, MastheadFollows, Follows, PageComes, HandlerRan, StateFollows,
     NothingFaded, DoneTold

\* What navigate does to the router's own types.
LEMMA NavigateShape ==
    ASSUME RouterShape, NEW place \in Places, Navigate(place), entries' = entries, at' \in 1..Len(entries)
    PROVE  RouterShape'
<1>1. currentPlace.page \in Pages /\ NoSection \in Sections
  BY ChainsShape DEF Sections
<1>2. place.sub \in Sections
  BY PlaceParts
<1>3. chains' \subseteq Chains /\ navigations' \in Nat
  <2>1. \A k \in {"page", "subpage"} : \A to \in Sections : Chain(k, currentPlace.page, to) \in Chains
    BY <1>1 DEF Chains, Chain, RouterShape
  <2>2. chains' \subseteq chains \union {Chain("page", currentPlace.page, NoSection),
                                       Chain("subpage", currentPlace.page, place.sub)}
    BY DEF Navigate, RunPageTransition, RunSubpageTransition
  <2>3. QED BY <1>1, <1>2, <2>1, <2>2 DEF RouterShape, Navigate
<1>4. start' = currentPlace /\ end' = place /\ UNCHANGED <<currentPlace, rendered, shown>>
  BY DEF Navigate
<1>5. QED
  BY <1>3, <1>4 DEF RouterShape

LEMMA NavigateKeeps ==
    ASSUME RouterInv, NEW place \in Places, Navigate(place), entries' = entries, at' \in 1..Len(entries),
           at' = at \/ entries[at'] = place
    PROVE  RouterInv'
<1>1. RouterShape' /\ MastheadFollows'
  BY NavigateShape DEF RouterInv, MastheadFollows, Navigate
<1>2. SUFFICES ASSUME ~hasty', broken' = {} PROVE Follows'
  BY <1>1 DEF RouterInv
<1>3. ~hasty /\ broken = {} /\ ~Halfway(place) /\ Follows
  BY <1>2 DEF Navigate, RouterInv
<1>4. /\ end' = place /\ start' = currentPlace
      /\ UNCHANGED <<currentPlace, rendered, shown, masthead, stamped, broken, loaded>>
  BY DEF Navigate
<1>5. CASE currentPlace.page # place.page
  <2> DEFINE c == Chain("page", currentPlace.page, NoSection)
  <2>1. chains' = chains \union {c}
    BY <1>5 DEF Navigate, RunPageTransition
  <2>2. c.kind = "page" /\ c.step = "exit"
    BY DEF Chain
  <2> HIDE DEF c
  <2>3. c \in Bringing' /\ c \in Showing' /\ c \in Updating' /\ c \in chains'
    BY <2>1, <2>2 DEF Bringing, Showing, Updating
  <2>4. QED BY <2>2, <2>3 DEF Follows, PageComes, HandlerRan, StateFollows, NothingFaded, DoneTold
<1>6. CASE currentPlace.page = place.page /\ currentPlace.sub # place.sub
  <2>1. rendered = place.page /\ {currentPlace.sub, place.sub} \subseteq Subpages[rendered] /\ currentPlace.sub # NoSection
    BY <1>3, <1>6, PlaceIs DEF Halfway, RouterInv, RouterShape
  <2> DEFINE c == Chain("subpage", currentPlace.page, place.sub)
  <2>2. /\ chains' = chains \union {c} /\ faded' = faded \union {Content(rendered, currentPlace.sub)}
        /\ UNCHANGED pageTransitionDone
    BY <1>6, <2>1 DEF Navigate, RunSubpageTransition
  <2>3. c.kind = "subpage" /\ c.step = "exit" /\ c.attached = TRUE /\ c.new = place.sub
    BY DEF Chain
  <2> HIDE DEF c
  <2>4. c \in Sliding' /\ c \in Updating' /\ Showing' = Showing /\ Bringing' = Bringing
    BY <2>2, <2>3 DEF Sliding, Updating, Showing, Bringing
  <2>5. Content(rendered, currentPlace.sub) # Masthead
    BY <2>1 DEF Content, Masthead
  <2>6. NothingFaded'
    BY <1>3, <1>4, <2>2, <2>3, <2>4, <2>5 DEF Follows, NothingFaded
  <2>7. QED
    BY <1>3, <1>4, <2>1, <2>2, <2>4, <2>6 DEF Follows, PageComes, HandlerRan, StateFollows, DoneTold
<1>7. CASE currentPlace.page = place.page /\ currentPlace.sub = place.sub
  <2>1. place = currentPlace /\ rendered = place.page /\ Sliding = {}
    BY <1>3, <1>7, PlaceIs DEF Halfway, RouterInv, RouterShape, Sliding
  <2>2. UNCHANGED <<chains, faded, pageTransitionDone>>
    BY <1>7 DEF Navigate
  <2>3. UNCHANGED <<Showing, Bringing, Sliding, Updating>>
    BY <2>2 DEF Showing, Bringing, Sliding, Updating
  <2>4. Showing = {} => Updating = {} /\ currentPlace = end
    BY <1>3, <2>1 DEF Updating, Follows, StateFollows
  <2>5. NothingFaded'
    BY <1>3, <1>4, <2>1, <2>2, <2>3, <2>4 DEF Follows, NothingFaded
  <2>6. StateFollows'
    BY <1>3, <1>4, <2>1, <2>3 DEF Follows, StateFollows
  <2>7. QED
    BY <1>3, <1>4, <2>1, <2>2, <2>3, <2>5, <2>6 DEF Follows, PageComes, HandlerRan, DoneTold
<1>8. QED BY <1>5, <1>6, <1>7

LEMMA ExitedKeeps == ASSUME RouterInv, NEW c \in chains, Exited(c) PROVE RouterInv'
<1> DEFINE d == [c EXCEPT !.step = "import", !.page = end.page]
<1>1. /\ chains' = (chains \ {c}) \union {d} /\ c.kind = "page" /\ c.step = "exit"
      /\ UNCHANGED <<tabHistory, router, display, broken, pageTransitionDone, navigations, hasty>>
  BY DEF Exited, To
<1>2. d \in Chains /\ d.kind = "page" /\ d.step = "import" /\ d.page = end.page
  <2>1. c \in Chains /\ end.page \in Pages
    BY ChainsShape DEF RouterInv
  <2>2. d \in Chains
    BY <2>1 DEF Chains
  <2>3. QED BY <1>1, <2>1, <2>2 DEF Chains
<1> HIDE DEF d
<1>3. RouterShape' /\ MastheadFollows'
  BY <1>1, <1>2 DEF RouterInv, RouterShape, MastheadFollows, tabHistory, router, display
<1>4. d \in Bringing' /\ d \in Showing' /\ d \in Updating' /\ d \in chains'
  BY <1>1, <1>2 DEF Bringing, Showing, Updating
<1>5. Follows'
  BY <1>1, <1>2, <1>4 DEF Follows, PageComes, HandlerRan, StateFollows, NothingFaded, DoneTold, router
<1>6. QED BY <1>3, <1>5 DEF RouterInv

LEMMA ImportedKeeps == ASSUME RouterInv, NEW c \in chains, Imported(c) PROVE RouterInv'
<1> DEFINE d == [c EXCEPT !.step = "render"]
           shows == end.page \in stamped' /\ end.page # rendered
           off(e) == [e EXCEPT !.attached = FALSE]
<1>1. /\ c.kind = "page" /\ c.step = "import" /\ UNCHANGED <<tabHistory, router, masthead, broken, navigations, hasty>>
      /\ loaded' = loaded \union {end.page} /\ c.page \in stamped'
      /\ shows => rendered' = end.page /\ shown' = NoSection /\ chains' = {off(e) : e \in chains \ {c}} \union {d}
      /\ ~shows => chains' = (chains \ {c}) \union {d} /\ UNCHANGED <<rendered, shown>>
  BY DEF Imported, To, PageToShow
<1>2. d \in Chains /\ d.kind = "page" /\ d.step = "render"
  BY <1>1, GoesOn, ChainsShape DEF RouterInv
<1>3. \A e \in chains : off(e) \in Chains
  BY Detached, ChainsShape DEF RouterInv
<1> HIDE DEF d, off
<1>4. RouterShape' /\ MastheadFollows'
  <2>1. end.page \in Pages
    BY PlaceIs DEF RouterInv, RouterShape
  <2>2. chains' \subseteq Chains
    BY <1>1, <1>2, <1>3 DEF RouterInv, RouterShape
  <2>3. QED
    BY <1>1, <2>1, <2>2 DEF RouterInv, RouterShape, MastheadFollows, tabHistory, router
<1>5. d \in chains' /\ d \in Showing' /\ d \in Updating'
  BY <1>1, <1>2 DEF Showing, Updating
<1>6. ASSUME Follows PROVE Follows'
  <2>1. PageComes'
    <3>1. SUFFICES ASSUME end.page # rendered' PROVE \E e \in Bringing' : e.step = "exit" \/ e.page = end.page
      BY <1>1 DEF PageComes, router
    <3>2. ~shows /\ rendered # end.page /\ c.page # end.page
      BY <1>1, <3>1
    <3>3. PICK e \in Bringing : e.step = "exit" \/ e.page = end.page
      BY <1>6, <3>2 DEF Follows, PageComes
    <3>4. e \in Bringing'
      BY <1>1, <3>2, <3>3 DEF Bringing
    <3>5. QED BY <3>3, <3>4
  <2>2. HandlerRan'
    BY <1>1, <2>1 DEF HandlerRan, PageComes, router
  <2>3. QED
    BY <1>2, <1>5, <2>1, <2>2 DEF Follows, StateFollows, NothingFaded, DoneTold
<1>7. QED BY <1>1, <1>4, <1>6 DEF RouterInv

\* The state becomes where the router is on its way to.
LEMMA StateUpdated ==
    ASSUME RouterInv, UpdateUIstate, UNCHANGED <<start, end, rendered>>
    PROVE  /\ MastheadFollows' /\ entries' \in Seq(Places) /\ at' \in 1..Len(entries')
           /\ currentPlace' = end /\ entries'[at'] = end /\ currentPlace' \in Places
           /\ shown' \in Subpages[rendered] \union {NoSection}
           /\ rendered = end.page => shown' = end.sub
<1>1. RouterShape /\ MastheadFollows
  BY DEF RouterInv
<1>2. MastheadFollows'
  BY <1>1 DEF MastheadFollows, UpdateUIstate
<1>3. entries' \in Seq(Places) /\ at' \in 1..Len(entries') /\ entries'[at'] = end
  <2>1. CASE entries[at] = end
    BY <1>1, <2>1 DEF UpdateUIstate, tabHistory, RouterShape
  <2>2. CASE entries[at] # end
    <3>1. SubSeq(entries, 1, at) \in Seq(Places) /\ Len(SubSeq(entries, 1, at)) = at /\ at \in Nat
      BY <1>1 DEF RouterShape
    <3>2. entries' = Append(SubSeq(entries, 1, at), end) /\ at' = at + 1 /\ end \in Places
      BY <1>1, <2>2 DEF UpdateUIstate, RouterShape
    <3>3. QED BY <3>1, <3>2
  <2>3. QED BY <2>1, <2>2
<1>4. shown' \in Subpages[rendered] \union {NoSection} /\ currentPlace' = end /\ end \in Places
  BY <1>1 DEF UpdateUIstate, RouterShape
<1>5. rendered = end.page => shown' = end.sub
  BY <1>1, <1>4, PlaceIs DEF UpdateUIstate, RouterShape
<1>6. QED BY <1>2, <1>3, <1>4, <1>5

LEMMA RenderedKeeps == ASSUME RouterInv, NEW c \in chains, Rendered(c) PROVE RouterInv'
<1> DEFINE d == [c EXCEPT !.step = "enter"]
<1>1. /\ chains' = (chains \ {c}) \union {d} /\ c.kind = "page" /\ c.step = "render" /\ UpdateUIstate
      /\ faded' = faded \ {Content(rendered, shown'), Masthead}
      /\ UNCHANGED <<start, end, rendered, loaded, broken, navigations, hasty>>
  BY DEF Rendered, To, pageHandlers
<1>2. d \in Chains /\ d.kind = "page" /\ d.step = "enter"
  BY <1>1, GoesOn, ChainsShape DEF RouterInv
<1> HIDE DEF d
<1>3. RouterShape' /\ MastheadFollows'
  BY <1>1, <1>2, StateUpdated DEF RouterInv, RouterShape
<1>4. Bringing' = Bringing /\ Bringing \subseteq Showing'
  BY <1>1, <1>2 DEF Bringing, Showing
<1>5. ASSUME Follows PROVE Follows'
  <2>1. PageComes' /\ HandlerRan'
    BY <1>1, <1>4, <1>5 DEF Follows, PageComes, HandlerRan
  <2>2. Showing' = {} => rendered = end.page
    BY <1>4, <1>5 DEF Follows, PageComes
  <2>3. StateFollows'
    BY <1>1, <2>2, StateUpdated DEF StateFollows, Updating
  <2>4. NothingFaded'
    BY <1>1, <2>2, StateUpdated DEF NothingFaded
  <2>5. DoneTold'
    BY <1>1, <1>2 DEF DoneTold
  <2>6. QED BY <2>1, <2>3, <2>4, <2>5 DEF Follows
<1>6. QED BY <1>1, <1>3, <1>5 DEF RouterInv

LEMMA SlidOutKeeps == ASSUME RouterInv, NEW c \in chains, SlidOut(c) PROVE RouterInv'
<1> DEFINE d == [c EXCEPT !.step = "enter"]
<1>1. /\ chains' = (chains \ {c}) \union {d} /\ c.kind = "subpage" /\ c.step = "exit" /\ UpdateUIstate
      /\ faded' = IF c.attached THEN faded \ {Content(rendered, c.new)} ELSE faded
      /\ UNCHANGED <<start, end, rendered, loaded, broken, navigations, hasty, pageTransitionDone>>
  BY DEF SlidOut, To, pageHandlers
<1>2. d \in Chains /\ d.kind = "subpage" /\ d.step = "enter"
  BY <1>1, GoesOn, ChainsShape DEF RouterInv
<1> HIDE DEF d
<1>3. RouterShape' /\ MastheadFollows'
  BY <1>1, <1>2, StateUpdated DEF RouterInv, RouterShape
<1>4. Bringing' = Bringing /\ Showing' = Showing /\ Bringing \subseteq Showing /\ Sliding \ {c} \subseteq Sliding'
  BY <1>1, <1>2 DEF Bringing, Showing, Sliding
<1>5. ASSUME Follows PROVE Follows'
  <2>1. PageComes' /\ HandlerRan'
    BY <1>1, <1>4, <1>5 DEF Follows, PageComes, HandlerRan
  <2>2. Showing' = {} => rendered = end.page
    BY <1>4, <1>5 DEF Follows, PageComes
  <2>3. StateFollows'
    BY <1>1, <2>2, StateUpdated DEF StateFollows, Updating
  <2>4. NothingFaded'
    BY <1>1, <1>4, <1>5 DEF Follows, NothingFaded
  <2>5. DoneTold'
    BY <1>1, <1>5 DEF Follows, DoneTold
  <2>6. QED BY <2>1, <2>3, <2>4, <2>5 DEF Follows
<1>6. QED BY <1>1, <1>3, <1>5 DEF RouterInv

LEMMA ImportFailsKeeps == ASSUME RouterInv, NEW c \in chains, ImportFails(c) PROVE RouterInv'
<1>1. /\ chains' = chains \ {c} /\ UNCHANGED <<tabHistory, router, display, navigations>>
      /\ broken' = broken \union {c.page}
  BY DEF ImportFails
<1>2. RouterShape' /\ MastheadFollows'
  BY <1>1 DEF RouterInv, RouterShape, MastheadFollows, tabHistory, router, display
<1>3. QED BY <1>1, <1>2 DEF RouterInv

LEMMA EndedKeeps == ASSUME RouterInv, NEW c \in chains, Entered(c) \/ SlidIn(c) PROVE RouterInv'
<1>1. /\ chains' = chains \ {c} /\ c.step = "enter"
      /\ UNCHANGED <<tabHistory, router, display, broken, loaded, navigations, hasty>>
      /\ pageTransitionDone' = TRUE \/ (c.kind = "subpage" /\ UNCHANGED pageTransitionDone)
  BY DEF Entered, SlidIn, pageHandlers
<1>2. UNCHANGED <<entries, at, start, currentPlace, end, rendered, shown, masthead, faded>>
  BY <1>1 DEF tabHistory, router, display
<1>3. RouterShape' /\ MastheadFollows'
  BY <1>1, <1>2 DEF RouterInv, RouterShape, MastheadFollows
<1>4. UNCHANGED <<Bringing, Showing, Sliding, Updating>>
  BY <1>1 DEF Bringing, Showing, Sliding, Updating
<1>5. ASSUME Follows PROVE Follows'
  BY <1>1, <1>2, <1>4, <1>5 DEF Follows, PageComes, HandlerRan, StateFollows, NothingFaded, DoneTold
<1>6. QED BY <1>1, <1>3, <1>5 DEF RouterInv

LEMMA RouterStep == RouterInv /\ [RouterNext]_routerVars => RouterInv'
<1> SUFFICES ASSUME RouterInv, [RouterNext]_routerVars PROVE RouterInv'
  OBVIOUS
<1>1. ASSUME NEW place \in Places, ClickLink(place) PROVE RouterInv'
  <2>1. entries' = entries /\ at' = at /\ at \in 1..Len(entries) /\ Navigate(place)
    BY <1>1 DEF ClickLink, tabHistory, RouterInv, RouterShape
  <2>2. QED BY <2>1, NavigateKeeps
<1>2. ASSUME NEW i \in DOMAIN entries, PopState(i) PROVE RouterInv'
  <2>1. entries \in Seq(Places) /\ i \in 1..Len(entries) /\ entries[i] \in Places
    BY <1>2 DEF RouterInv, RouterShape
  <2>2. at' = i /\ entries' = entries /\ Navigate(entries[i])
    BY <1>2 DEF PopState
  <2>3. QED BY <2>1, <2>2, NavigateKeeps
<1>3. ASSUME NEW c \in chains,
             Exited(c) \/ Imported(c) \/ ImportFails(c) \/ Rendered(c) \/ Entered(c) \/ SlidOut(c) \/ SlidIn(c)
      PROVE  RouterInv'
  BY <1>3, ExitedKeeps, ImportedKeeps, ImportFailsKeeps, RenderedKeeps, EndedKeeps, SlidOutKeeps
<1>4. CASE UNCHANGED routerVars
  <2>1. UNCHANGED <<entries, at, start, currentPlace, end, chains, rendered, shown, masthead, faded, broken,
                    loaded, pageTransitionDone, navigations, hasty>>
    BY <1>4 DEF routerVars, tabHistory, router, display, pageHandlers
  <2>2. RouterShape' /\ MastheadFollows'
    BY <2>1 DEF RouterInv, RouterShape, MastheadFollows
  <2>3. Follows => Follows'
    BY <2>1 DEF Follows, PageComes, HandlerRan, StateFollows, NothingFaded, DoneTold, Bringing, Showing, Sliding, Updating
  <2>4. QED BY <2>1, <2>2, <2>3 DEF RouterInv
<1>5. QED BY <1>1, <1>2, <1>3, <1>4 DEF RouterNext

(***************************************************************************)
(* However many links and history entries are taken before a transition    *)
(* ends, in whatever order the steps of the overlapping transitions come:  *)
(* when none is under way, the address, the router's state, the content,   *)
(* the section and the masthead agree, the page's handler has run, and     *)
(* nothing of it is hidden (router.js, elements.js, page-animation.js).    *)
(***************************************************************************)
THEOREM RouterSettles == RouterSpec => []Settles
<1>1. RouterInv => Settles
  <2> SUFFICES ASSUME RouterInv, chains = {}, broken = {}, ~hasty PROVE Settles
    BY DEF Settles
  <2>1. Bringing = {} /\ Showing = {} /\ Sliding = {} /\ Updating = {}
    BY DEF Bringing, Showing, Sliding, Updating
  <2>2. Follows /\ MastheadFollows /\ RouterShape
    BY DEF RouterInv
  <2>3. currentPlace = end /\ entries[at] = currentPlace /\ rendered = currentPlace.page
    BY <2>1, <2>2 DEF Follows, StateFollows, PageComes
  <2>4. shown = currentPlace.sub
    BY <2>1, <2>2, <2>3, PlaceIs DEF Follows, StateFollows, RouterShape
  <2>5. QED
    BY <2>1, <2>2, <2>3, <2>4 DEF Follows, HandlerRan, NothingFaded, DoneTold, MastheadFollows, Settles
<1>2. QED BY <1>1, RouterStart, RouterStep, PTL DEF RouterSpec

-----------------------------------------------------------------------------
(* The colours of the countdown                                            *)

\* A set of natural numbers that is not empty has a least: subsets of a finite
\* set are well-founded.
LEMMA LeastNat == ASSUME NEW T, T \subseteq Nat, T # {} PROVE \E x \in T : \A y \in T : x <= y
<1> DEFINE Below == {0..n : n \in T}
<1>1. Below \subseteq FiniteSubsetsOf(Nat) /\ Below # {}
  <2>1. \A n \in T : 0..n \in SUBSET Nat /\ IsFiniteSet(0..n)
    BY FS_Interval
  <2>2. QED BY <2>1 DEF FiniteSubsetsOf
<1>2. PICK M \in Below : \A N \in Below : <<N, M>> \notin StrictSubsetOrdering(Nat)
  <2> HIDE DEF Below
  <2>1. QED BY <1>1, WFMin, FS_StrictSubsetOrderingWellFounded
<1>3. PICK x \in T : M = 0..x
  OBVIOUS
<1>4. ASSUME NEW y \in T, y < x PROVE FALSE
  <2>1. <<0..y, 0..x>> \in StrictSubsetOrdering(Nat)
    BY <1>4 DEF StrictSubsetOrdering
  <2>2. QED BY <2>1, <1>2, <1>3
<1>5. QED BY <1>4
\* Induction over the natural numbers, about a set.
LEMMA NatInd == ASSUME NEW S, 0 \in S, \A n \in Nat : n \in S => n + 1 \in S PROVE Nat \subseteq S
<1> DEFINE T == Nat \ S
<1>1. SUFFICES ASSUME T # {} PROVE FALSE
  OBVIOUS
<1>2. PICK x \in T : \A y \in T : x <= y
  <2> HIDE DEF T
  <2>1. T \subseteq Nat BY DEF T
  <2>2. QED BY <1>1, <2>1, LeastNat
<1>3. x - 1 \in Nat /\ x - 1 \notin T
  BY <1>2
<1>4. QED BY <1>3

LEMMA Divided ==
    ASSUME NEW n \in Nat, NEW d \in Nat \ {0}
    PROVE  /\ n \div d \in Nat /\ n % d \in 0..(d - 1) /\ n = d * (n \div d) + (n % d)
           /\ (n \div d = 0 <=> n < d)
           /\ (n < d => n % d = n) /\ (n = 0 => n % d = 0)
OBVIOUS

LEMMA DividedLess ==
    ASSUME NEW n \in Nat, NEW m \in Nat, NEW d \in Nat \ {0}, m <= n
    PROVE  m \div d <= n \div d
<1>1. /\ m \div d \in Nat /\ m % d \in 0..(d - 1) /\ m = d * (m \div d) + (m % d)
      /\ n \div d \in Nat /\ n % d \in 0..(d - 1) /\ n = d * (n \div d) + (n % d)
  BY Divided
<1>2. QED BY <1>1

LEMMA MinIs ==
    ASSUME NEW S, S \subseteq Nat, S # {}
    PROVE  Min(S) \in S /\ \A x \in S : Min(S) <= x
BY LeastNat DEF Min

\* The seconds of which a value is made.
Seconds(date, t) == (IF date > t THEN date - t ELSE 0) \div Second
Made(v, n) ==
    /\ v = <<v[1], v[2], v[3], v[4]>> /\ \A i \in 1..4 : v[i] \in Nat
    /\ (v[1] = 0 /\ v[2] = 0 /\ v[3] = 0) <=> n < Minute
    /\ n < Minute => v[4] = n

LEMMA ValueIs ==
    ASSUME NEW date \in Nat, NEW t \in Nat
    PROVE  Seconds(date, t) \in Nat /\ Made(Value(date, t), Seconds(date, t))
<1> DEFINE n == Seconds(date, t)
           m == n \div Minute
           h == m \div Hour
<1>1. Second \in Nat \ {0} /\ Minute \in Nat \ {0} /\ Hour \in Nat \ {0} /\ Day \in Nat \ {0}
  BY CountdownAssumption
<1>2. n \in Nat
  <2> DEFINE x == IF date > t THEN date - t ELSE 0
  <2>1. x \in Nat
    OBVIOUS
  <2> HIDE DEF x
  <2>2. x \div Second \in Nat
    BY <1>1, <2>1, Divided
  <2>3. QED BY <2>2 DEF Seconds, x
<1>3. Value(date, t) = <<h \div Day, h % Day, m % Hour, n % Minute>>
  BY DEF Value, Seconds
<1> HIDE DEF n
<1>4. /\ m \in Nat /\ (m = 0 <=> n < Minute) /\ n % Minute \in Nat /\ (n < Minute => n % Minute = n)
  <2>1. QED BY <1>1, <1>2, Divided DEF m
<1> HIDE DEF m
<1>5. /\ h \in Nat /\ m % Hour \in Nat /\ m = Hour * h + (m % Hour) /\ (m = 0 => h = 0 /\ m % Hour = 0)
  <2>1. m \in Nat /\ Hour \in Nat \ {0}
    BY <1>1, <1>4
  <2>2. m \div Hour \in Nat /\ m % Hour \in 0..(Hour - 1) /\ m = Hour * (m \div Hour) + (m % Hour)
    BY <2>1, Divided
  <2>3. m = 0 => m \div Hour = 0 /\ m % Hour = 0
    BY <2>1, Divided
  <2>4. QED BY <2>1, <2>2, <2>3
<1>6. h = 0 /\ m % Hour = 0 => m = 0
  BY <1>1, <1>4, <1>5
<1> HIDE DEF h
<1>7. /\ h \div Day \in Nat /\ h % Day \in Nat /\ h = Day * (h \div Day) + (h % Day)
      /\ (h = 0 => h \div Day = 0 /\ h % Day = 0)
  <2>1. h \in Nat /\ Day \in Nat \ {0}
    BY <1>1, <1>5
  <2>2. h \div Day \in Nat /\ h % Day \in 0..(Day - 1) /\ h = Day * (h \div Day) + (h % Day)
    BY <2>1, Divided
  <2>3. h = 0 => h \div Day = 0 /\ h % Day = 0
    BY <2>1, Divided
  <2>4. QED BY <2>1, <2>2, <2>3
<1>8. h \div Day = 0 /\ h % Day = 0 => h = 0
  BY <1>1, <1>5, <1>7
<1>9. (h \div Day = 0 /\ h % Day = 0 /\ m % Hour = 0) <=> n < Minute
  BY <1>4, <1>5, <1>6, <1>7, <1>8
<1>10. QED BY <1>2, <1>3, <1>4, <1>5, <1>7, <1>9 DEF Made, n

LEMMA Sinks ==
    ASSUME NEW date \in Nat, NEW t \in Nat, NEW u \in Nat, t <= u
    PROVE  Seconds(date, u) <= Seconds(date, t)
BY CountdownAssumption, DividedLess DEF Seconds

\* What a colour of the last minute says of the seconds that are left.
Reached(c, n) ==
    /\ n < Minute
    /\ \/ c = 1
       \/ c \in 2..10 /\ n <= Thresholds[c - 1]
       \/ c = 11 /\ n = 0

LEMMA ThresholdsFall ==
    /\ DOMAIN Thresholds = 1..9
    /\ \A k \in 1..9 : Thresholds[k] \in Nat /\ Thresholds[k] >= 1
    /\ Thresholds[9] = 1
    /\ \A k, l \in 1..9 : k < l => Thresholds[l] < Thresholds[k]
BY DEF Thresholds

\* The seconds are the last of a minute when all else is zero.
LEMMA LastMinute ==
    ASSUME NEW w, NEW m \in Nat, Made(w, m)
    PROVE  SubSeq(w, 1, 3) = <<0, 0, 0>> <=> m < Minute
<1>1. w \in Seq(Nat) /\ Len(w) = 4
  <2>1. w = <<w[1], w[2], w[3], w[4]>> /\ \A i \in 1..4 : w[i] \in Nat
    BY DEF Made
  <2>2. w[1] \in Nat /\ w[2] \in Nat /\ w[3] \in Nat /\ w[4] \in Nat
    BY <2>1
  <2>3. <<w[1], w[2], w[3], w[4]>> \in Seq(Nat) /\ Len(<<w[1], w[2], w[3], w[4]>>) = 4
    BY <2>2
  <2>4. QED BY <2>1, <2>3
<1>2. SubSeq(w, 1, 3) = [i \in 1..3 |-> w[i]]
  BY <1>1, SubSeqProperties
<1>3. SubSeq(w, 1, 3) = <<0, 0, 0>> <=> w[1] = 0 /\ w[2] = 0 /\ w[3] = 0
  <2>1. [i \in 1..3 |-> w[i]] = <<w[1], w[2], w[3]>>
    OBVIOUS
  <2>2. SubSeq(w, 1, 3) = <<w[1], w[2], w[3]>>
    BY <1>2, <2>1
  <2>3. <<w[1], w[2], w[3]>> = <<0, 0, 0>> <=> w[1] = 0 /\ w[2] = 0 /\ w[3] = 0
    OBVIOUS
  <2>4. QED BY <2>2, <2>3
<1>4. QED BY <1>3 DEF Made

\* The colours of a ripple: a colour of the last minute is one that is reached, and it is after
\* all that were reached before.
LEMMA RippleIs ==
    ASSUME NEW v, NEW w, NEW n \in Nat, NEW m \in Nat, Made(v, n), Made(w, m)
    PROVE  /\ Ripples(v, w) = {} \/ \E c \in 0..11 : Ripples(v, w) = {c} /\ (c # 0 => Reached(c, m))
           /\ m <= n => \A c \in Ripples(v, w) : \A b \in 1..11 : c # 0 /\ Reached(b, n) => b < c
<1> DEFINE crossed == {i \in DOMAIN Thresholds : crossedThreshold(v, w, Thresholds[i])}
           last == SubSeq(w, 1, 3) = <<0, 0, 0>>
<1>1. last <=> m < Minute
  BY LastMinute
<1> HIDE DEF last
<1>2. v[4] \in Nat /\ w[4] \in Nat /\ v[3] \in Nat
  BY DEF Made
<1>3. crossed \subseteq 1..9 /\ \A i \in crossed : v[4] > Thresholds[i] /\ w[4] <= Thresholds[i]
  BY ThresholdsFall DEF crossedThreshold
<1>4. \A i \in 1..9 : v[4] > Thresholds[i] /\ w[4] <= Thresholds[i] => i \in crossed
  BY ThresholdsFall DEF crossedThreshold
<1>5. crossed # {} => Min(crossed) \in crossed
  BY <1>3, MinIs
<1>6. Ripples(v, w) =
        IF v = w THEN {}
        ELSE IF last
        THEN IF v[3] = 1 THEN {1} ELSE IF crossed # {} THEN {Min(crossed) + 1}
             ELSE IF w[4] = 0 THEN {11} ELSE {}
        ELSE IF v[3] # w[3] THEN {0} ELSE {}
  BY DEF Ripples, last
<1> HIDE DEF crossed
<1> DEFINE k == Min(crossed)
<1> HIDE DEF k
<1>7. CASE v = w \/ (~last /\ v[3] = w[3])
  BY <1>6, <1>7
<1>8. CASE v # w /\ ~last /\ v[3] # w[3]
  BY <1>6, <1>8
<1>9. CASE v # w /\ last /\ v[3] = 1
  <2>1. Ripples(v, w) = {1} /\ ~(n < Minute)
    BY <1>6, <1>9 DEF Made
  <2>2. QED BY <1>1, <1>9, <2>1 DEF Reached
<1>10. CASE v # w /\ last /\ v[3] # 1 /\ crossed # {}
  <2>1. Ripples(v, w) = {k + 1} /\ k \in crossed
    BY <1>5, <1>6, <1>10 DEF k
  <2>2. k \in 1..9 /\ v[4] > Thresholds[k] /\ w[4] <= Thresholds[k] /\ w[4] = m /\ m < Minute
    BY <1>1, <1>3, <1>10, <2>1 DEF Made
  <2>3. k + 1 \in 2..10 /\ Reached(k + 1, m)
    BY <2>2 DEF Reached
  <2>4. ASSUME NEW b \in 1..11, Reached(b, n) PROVE b < k + 1
    <3>1. v[4] = n
      BY <2>4 DEF Made, Reached
    <3>2. CASE b \in 2..10
      <4>1. n <= Thresholds[b - 1] /\ b - 1 \in 1..9
        BY <2>4, <3>2 DEF Reached
      <4>2. Thresholds[k] < Thresholds[b - 1]
        BY <2>2, <3>1, <4>1, ThresholdsFall
      <4>3. ~(k < b - 1) /\ k # b - 1
        BY <2>2, <4>1, <4>2, ThresholdsFall
      <4>4. QED BY <2>2, <4>1, <4>3
    <3>3. CASE b = 1
      BY <2>2, <3>3
    <3>4. CASE b = 11
      BY <2>2, <2>4, <3>1, <3>4, ThresholdsFall DEF Reached
    <3>5. QED BY <3>2, <3>3, <3>4
  <2>5. QED BY <2>1, <2>3, <2>4
<1>11. CASE v # w /\ last /\ v[3] # 1 /\ crossed = {} /\ w[4] = 0
  <2>1. Ripples(v, w) = {11} /\ w[4] = m /\ m = 0 /\ 0 < Minute
    BY <1>1, <1>6, <1>11, CountdownAssumption DEF Made
  <2>2. Reached(11, m)
    BY <2>1 DEF Reached
  <2>3. ~Reached(11, n)
    <3>1. SUFFICES ASSUME n = 0, n < Minute PROVE FALSE
      BY DEF Reached
    <3>2. v[1] = 0 /\ v[2] = 0 /\ v[3] = 0 /\ v[4] = 0 /\ w[1] = 0 /\ w[2] = 0 /\ w[3] = 0
      BY <2>1, <3>1 DEF Made
    <3>3. v = w
      BY <1>11, <3>2 DEF Made
    <3>4. QED BY <1>11, <3>3
  <2>4. QED BY <2>1, <2>2, <2>3
<1>12. CASE v # w /\ last /\ v[3] # 1 /\ crossed = {} /\ w[4] # 0
  BY <1>6, <1>12
<1>13. QED BY <1>7, <1>8, <1>9, <1>10, <1>11, <1>12

\* What is picked of a sequence is in it, and in the same order.
LEMMA PickedIs ==
    ASSUME NEW R, NEW s \in Seq(R), NEW I \in SUBSET DOMAIN s
    PROVE  /\ Picked(s, I) \in Seq(R)
           /\ \E w \in [DOMAIN Picked(s, I) -> DOMAIN s] :
                /\ \A i \in DOMAIN Picked(s, I) : Picked(s, I)[i] = s[w[i]]
                /\ \A i, j \in DOMAIN Picked(s, I) : i < j => w[i] < w[j]
<1> DEFINE L == Len(s)
           UpTo(i) == {j \in I : j <= i}
           Holds == {k \in Nat : \A n \in 1..Cardinality(UpTo(k)) : \E i \in UpTo(k) : Cardinality(UpTo(i)) = n}
<1>1. L \in Nat /\ DOMAIN s = 1..L /\ I \subseteq Nat
  BY LenProperties
<1>2. IsFiniteSet(I)
  <2>1. IsFiniteSet(1..L) /\ I \in SUBSET (1..L)
    BY <1>1, FS_Interval
  <2>2. QED BY <2>1, FS_Subset
<1>3. \A i : IsFiniteSet(UpTo(i)) /\ Cardinality(UpTo(i)) \in Nat
  <2>1. SUFFICES ASSUME NEW i PROVE IsFiniteSet(UpTo(i)) /\ Cardinality(UpTo(i)) \in Nat
    OBVIOUS
  <2>2. UpTo(i) \in SUBSET I
    OBVIOUS
  <2> HIDE DEF UpTo
  <2>3. QED BY <1>2, <2>2, FS_Subset, FS_CardinalityType
<1>0. \A i : UpTo(i) = {j \in I : j <= i}
  OBVIOUS
<1> HIDE DEF UpTo
<1>4. Nat \subseteq Holds
  <2>1. 0 \in Holds
    <3>1. \A j \in I : ~(j <= 0)
      BY <1>1
    <3>0. UpTo(0) = {}
      BY <1>0, <3>1
    <3>2. Cardinality(UpTo(0)) = 0
      BY <3>0, FS_EmptySet
    <3>3. 1..Cardinality(UpTo(0)) = {}
      BY <3>2
    <3>4. QED BY <3>3
  <2>2. \A k \in Nat : k \in Holds => k + 1 \in Holds
    <3>1. SUFFICES ASSUME NEW k \in Nat, k \in Holds, NEW n \in 1..Cardinality(UpTo(k + 1))
                   PROVE  \E i \in UpTo(k + 1) : Cardinality(UpTo(i)) = n
      OBVIOUS
    <3>2. CASE k + 1 \notin I
      <4>0. \A j \in I : j <= k + 1 <=> j <= k
        BY <1>1, <3>2
      <4>1. UpTo(k + 1) = UpTo(k)
        BY <1>0, <4>0
      <4>2. QED BY <3>1, <4>1
    <3>3. CASE k + 1 \in I
      <4>1. UpTo(k + 1) = UpTo(k) \union {k + 1} /\ k + 1 \notin UpTo(k) /\ k + 1 \in UpTo(k + 1)
        BY <1>0, <1>1, <3>3
      <4>2. IsFiniteSet(UpTo(k)) /\ Cardinality(UpTo(k)) \in Nat
        BY <1>3
      <4>3. Cardinality(UpTo(k + 1)) = Cardinality(UpTo(k)) + 1
        BY <4>1, <4>2, FS_AddElement
      <4>4. CASE n \in 1..Cardinality(UpTo(k))
        <5>1. PICK i \in UpTo(k) : Cardinality(UpTo(i)) = n
          BY <3>1, <4>4
        <5>2. QED BY <4>1, <5>1
      <4>5. CASE n \notin 1..Cardinality(UpTo(k))
        <5>1. n = Cardinality(UpTo(k + 1))
          BY <4>2, <4>3, <4>5
        <5>2. QED BY <4>1, <5>1
      <4>6. QED BY <4>4, <4>5
    <3>4. QED BY <3>2, <3>3
  <2> HIDE DEF Holds
  <2>3. QED BY <2>1, <2>2, NatInd
<1>5. UpTo(L) = I
  BY <1>0, <1>1
<1> DEFINE C == Cardinality(I)
           nth(n) == CHOOSE i \in I : Cardinality(UpTo(i)) = n
<1>6. C \in Nat /\ \A n \in 1..C : nth(n) \in I /\ Cardinality(UpTo(nth(n))) = n
  <2>1. C \in Nat /\ \A n \in 1..C : \E i \in I : Cardinality(UpTo(i)) = n
    BY <1>1, <1>3, <1>4, <1>5
  <2> HIDE DEF C
  <2>2. QED BY <2>1
<1>7. Picked(s, I) = [n \in 1..C |-> s[nth(n)]]
  BY DEF Picked, UpTo
<1>8. \A i, j \in 1..C : i < j => nth(i) < nth(j)
  <2> HIDE DEF nth, C
  <2>0. \A n \in 1..C : nth(n) \in Nat
    BY <1>1, <1>6
  <2>1. SUFFICES ASSUME NEW i \in 1..C, NEW j \in 1..C, nth(j) <= nth(i) PROVE j <= i
    BY <1>6, <2>0
  <2>2. nth(i) \in Nat /\ nth(j) \in Nat
    BY <1>1, <1>6
  <2>3. UpTo(nth(j)) \in SUBSET UpTo(nth(i))
    BY <1>0, <1>1, <2>1, <2>2
  <2>4. Cardinality(UpTo(nth(j))) <= Cardinality(UpTo(nth(i)))
    <3>1. IsFiniteSet(UpTo(nth(i)))
      BY <1>3
    <3>2. QED BY <2>3, <3>1, FS_Subset
  <2>5. QED BY <1>6, <2>4
<1> HIDE DEF nth, C
<1>9. Picked(s, I) \in [1..C -> R] /\ DOMAIN Picked(s, I) = 1..C
  <2>1. \A n \in 1..C : s[nth(n)] \in R
    BY <1>1, <1>6, ElementOfSeq
  <2>2. QED BY <1>7, <2>1
<1>10. Picked(s, I) \in Seq(R)
  BY <1>6, <1>9, SeqDef
<1> DEFINE w == [n \in 1..C |-> nth(n)]
<1>11. w \in [DOMAIN Picked(s, I) -> DOMAIN s]
  BY <1>6, <1>9
<1>12. \A n \in 1..C : Picked(s, I)[n] = s[w[n]]
  BY <1>7
<1>13. QED BY <1>8, <1>9, <1>10, <1>11, <1>12

LEMMA MaxIs ==
    ASSUME NEW n \in Nat, NEW S \in SUBSET (1..n), S # {}
    PROVE  Max(S) \in S /\ \A x \in S : x <= Max(S)
<1> DEFINE T == {n - x : x \in S}
<1>1. T \subseteq Nat /\ T # {}
  <2>1. \A x \in S : n - x \in Nat
    OBVIOUS
  <2>2. QED BY <2>1
<1>2. PICK z \in T : \A y \in T : z <= y
  <2> HIDE DEF T
  <2>1. QED BY <1>1, LeastNat
<1>3. PICK m \in S : z = n - m
  BY <1>2
<1>4. \A x \in S : m >= x
  BY <1>2, <1>3
<1>5. QED BY <1>4 DEF Max

\* A ripple has a colour and the time of its end.
RippleSet == [colour : 0..11, end : Nat]

(***************************************************************************)
(* The ripples are in the order of their colours, after those that were    *)
(* an aim already, the last of which is the colour that is shown; and all  *)
(* of them were reached when so many seconds were left.                    *)
(***************************************************************************)
InOrder(rs, sp, c, n) ==
    /\ rs \in Seq(RippleSet) /\ sp \subseteq 1..11 /\ c \in sp \union {0}
    /\ \A i, j \in DOMAIN rs : i < j /\ rs[i].colour # 0 /\ rs[j].colour # 0 => rs[i].colour < rs[j].colour
    /\ \A i \in DOMAIN rs : rs[i].colour \notin sp \union {0} => \A b \in sp : b < rs[i].colour
    /\ \A i \in DOMAIN rs : rs[i].colour # 0 => Reached(rs[i].colour, n)
    /\ \A b \in sp : Reached(b, n)

\* All the colours of ripples and of aims.
Used(rs, sp) == {rs[i].colour : i \in DOMAIN rs} \union sp

LEMMA SeqIs ==
    ASSUME NEW rs \in Seq(RippleSet)
    PROVE  /\ Len(rs) \in Nat /\ DOMAIN rs = 1..Len(rs)
           /\ \A i \in DOMAIN rs : rs[i].colour \in 0..11 /\ rs[i].end \in Nat
<1>1. Len(rs) \in Nat /\ DOMAIN rs = 1..Len(rs)
  BY LenProperties
<1>2. \A i \in DOMAIN rs : rs[i] \in RippleSet
  BY <1>1, ElementOfSeq
<1>3. QED BY <1>1, <1>2 DEF RippleSet

\* Ripples that are over leave the others in order.
LEMMA DropsInOrder ==
    ASSUME NEW rs, NEW sp, NEW c, NEW n, InOrder(rs, sp, c, n), NEW I \in SUBSET DOMAIN rs
    PROVE  InOrder(Picked(rs, I), sp, c, n) /\ Used(Picked(rs, I), sp) \subseteq Used(rs, sp)
<1>1. rs \in Seq(RippleSet)
  BY DEF InOrder
<1> DEFINE p == Picked(rs, I)
<1>2. /\ p \in Seq(RippleSet)
      /\ \E w \in [DOMAIN p -> DOMAIN rs] :
           (\A i \in DOMAIN p : p[i] = rs[w[i]]) /\ \A i, j \in DOMAIN p : i < j => w[i] < w[j]
  BY <1>1, PickedIs
<1> HIDE DEF p
<1>3. PICK w \in [DOMAIN p -> DOMAIN rs] :
        (\A i \in DOMAIN p : p[i] = rs[w[i]]) /\ \A i, j \in DOMAIN p : i < j => w[i] < w[j]
  BY <1>2
<1>4. \A i \in DOMAIN p : w[i] \in DOMAIN rs /\ p[i].colour = rs[w[i]].colour
  BY <1>3
<1>5. InOrder(p, sp, c, n)
  <2>1. \A i, j \in DOMAIN p : i < j /\ p[i].colour # 0 /\ p[j].colour # 0 => p[i].colour < p[j].colour
    BY <1>3, <1>4 DEF InOrder
  <2>2. \A i \in DOMAIN p : p[i].colour \notin sp \union {0} => \A b \in sp : b < p[i].colour
    BY <1>4 DEF InOrder
  <2>3. \A i \in DOMAIN p : p[i].colour # 0 => Reached(p[i].colour, n)
    BY <1>4 DEF InOrder
  <2>4. QED BY <1>2, <2>1, <2>2, <2>3 DEF InOrder
<1>6. Used(p, sp) \subseteq Used(rs, sp)
  BY <1>4 DEF Used
<1>7. QED BY <1>5, <1>6 DEF p

\* What was reached stays reached while the time runs down.
LEMMA SinksInOrder ==
    ASSUME NEW rs, NEW sp, NEW c, NEW n \in Nat, NEW m \in Nat, m <= n, InOrder(rs, sp, c, n)
    PROVE  InOrder(rs, sp, c, m)
<1>1. \A b \in 1..11 : Reached(b, n) => Reached(b, m)
  <2>1. SUFFICES ASSUME NEW b \in 1..11, Reached(b, n) PROVE Reached(b, m)
    OBVIOUS
  <2>2. b \in 2..10 => Thresholds[b - 1] \in Nat
    BY ThresholdsFall
  <2>3. Minute \in Nat
    BY CountdownAssumption
  <2>4. QED BY <2>1, <2>2, <2>3 DEF Reached
<1>2. \A i \in DOMAIN rs : rs[i].colour # 0 => rs[i].colour \in 1..11
  BY SeqIs DEF InOrder
<1>3. \A i \in DOMAIN rs : rs[i].colour # 0 => Reached(rs[i].colour, m)
  BY <1>1, <1>2 DEF InOrder
<1>4. \A b \in sp : Reached(b, m)
  BY <1>1 DEF InOrder
<1>5. QED BY <1>3, <1>4, Zenon DEF InOrder

\* A new ripple is appended whose colour is after all that there were.
LEMMA RipplesInOrder ==
    ASSUME NEW rs, NEW sp, NEW c, NEW m \in Nat, NEW t \in Nat, InOrder(rs, sp, c, m), NEW colours,
           colours = {} \/ \E d \in 0..11 : /\ colours = {d}
                                            /\ d # 0 => Reached(d, m) /\ \A b \in Used(rs, sp) \ {0} : b < d
    PROVE  InOrder(Rippled(rs, colours, t), sp, c, m)
<1>1. CASE colours = {}
  BY <1>1 DEF Rippled
<1>2. CASE colours # {}
  <2>1. PICK d \in 0..11 : /\ colours = {d}
                           /\ d # 0 => Reached(d, m) /\ \A b \in Used(rs, sp) \ {0} : b < d
    BY <1>2
  <2>2. Min(colours) = d
    BY <2>1 DEF Min
  <2> DEFINE r == [colour |-> d, end |-> t + RippleTime]
             new == Rippled(rs, colours, t)
  <2>3. rs \in Seq(RippleSet) /\ r \in RippleSet /\ new = Append(rs, r)
    <3>1. t + RippleTime \in Nat
      BY CountdownAssumption
    <3>2. r \in RippleSet
      BY <3>1 DEF RippleSet
    <3>3. new = Append(rs, r)
      BY <1>2, <2>2 DEF Rippled
    <3>4. QED BY <3>2, <3>3 DEF InOrder
  <2>4. /\ new \in Seq(RippleSet) /\ Len(rs) \in Nat /\ DOMAIN rs = 1..Len(rs) /\ DOMAIN new = 1..(Len(rs) + 1)
        /\ \A i \in DOMAIN rs : new[i] = rs[i]
        /\ new[Len(rs) + 1] = r
    BY <2>3, AppendProperties, LenProperties
  <2> HIDE DEF new
  <2>5. \A i \in DOMAIN new : (i \in DOMAIN rs /\ new[i] = rs[i]) \/ (i = Len(rs) + 1 /\ new[i].colour = d)
    BY <2>4
  <2>6. \A i, j \in DOMAIN new : i < j => i \in DOMAIN rs /\ new[i] = rs[i]
    BY <2>4
  <2>7. \A i \in DOMAIN rs : rs[i].colour # 0 /\ d # 0 => rs[i].colour < d
    BY <2>1 DEF Used
  <2>8. \A b \in sp : d # 0 => b < d
    BY <2>1 DEF Used, InOrder
  <2>9. \A i, j \in DOMAIN new : i < j /\ new[i].colour # 0 /\ new[j].colour # 0 => new[i].colour < new[j].colour
    BY <2>5, <2>6, <2>7 DEF InOrder
  <2>10. \A i \in DOMAIN new : new[i].colour \notin sp \union {0} => \A b \in sp : b < new[i].colour
    BY <2>5, <2>8 DEF InOrder
  <2>11. \A i \in DOMAIN new : new[i].colour # 0 => Reached(new[i].colour, m)
    BY <2>1, <2>5 DEF InOrder
  <2>12. QED BY <2>4, <2>9, <2>10, <2>11 DEF InOrder, new
<1>3. QED BY <1>1, <1>2

\* A draw makes the colours of the ripples its aim: the colour that is shown does not go back.
LEMMA AimsInOrder ==
    ASSUME NEW n, NEW sp, NEW c,
           InOrder(ripples, spent, colour, n),
           sp = spent \union {ripples[i].colour : i \in {i \in DOMAIN ripples : ripples[i].colour \notin spent \union {0}}},
           c = LastColour({i \in DOMAIN ripples : ripples[i].colour \notin spent \union {0}}, colour)
    PROVE  InOrder(ripples, sp, c, n) /\ c >= colour /\ Used(ripples, sp) = Used(ripples, spent)
<1> DEFINE aims == {i \in DOMAIN ripples : ripples[i].colour \notin spent \union {0}}
<1>1. /\ Len(ripples) \in Nat /\ DOMAIN ripples = 1..Len(ripples)
      /\ \A i \in DOMAIN ripples : ripples[i].colour \in 0..11
  BY SeqIs DEF InOrder
<1>2. spent \subseteq 1..11 /\ colour \in spent \union {0}
  BY DEF InOrder
<1>3. \A i \in aims : i \in DOMAIN ripples /\ ripples[i].colour \in 1..11 /\ Reached(ripples[i].colour, n)
  BY <1>1 DEF InOrder
<1>4. \A b : b \in sp <=> (b \in spent \/ \E i \in aims : b = ripples[i].colour)
  OBVIOUS
<1>5. \A i \in DOMAIN ripples : ripples[i].colour \in sp \union {0}
  BY <1>4
<1>6. sp \subseteq 1..11 /\ \A b \in sp : Reached(b, n)
  <2>1. \A b \in spent : Reached(b, n)
    BY DEF InOrder
  <2>2. SUFFICES ASSUME NEW b \in sp PROVE b \in 1..11 /\ Reached(b, n)
    OBVIOUS
  <2> HIDE DEF aims
  <2>3. b \in spent \/ \E i \in aims : b = ripples[i].colour
    BY <1>4
  <2>4. QED BY <1>2, <1>3, <2>1, <2>3
<1>7. c \in sp \union {0} /\ c >= colour
  <2>1. CASE aims = {}
    BY <1>2, <1>4, <2>1 DEF LastColour
  <2>2. CASE aims # {}
    <3>1. aims \in SUBSET (1..Len(ripples))
      BY <1>1
    <3> HIDE DEF aims
    <3>2. Max(aims) \in aims
      BY <1>1, <2>2, <3>1, MaxIs
    <3>3. c = ripples[Max(aims)].colour
      BY <2>2 DEF LastColour, aims
    <3>4. \A b \in spent : b < c
      BY <3>2, <3>3 DEF InOrder, aims
    <3>5. c \in sp /\ c \in 1..11
      BY <1>3, <1>4, <3>2, <3>3
    <3>6. colour \in spent \/ colour = 0
      BY <1>2
    <3>7. colour < c \/ colour = 0
      BY <3>4, <3>6
    <3>8. colour \in Int /\ c \in Int /\ c >= 1
      BY <1>2, <3>5
    <3>9. QED BY <3>5, <3>7, <3>8
  <2>3. QED BY <2>1, <2>2
<1>8. InOrder(ripples, sp, c, n)
  <2> HIDE DEF aims
  <2>1. \A i \in DOMAIN ripples : ripples[i].colour \notin sp \union {0} => \A b \in sp : b < ripples[i].colour
    BY <1>5
  <2>2. QED BY <1>6, <1>7, <2>1 DEF InOrder
<1>9. Used(ripples, sp) = Used(ripples, spent)
  <2>1. \A i \in aims : ripples[i].colour \in {ripples[j].colour : j \in DOMAIN ripples}
    BY <1>3
  <2> HIDE DEF aims
  <2>2. QED BY <1>4, <2>1 DEF Used
<1>10. QED BY <1>7, <1>8, <1>9

\* The colours of a new ripple are none, or one after all that there were.
After(colours, m) ==
    colours = {} \/ \E d \in 0..11 : /\ colours = {d}
                                     /\ d # 0 => Reached(d, m) /\ \A b \in Used(ripples, spent) \ {0} : b < d

LEMMA DrawsInOrder ==
    ASSUME NEW n \in Nat, NEW m \in Nat, m <= n, InOrder(ripples, spent, colour, n),
           NEW v, NEW t \in Nat, NEW room, NEW count, NEW colours, After(colours, m),
           Draw(v, t, room, count, colours)
    PROVE  InOrder(ripples', spent', colour', m) /\ colour' >= colour
<1> DEFINE over == {i \in DOMAIN ripples : t > ripples[i].end}
           I == DOMAIN ripples \ over
<1>1. InOrder(ripples, spent', colour', n) /\ colour' >= colour /\ Used(ripples, spent') = Used(ripples, spent)
  BY AimsInOrder DEF Draw
<1>2. ripples' = Rippled(Picked(ripples, I), colours, t)
  BY DEF Draw
<1>3. I \in SUBSET DOMAIN ripples
  OBVIOUS
<1> HIDE DEF I
<1>4. InOrder(Picked(ripples, I), spent', colour', n) /\ Used(Picked(ripples, I), spent') \subseteq Used(ripples, spent)
  BY <1>1, <1>3, DropsInOrder
<1>5. InOrder(Picked(ripples, I), spent', colour', m)
  BY <1>4, SinksInOrder
<1>6. colours = {} \/ \E d \in 0..11 : /\ colours = {d}
                                       /\ d # 0 => Reached(d, m) /\ \A b \in Used(Picked(ripples, I), spent') \ {0} : b < d
  BY <1>4 DEF After
<1>7. InOrder(ripples', spent', colour', m)
  BY <1>2, <1>5, <1>6, RipplesInOrder
<1>8. QED BY <1>1, <1>7

(***************************************************************************)
(* The value that is shown is that of the start of its cycle, the colours  *)
(* are in order, and until the first frame there is none of the last       *)
(* minute, unless the page has set the date.                               *)
(***************************************************************************)
ColourInv ==
    /\ now \in Nat /\ targetDate \in Nat /\ startTime \in Nat /\ startTime <= now
    /\ currentValue = Value(targetDate, startTime)
    /\ InOrder(ripples, spent, colour, Seconds(targetDate, startTime))
    /\ now = 0 /\ ~dated => spent = {} /\ \A i \in DOMAIN ripples : ripples[i].colour = 0

LEMMA ColourStart == CountdownInit => ColourInv
<1> SUFFICES ASSUME CountdownInit PROVE ColourInv
  OBVIOUS
<1> DEFINE m == Seconds(targetDate, 0)
           cs == Ripples(Nought, currentValue)
<1>1. /\ now = 0 /\ targetDate \in Nat /\ startTime = 0 /\ currentValue = Value(targetDate, 0)
      /\ ripples = Rippled(<<>>, cs, 0) /\ spent = {} /\ colour = 0
  BY CountdownAssumption DEF CountdownInit
<1>2. m \in Nat /\ Made(currentValue, m)
  BY <1>1, ValueIs
<1>3. Made(Nought, 0) /\ Nought[3] = 0 /\ Nought[4] = 0
  BY CountdownAssumption DEF Made, Nought
<1>4. cs = {} \/ cs = {0}
  <2>1. \A i \in DOMAIN Thresholds : ~crossedThreshold(Nought, currentValue, Thresholds[i])
    BY <1>3, ThresholdsFall DEF crossedThreshold
  <2>2. {i \in DOMAIN Thresholds : crossedThreshold(Nought, currentValue, Thresholds[i])} = {}
    BY <2>1
  <2>3. cs # {} /\ cs # {0} => /\ SubSeq(currentValue, 1, 3) = <<0, 0, 0>>
                               /\ currentValue # Nought /\ currentValue[4] = 0
    BY <1>3, <2>2 DEF Ripples
  <2>4. SubSeq(currentValue, 1, 3) = <<0, 0, 0>> /\ currentValue[4] = 0 => currentValue = Nought
    <3>1. SUFFICES ASSUME SubSeq(currentValue, 1, 3) = <<0, 0, 0>>, currentValue[4] = 0 PROVE currentValue = Nought
      OBVIOUS
    <3>2. currentValue[1] = 0 /\ currentValue[2] = 0 /\ currentValue[3] = 0
      BY <1>2, <3>1, LastMinute DEF Made
    <3>3. QED BY <1>2, <3>1, <3>2 DEF Made, Nought
  <2>5. QED BY <2>3, <2>4
<1>5. InOrder(<<>>, {}, 0, m)
  BY EmptySeq DEF InOrder
<1>6. InOrder(ripples, spent, colour, m)
  <2>1. cs = {} \/ \E d \in 0..11 : /\ cs = {d}
                                    /\ d # 0 => Reached(d, m) /\ \A b \in Used(<<>>, {}) \ {0} : b < d
    BY <1>4
  <2> HIDE DEF cs, m
  <2>2. QED BY <1>1, <1>2, <1>5, <2>1, RipplesInOrder
<1>7. \A i \in DOMAIN ripples : ripples[i].colour = 0
  <2>1. CASE cs = {}
    BY <1>1, <2>1 DEF Rippled
  <2>2. CASE cs = {0}
    <3>1. Min({0}) = 0
      BY DEF Min
    <3>2. ripples = <<[colour |-> 0, end |-> 0 + RippleTime]>>
      <4>1. ripples = Append(<<>>, [colour |-> 0, end |-> 0 + RippleTime])
        BY <1>1, <2>2, <3>1 DEF Rippled
      <4>2. QED BY <4>1
    <3>3. QED BY <3>2
  <2>3. QED BY <1>4, <2>1, <2>2
<1>8. QED BY <1>1, <1>6, <1>7 DEF ColourInv

\* A draw does not bring a colour where there is none.
LEMMA PlainDraws ==
    ASSUME ripples \in Seq(RippleSet), spent = {}, \A i \in DOMAIN ripples : ripples[i].colour = 0,
           NEW v, NEW t, NEW room, NEW count, Draw(v, t, room, count, {})
    PROVE  spent' = {} /\ \A i \in DOMAIN ripples' : ripples'[i].colour = 0
<1> DEFINE I == DOMAIN ripples \ {i \in DOMAIN ripples : t > ripples[i].end}
<1>1. {i \in DOMAIN ripples : ripples[i].colour \notin spent \union {0}} = {}
  OBVIOUS
<1>2. spent' = {}
  BY <1>1 DEF Draw
<1>3. ripples' = Picked(ripples, I) /\ I \in SUBSET DOMAIN ripples
  BY DEF Draw, Rippled
<1> HIDE DEF I
<1>4. PICK w \in [DOMAIN Picked(ripples, I) -> DOMAIN ripples] :
        \A i \in DOMAIN Picked(ripples, I) : Picked(ripples, I)[i] = ripples[w[i]]
  BY <1>3, PickedIs
<1>5. \A i \in DOMAIN Picked(ripples, I) : Picked(ripples, I)[i].colour = 0
  BY <1>4
<1>6. QED BY <1>2, <1>3, <1>5

\* A cycle is over after it has begun.
LEMMA CycleIsLong == ASSUME startTime \in Nat PROVE outEnd \in Nat /\ outEnd > startTime
BY CountdownAssumption DEF outEnd, outStart, waitStart

LEMMA FrameInOrder ==
    ASSUME ColourInv, NEW elapsed \in Nat, Update(elapsed)
    PROVE  ColourInv' /\ colour' >= colour
<1> DEFINE t == now + elapsed
           again == t >= outEnd /\ targetDate >= t
           cs == IF again THEN Ripples(currentValue, Value(targetDate, t)) ELSE {}
           n == Seconds(targetDate, startTime)
           m == IF again THEN Seconds(targetDate, t) ELSE n
<1>1. /\ now \in Nat /\ targetDate \in Nat /\ startTime \in Nat /\ startTime <= now
      /\ currentValue = Value(targetDate, startTime) /\ InOrder(ripples, spent, colour, n)
  BY DEF ColourInv
<1>2. t \in Nat /\ startTime <= t /\ now' = t /\ targetDate' = targetDate /\ dated' = dated
  BY <1>1 DEF Update
<1>3. IF again THEN startTime' = t /\ currentValue' = Value(targetDate, t)
               ELSE startTime' = startTime /\ currentValue' = currentValue
  BY DEF Update, SetValues
<1>4. n \in Nat /\ m \in Nat /\ m <= n /\ Made(currentValue, n) /\ Made(Value(targetDate, t), Seconds(targetDate, t))
  <2>1. n \in Nat /\ Made(currentValue, n)
    BY <1>1, ValueIs
  <2>2. Seconds(targetDate, t) \in Nat /\ Made(Value(targetDate, t), Seconds(targetDate, t))
    BY <1>1, <1>2, ValueIs
  <2>3. Seconds(targetDate, t) <= n
    BY <1>1, <1>2, Sinks
  <2>4. CASE again
    BY <2>1, <2>2, <2>3, <2>4
  <2>5. CASE ~again
    BY <2>1, <2>2, <2>5
  <2>6. QED BY <2>4, <2>5
<1>5. Seconds(targetDate, startTime)' = m
  BY <1>2, <1>3 DEF Seconds
<1>6. After(cs, m)
  <2>1. CASE ~again
    BY <2>1 DEF After
  <2>2. CASE again
    <3>1. cs = Ripples(currentValue, Value(targetDate, t)) /\ m = Seconds(targetDate, t)
      BY <2>2
    <3> HIDE DEF cs, m, n
    <3>2. /\ cs = {} \/ \E c \in 0..11 : cs = {c} /\ (c # 0 => Reached(c, m))
          /\ \A c \in cs : \A b \in 1..11 : c # 0 /\ Reached(b, n) => b < c
      BY <1>4, <3>1, RippleIs
    <3>3. \A b \in Used(ripples, spent) \ {0} : b \in 1..11 /\ Reached(b, n)
      <4>1. \A i \in DOMAIN ripples : ripples[i].colour \in 0..11
        BY <1>1, SeqIs DEF InOrder
      <4>2. SUFFICES ASSUME NEW b \in Used(ripples, spent), b # 0 PROVE b \in 1..11 /\ Reached(b, n)
        OBVIOUS
      <4>3. CASE b \in spent
        BY <1>1, <4>3 DEF InOrder
      <4>4. CASE b \notin spent
        <5>1. PICK i \in DOMAIN ripples : b = ripples[i].colour
          BY <4>4 DEF Used
        <5>2. b \in 0..11
          BY <4>1, <5>1
        <5>3. Reached(b, n)
          BY <1>1, <4>2, <5>1 DEF InOrder
        <5>4. QED BY <4>2, <5>2, <5>3
      <4>5. QED BY <4>3, <4>4
    <3>4. QED BY <3>2, <3>3 DEF After
  <2>3. QED BY <2>1, <2>2
<1>7. \/ \E v, count : Draw(v, t, unitCount, count, cs)
      \/ ripples' = Rippled(ripples, cs, t) /\ spent' = spent /\ colour' = colour
  BY DEF Update
<1>8. InOrder(ripples', spent', colour', m) /\ colour' >= colour
  <2>1. CASE \E v, count : Draw(v, t, unitCount, count, cs)
    <3> HIDE DEF cs, m, n, t
    <3>1. QED BY <1>1, <1>2, <1>4, <1>6, <2>1, DrawsInOrder DEF t
  <2>2. CASE ripples' = Rippled(ripples, cs, t) /\ spent' = spent /\ colour' = colour
    <3>1. InOrder(ripples, spent, colour, m)
      BY <1>1, <1>4, SinksInOrder
    <3> HIDE DEF cs, m, n, t
    <3>2. InOrder(ripples', spent', colour', m)
      BY <1>2, <1>4, <1>6, <2>2, <3>1, RipplesInOrder DEF After
    <3>3. colour \in Nat
      BY <3>1 DEF InOrder
    <3>4. QED BY <2>2, <3>2, <3>3
  <2>3. QED BY <1>7, <2>1, <2>2
<1>9. ASSUME now' = 0, ~dated' PROVE spent' = {} /\ \A i \in DOMAIN ripples' : ripples'[i].colour = 0
  <2>1. now = 0 /\ ~dated /\ elapsed = 0
    BY <1>1, <1>2, <1>9
  <2>2. ~again /\ cs = {}
    BY <1>1, <1>2, <1>9, CycleIsLong
  <2>3. spent = {} /\ \A i \in DOMAIN ripples : ripples[i].colour = 0
    BY <2>1 DEF ColourInv
  <2>4. CASE \E v, count : Draw(v, t, unitCount, count, cs)
    <3>1. ripples \in Seq(RippleSet)
      BY <1>1 DEF InOrder
    <3> HIDE DEF t, cs
    <3>2. PICK v, count : Draw(v, t, unitCount, count, {})
      BY <2>2, <2>4
    <3>3. QED BY <2>3, <3>1, <3>2, PlainDraws
  <2>5. CASE ripples' = Rippled(ripples, cs, t) /\ spent' = spent
    BY <2>2, <2>3, <2>5 DEF Rippled
  <2>6. QED BY <1>7, <2>4, <2>5
<1>10. now' \in Nat /\ targetDate' \in Nat /\ startTime' \in Nat /\ startTime' <= now'
  BY <1>1, <1>2, <1>3
<1>11. currentValue' = Value(targetDate, startTime)'
  <2>1. CASE again
    BY <1>2, <1>3, <2>1 DEF Value
  <2>2. CASE ~again
    BY <1>1, <1>2, <1>3, <2>2 DEF Value
  <2>3. QED BY <2>1, <2>2
<1>12. InOrder(ripples, spent, colour, Seconds(targetDate, startTime))'
  <2> HIDE DEF m
  <2>1. QED BY <1>5, <1>8 DEF InOrder, Reached
<1>13. QED
  <2> HIDE DEF m
  <2>1. QED BY <1>8, <1>9, <1>10, <1>11, <1>12 DEF ColourInv

\* The date is set before there is a colour: any ripple it asks for is in order.
LEMMA DateInOrder ==
    ASSUME ColourInv, LoadTime = 0, NEW date \in Nat, DateChanged(date)
    PROVE  ColourInv' /\ colour' = colour
<1> DEFINE m == Seconds(date, 0)
           cs == Ripples(currentValue, Value(date, 0))
<1>1. now = 0 /\ ~dated /\ spent = {} /\ \A i \in DOMAIN ripples : ripples[i].colour = 0
  BY DEF DateChanged, ColourInv
<1>2. /\ now' = 0 /\ dated' = TRUE /\ targetDate' = date /\ startTime' = 0 /\ currentValue' = Value(date, 0)
      /\ ripples' = Rippled(ripples, cs, 0) /\ spent' = spent /\ colour' = colour
  BY <1>1 DEF DateChanged, SetValues
<1>3. InOrder(ripples, spent, colour, m)
  BY <1>1 DEF ColourInv, InOrder
<1>4. m \in Nat /\ Made(Value(date, 0), m)
  BY ValueIs
<1>5. PICK n \in Nat : Made(currentValue, n)
  BY ValueIs DEF ColourInv
<1>6. cs = {} \/ \E c \in 0..11 : cs = {c} /\ (c # 0 => Reached(c, m))
  BY <1>4, <1>5, RippleIs
<1>7. Used(ripples, spent) \ {0} = {}
  BY <1>1 DEF Used
<1>8. InOrder(ripples', spent', colour', m)
  <2> HIDE DEF m, cs
  <2>1. cs = {} \/ \E d \in 0..11 : /\ cs = {d}
                                    /\ d # 0 => Reached(d, m) /\ \A b \in Used(ripples, spent) \ {0} : b < d
    BY <1>6, <1>7
  <2>2. QED BY <1>2, <1>3, <1>4, <2>1, RipplesInOrder
<1>9. InOrder(ripples, spent, colour, Seconds(targetDate, startTime))'
  BY <1>2, <1>8 DEF InOrder, Reached, Seconds
<1>10. currentValue' = Value(targetDate, startTime)'
  BY <1>2 DEF Value
<1>11. QED BY <1>2, <1>9, <1>10 DEF ColourInv

LEMMA ColourStep ==
    ASSUME LoadTime = 0, ColourInv, [CountdownNext]_countdownVars
    PROVE  ColourInv' /\ colour' >= colour
<1>1. colour \in Nat
  <2>1. spent \subseteq 1..11 /\ colour \in spent \union {0}
    BY DEF ColourInv, InOrder
  <2>2. QED BY <2>1
<1>2. ASSUME NEW elapsed \in Nat, Update(elapsed) PROVE ColourInv' /\ colour' >= colour
  BY <1>2, FrameInOrder
<1>3. CASE UpdateSoon
  BY <1>2, <1>3, CountdownAssumption DEF UpdateSoon
<1>4. CASE UpdateLate
  BY <1>2, <1>4, CountdownAssumption DEF UpdateLate
<1>5. ASSUME NEW date \in Dates, DateChanged(date) PROVE ColourInv' /\ colour' >= colour
  BY <1>1, <1>5, DateInOrder, CountdownAssumption
<1>6. CASE /\ UNCHANGED <<targetDate, dated, currentValue, startTime, ripples, spent, colour>>
           /\ now' = now \/ (now' = now + MaxFrame)
  <2>1. now' \in Nat /\ now' >= now
    BY <1>6, CountdownAssumption DEF ColourInv
  <2>2. now' = 0 => now = 0
    BY <2>1 DEF ColourInv
  <2>3. startTime' <= now'
    BY <1>6, <2>1 DEF ColourInv
  <2>4. InOrder(ripples, spent, colour, Seconds(targetDate, startTime))'
    BY <1>6 DEF ColourInv, InOrder, Reached, Seconds
  <2>5. currentValue' = Value(targetDate, startTime)'
    BY <1>6 DEF ColourInv, Value
  <2>6. QED BY <1>1, <1>6, <2>1, <2>2, <2>3, <2>4, <2>5 DEF ColourInv
<1>7. ASSUME NEW room, ResizeCanvas(room) PROVE ColourInv' /\ colour' >= colour
  <2>1. CASE running
    BY <1>6, <1>7, <2>1 DEF ResizeCanvas, clock, cycle
  <2>2. CASE ~running
    <3> DEFINE n == Seconds(targetDate, startTime)
    <3>1. UNCHANGED <<now, dated, targetDate, currentValue, startTime>> /\ Draw(currentValue, now, room, freezeCount, {})
      BY <1>7, <2>2 DEF ResizeCanvas, clock, cycle
    <3>2. n \in Nat
      BY ValueIs DEF ColourInv
    <3>3. InOrder(ripples', spent', colour', n) /\ colour' >= colour
      BY <3>1, <3>2, DrawsInOrder DEF ColourInv, After
    <3>4. now = 0 /\ ~dated => spent' = {} /\ \A i \in DOMAIN ripples' : ripples'[i].colour = 0
      BY <3>1, PlainDraws DEF ColourInv, InOrder
    <3>5. InOrder(ripples, spent, colour, Seconds(targetDate, startTime))'
      BY <3>1, <3>3 DEF InOrder, Reached, Seconds
    <3>6. currentValue' = Value(targetDate, startTime)'
      BY <3>1 DEF ColourInv, Value
    <3>7. QED BY <3>1, <3>3, <3>4, <3>5, <3>6 DEF ColourInv
  <2>3. QED BY <2>1, <2>2
<1>8. CASE Pass \/ StartTimer \/ Detach \/ UNCHANGED countdownVars
  BY <1>6, <1>8 DEF Pass, StartTimer, Detach, countdownVars, clock, cycle, painted
<1>9. QED BY <1>3, <1>4, <1>5, <1>7, <1>8 DEF CountdownNext

(***************************************************************************)
(* If the page has set the date before the first frame: however long the   *)
(* frames take and whatever the date, the colours of the last minute       *)
(* follow each other in the order of the rundown; none comes back          *)
(* (TimerRenderer and the countdown-timer element).                        *)
(***************************************************************************)
THEOREM ColoursNeverGoBack == LoadTime = 0 => (CountdownSpec => ColourNeverBack)
<1> SUFFICES ASSUME LoadTime = 0 PROVE CountdownSpec => ColourNeverBack
  OBVIOUS
<1>1. ColourInv /\ [CountdownNext]_countdownVars => ColourInv' /\ [colour' >= colour]_countdownVars
  BY ColourStep
<1>2. QED BY <1>1, ColourStart, PTL DEF CountdownSpec, ColourNeverBack

-----------------------------------------------------------------------------
(* The end of the countdown, and the digits that stay                      *)

\* A second and a frame are no longer than a cycle: 500, 300 and 400 ms (countdown-timer.html).
Brief == Second + MaxFrame <= EaseInTime + WaitTime + EaseOutTime + 1

FourUnits(v) == v = <<v[1], v[2], v[3], v[4]>> /\ \A i \in 1..4 : v[i] \in Nat

(***************************************************************************)
(* The value is that of the start of its cycle.  Which characters stay was *)
(* decided for it and the one that was foreseen, if not for the ones       *)
(* before; nothing was before the first frame.                             *)
(***************************************************************************)
CycleInv ==
    /\ now \in Nat /\ targetDate \in Nat /\ startTime \in Nat /\ startTime <= now
    /\ currentValue = Value(targetDate, startTime) /\ FourUnits(lastDrawn)
    /\ {running, needToFreeze, told, ended, inDocument} \subseteq BOOLEAN
    /\ needToFreeze => freezeCount = 0 \/ freezeCount = Freeze(lastDrawn, next)
    /\ ~needToFreeze => freezeCount = Freeze(currentValue, next)
    /\ now = 0 => needToFreeze /\ freezeCount = 0

LEMMA Cycle ==
    ASSUME startTime \in Nat
    PROVE  /\ waitStart \in Nat /\ outStart \in Nat /\ outEnd \in Nat
           /\ startTime < waitStart /\ waitStart < outStart /\ outStart < outEnd
           /\ outEnd = startTime + EaseInTime + WaitTime + EaseOutTime
BY CountdownAssumption DEF waitStart, outStart, outEnd

\* Zero is shown in a cycle that begins less than a second before the date.
LEMMA NoughtIs ==
    ASSUME NEW date \in Nat, NEW t \in Nat, Value(date, t) = Nought
    PROVE  date < t + Second
<1> DEFINE x == IF date > t THEN date - t ELSE 0
<1>1. x \in Nat /\ Second \in Nat \ {0} /\ Minute \in Nat \ {0}
  BY CountdownAssumption
<1>2. Seconds(date, t) = x \div Second
  BY DEF Seconds
<1>3. Seconds(date, t) = 0
  <2>1. Seconds(date, t) \in Nat /\ Made(Nought, Seconds(date, t))
    BY ValueIs
  <2>2. Nought[1] = 0 /\ Nought[2] = 0 /\ Nought[3] = 0 /\ Nought[4] = 0
    BY DEF Nought
  <2>3. QED BY <2>1, <2>2 DEF Made
<1> HIDE DEF x
<1>4. x < Second
  BY <1>1, <1>2, <1>3, Divided
<1>5. QED BY <1>4, CountdownAssumption DEF x

LEMMA FourIs == ASSUME NEW date \in Nat, NEW t \in Nat PROVE FourUnits(Value(date, t))
BY ValueIs DEF Made, FourUnits

LEMMA CharactersAre == ASSUME NEW v, FourUnits(v) PROVE Characters(v) \in Seq(Nat)
<1>1. ASSUME NEW n \in Nat PROVE Padded(n) \in Seq(Nat)
  <2>1. n \div 10 \in Nat /\ n % 10 \in Nat /\ n \div 100 \in Nat
    BY Divided
  <2>2. (n \div 10) % 10 \in Nat
    BY <2>1, Divided
  <2>3. QED BY <2>1, <2>2 DEF Padded
<1>2. v[1] \in Nat /\ v[2] \in Nat /\ v[3] \in Nat /\ v[4] \in Nat
  BY DEF FourUnits
<1>3. /\ Padded(v[1]) \in Seq(Nat) /\ Padded(v[2]) \in Seq(Nat) /\ Padded(v[3]) \in Seq(Nat)
      /\ Padded(v[4]) \in Seq(Nat)
  BY <1>1, <1>2
<1>4. \A a, b \in Seq(Nat) : a \o b \in Seq(Nat)
  BY ConcatProperties
<1>5. <<10>> \in Seq(Nat)
  OBVIOUS
<1>6. QED BY <1>3, <1>4, <1>5 DEF Characters

\* The characters that stay are the same in both values.
LEMMA FrozenIsSame ==
    ASSUME NEW v, NEW w, FourUnits(v), FourUnits(w), Freeze(v, w) \in 1..98
    PROVE  SubSeq(Characters(v), 1, Freeze(v, w)) = SubSeq(Characters(w), 1, Freeze(v, w))
<1> DEFINE a == Characters(v)
           b == Characters(w)
           k == Freeze(v, w)
           diff == {i \in DOMAIN a : i > Len(b) \/ a[i] # b[i]}
<1>1. a \in Seq(Nat) /\ b \in Seq(Nat)
  BY CharactersAre
<1>2. k = IF v = Nought THEN 99 ELSE IF diff = {} THEN Len(a) - 1 ELSE Min(diff) - 1
  BY DEF Freeze
<1>3. v # Nought
  BY <1>2
<1> HIDE DEF a, b, k
<1>4. Len(a) \in Nat /\ DOMAIN a = 1..Len(a) /\ Len(b) \in Nat
  BY <1>1, LenProperties
<1>5. k \in 1..98
  BY DEF k
<1>6. k <= Len(a) /\ \A i \in 1..k : i \in DOMAIN a /\ i \notin diff
  <2>1. CASE diff = {}
    <3>1. k = Len(a) - 1
      BY <1>2, <1>3, <2>1
    <3>2. k <= Len(a) /\ \A i \in 1..k : i \in 1..Len(a)
      BY <1>4, <1>5, <3>1
    <3>3. QED BY <1>4, <2>1, <3>2
  <2>2. CASE diff # {}
    <3>1. diff \subseteq Nat
      BY <1>4
    <3>2. diff \subseteq 1..Len(a)
      BY <1>4
    <3> HIDE DEF diff
    <3>3. Min(diff) \in diff /\ \A x \in diff : Min(diff) <= x
      BY <2>2, <3>1, MinIs
    <3>4. k = Min(diff) - 1 /\ Min(diff) \in 1..Len(a)
      BY <1>2, <1>3, <2>2, <3>2, <3>3
    <3>5. \A i \in 1..k : i \in 1..Len(a) /\ ~(Min(diff) <= i)
      BY <1>4, <1>5, <3>4
    <3>6. \A i \in 1..k : i \notin diff
      BY <3>3, <3>5
    <3>7. QED BY <1>4, <1>5, <3>4, <3>5, <3>6
  <2>3. QED BY <2>1, <2>2
<1>7. \A i \in 1..k : i <= Len(b) /\ a[i] = b[i]
  BY <1>4, <1>5, <1>6
<1>8. k <= Len(b)
  <2>1. k \in 1..k
    BY <1>5
  <2>2. QED BY <1>7, <2>1
<1>9. SubSeq(a, 1, k) = [i \in 1..k |-> a[i]] /\ SubSeq(b, 1, k) = [i \in 1..k |-> b[i]]
  <2>1. ASSUME NEW s \in Seq(Nat), k <= Len(s) PROVE SubSeq(s, 1, k) = [i \in 1..k |-> s[i]]
    <3>1. Len(s) \in Nat
      BY LenProperties
    <3>2. SubSeq(s, 1, k) = [i \in 1..(k - 1 + 1) |-> s[i + 1 - 1]]
      BY <1>5, <2>1, <3>1, SubSeqProperties
    <3>3. k - 1 + 1 = k /\ \A i \in 1..k : i + 1 - 1 = i
      BY <1>5
    <3>4. QED BY <3>2, <3>3
  <2>2. QED BY <1>1, <1>6, <1>8, <2>1
<1>10. [i \in 1..k |-> a[i]] = [i \in 1..k |-> b[i]]
  BY <1>7
<1>11. QED BY <1>9, <1>10 DEF a, b, k

LEMMA CycleStart == CountdownInit => CycleInv /\ EndTold
<1> SUFFICES ASSUME CountdownInit PROVE CycleInv /\ EndTold
  OBVIOUS
<1>1. /\ now = 0 /\ targetDate \in Nat /\ startTime = 0 /\ currentValue = Value(targetDate, 0)
      /\ lastDrawn = Nought /\ running \in BOOLEAN /\ needToFreeze = TRUE /\ freezeCount = 0
      /\ told = FALSE /\ ended = FALSE /\ inDocument = TRUE
  BY CountdownAssumption DEF CountdownInit
<1>2. FourUnits(Nought)
  BY DEF FourUnits, Nought
<1>3. outEnd \in Nat
  BY <1>1, Cycle
<1>4. CycleInv
  <2>1. currentValue = Value(targetDate, startTime) /\ FourUnits(lastDrawn)
    BY <1>1, <1>2
  <2>2. {running, needToFreeze, told, ended, inDocument} \subseteq BOOLEAN
    BY <1>1
  <2>3. now \in Nat /\ targetDate \in Nat /\ startTime \in Nat /\ startTime <= now
    BY <1>1
  <2>4. needToFreeze /\ freezeCount = 0
    BY <1>1
  <2>5. QED BY <2>1, <2>2, <2>3, <2>4 DEF CycleInv
<1>5. EndTold
  BY <1>1, <1>3 DEF EndTold
<1>6. QED BY <1>4, <1>5

LEMMA CycleFrame ==
    ASSUME CycleInv, EndTold, NEW elapsed \in Nat, Update(elapsed)
    PROVE  CycleInv' /\ EndTold'
<1> DEFINE t == now + elapsed
           done == t >= outEnd
           again == done /\ targetDate >= t
           freezes == t > waitStart /\ needToFreeze
           foreseen == IF freezes THEN Value(targetDate, t + EaseOutTime + WaitTime) ELSE next
           count == IF freezes THEN Freeze(currentValue, foreseen) ELSE freezeCount
<1>1. /\ now \in Nat /\ targetDate \in Nat /\ startTime \in Nat /\ startTime <= now
      /\ currentValue = Value(targetDate, startTime) /\ FourUnits(lastDrawn)
      /\ running \in BOOLEAN /\ needToFreeze \in BOOLEAN /\ told \in BOOLEAN /\ ended \in BOOLEAN
      /\ inDocument \in BOOLEAN
  BY DEF CycleInv
<1>2. /\ t \in Nat /\ t >= startTime /\ t >= now /\ now' = t /\ targetDate' = targetDate /\ inDocument' = inDocument
      /\ next' = foreseen /\ freezeCount' = count
      /\ told' = (told \/ Tells(t)) /\ ended' = (ended \/ (Tells(t) /\ targetDate <= t))
      /\ needToFreeze' = (again \/ (needToFreeze /\ ~freezes))
      /\ running' = (again \/ ~done)
  BY <1>1 DEF Update
<1>3. IF again THEN lastDrawn' = currentValue /\ currentValue' = Value(targetDate, t) /\ startTime' = t
               ELSE UNCHANGED <<lastDrawn, currentValue, startTime>>
  BY DEF Update, SetValues
<1>4. /\ waitStart \in Nat /\ outStart \in Nat /\ outEnd \in Nat
      /\ startTime < waitStart /\ waitStart < outStart /\ outStart < outEnd
  BY <1>1, Cycle
<1>5. /\ t \in Nat /\ targetDate' \in Nat /\ startTime' \in Nat /\ startTime' <= t
      /\ currentValue' = Value(targetDate, startTime') /\ FourUnits(lastDrawn')
  BY <1>1, <1>2, <1>3, FourIs
<1>6. currentValue' = Value(targetDate, startTime)'
  BY <1>2, <1>5 DEF Value
<1>7. {running, needToFreeze, told, ended, inDocument}' \subseteq BOOLEAN
  <2>1. Tells(t) \in BOOLEAN
    BY DEF Tells
  <2>2. QED BY <1>1, <1>2, <2>1
<1>8. needToFreeze' => freezeCount' = 0 \/ freezeCount' = Freeze(lastDrawn, next)'
  <2>1. CASE again
    <3>1. done /\ t > waitStart
      BY <1>2, <1>4, <2>1
    <3>2. freezeCount' = Freeze(currentValue, foreseen)
      BY <1>1, <1>2, <3>1 DEF CycleInv
    <3>3. QED BY <1>2, <1>3, <2>1, <3>2 DEF Freeze
  <2>2. CASE ~again
    BY <1>2, <1>3, <2>2 DEF CycleInv, Freeze
  <2>3. QED BY <2>1, <2>2
<1>9. ~needToFreeze' => freezeCount' = Freeze(currentValue, next)'
  <2>1. SUFFICES ASSUME ~needToFreeze' PROVE freezeCount' = Freeze(currentValue, next)'
    OBVIOUS
  <2>2. currentValue' = currentValue
    BY <1>2, <1>3, <2>1
  <2>3. freezeCount' = Freeze(currentValue, foreseen)
    BY <1>1, <1>2, <2>1 DEF CycleInv
  <2>4. QED BY <1>2, <2>2, <2>3 DEF Freeze
<1>10. now' = 0 => needToFreeze' /\ freezeCount' = 0
  <2>1. SUFFICES ASSUME now' = 0 PROVE needToFreeze' /\ freezeCount' = 0
    OBVIOUS
  <2>2. now = 0 /\ ~(t > waitStart)
    BY <1>1, <1>2, <1>4, <2>1
  <2>3. needToFreeze /\ freezeCount = 0
    BY <2>2 DEF CycleInv
  <2>4. QED BY <1>2, <2>2, <2>3
<1>11. CycleInv'
  BY <1>2, <1>5, <1>6, <1>7, <1>8, <1>9, <1>10 DEF CycleInv
<1>12. inDocument' /\ ~running' /\ now' > targetDate' /\ currentValue' = Nought => told'
  <2>1. SUFFICES ASSUME ~running', currentValue' = Nought PROVE told'
    OBVIOUS
  <2>2. done /\ ~again
    BY <1>2, <2>1
  <2>3. t > outStart /\ currentValue = Nought
    BY <1>2, <1>3, <1>4, <2>1, <2>2
  <2>4. told \/ Tells(t)
    BY <2>3 DEF Tells
  <2>5. QED BY <1>2, <2>4
<1>13. told' => now' + Second > targetDate'
  <2>1. CASE told
    BY <1>1, <1>2, <2>1, CountdownAssumption DEF EndTold
  <2>2. CASE Tells(t)
    <3>1. Value(targetDate, startTime) = Nought
      BY <1>1, <2>2 DEF Tells
    <3>2. targetDate < startTime + Second
      BY <1>1, <3>1, NoughtIs
    <3>3. QED BY <1>1, <1>2, <3>2, CountdownAssumption
  <2>3. QED BY <1>2, <2>1, <2>2
<1>14. ended' => told' /\ now' >= targetDate'
  <2>1. CASE ended
    BY <1>1, <1>2, <2>1 DEF EndTold
  <2>2. CASE ~ended
    BY <1>1, <1>2, <2>2
  <2>3. QED BY <2>1, <2>2
<1>15. EndTold'
  BY <1>12, <1>13, <1>14 DEF EndTold
<1>16. QED BY <1>11, <1>15

LEMMA CycleStep ==
    ASSUME LoadTime = 0, Brief, CycleInv, EndTold, [CountdownNext]_countdownVars
    PROVE  CycleInv' /\ EndTold'
<1> DEFINE same == UNCHANGED <<targetDate, currentValue, lastDrawn, next, startTime, needToFreeze, freezeCount, told, ended>>
<1>1. /\ now \in Nat /\ targetDate \in Nat /\ startTime \in Nat /\ startTime <= now
      /\ currentValue = Value(targetDate, startTime) /\ FourUnits(lastDrawn)
      /\ running \in BOOLEAN /\ needToFreeze \in BOOLEAN /\ told \in BOOLEAN /\ ended \in BOOLEAN
      /\ inDocument \in BOOLEAN
  BY DEF CycleInv
<1>2. ASSUME NEW elapsed \in Nat, Update(elapsed) PROVE CycleInv' /\ EndTold'
  BY <1>2, CycleFrame
<1>3. CASE UpdateSoon
  BY <1>2, <1>3, CountdownAssumption DEF UpdateSoon
<1>4. CASE UpdateLate
  BY <1>2, <1>4, CountdownAssumption DEF UpdateLate
<1>5. ASSUME same, now' \in Nat, now' >= now, running' \in BOOLEAN, inDocument' \in BOOLEAN
      PROVE  CycleInv'
  <2>1. now' = 0 => now = 0
    BY <1>1, <1>5
  <2>2. Value(targetDate, startTime)' = Value(targetDate, startTime)
    BY <1>5 DEF Value
  <2>3. Freeze(lastDrawn, next)' = Freeze(lastDrawn, next) /\ Freeze(currentValue, next)' = Freeze(currentValue, next)
    BY <1>5 DEF Freeze
  <2>4. startTime' <= now'
    BY <1>1, <1>5
  <2>5. QED BY <1>1, <1>5, <2>1, <2>2, <2>3, <2>4 DEF CycleInv, FourUnits
<1>6. ASSUME same, now' = now, running' \in BOOLEAN, inDocument' \in BOOLEAN,
             running' \/ ~inDocument' \/ (UNCHANGED <<running, inDocument>>)
      PROVE  CycleInv' /\ EndTold'
  <2>1. CycleInv'
    BY <1>1, <1>5, <1>6
  <2>2. outEnd' = outEnd
    BY <1>6 DEF outEnd, outStart, waitStart
  <2>3. EndTold'
    BY <1>6, <2>2 DEF EndTold
  <2>4. QED BY <2>1, <2>3
<1>7. CASE StartTimer
  BY <1>1, <1>6, <1>7 DEF StartTimer, clock, painted
<1>8. CASE Detach
  BY <1>1, <1>6, <1>8 DEF Detach, painted
<1>9. ASSUME NEW room, ResizeCanvas(room) PROVE CycleInv' /\ EndTold'
  BY <1>1, <1>6, <1>9 DEF ResizeCanvas, clock, cycle
<1>10. CASE UNCHANGED countdownVars
  BY <1>1, <1>6, <1>10 DEF countdownVars, clock, cycle
<1>11. CASE Pass
  <2>1. /\ same /\ ~running /\ now <= targetDate /\ now' = now + MaxFrame
        /\ running' = running /\ inDocument' = inDocument
    BY <1>11 DEF Pass, cycle
  <2>2. MaxFrame \in Nat /\ now' \in Nat /\ now' >= now
    BY <1>1, <2>1, CountdownAssumption
  <2>3. CycleInv'
    BY <1>1, <1>5, <2>1, <2>2
  <2>4. outEnd' = outEnd
    BY <2>1 DEF outEnd, outStart, waitStart
  <2>5. currentValue = Nought => now' <= outEnd
    <3>1. SUFFICES ASSUME currentValue = Nought PROVE now' <= outEnd
      OBVIOUS
    <3>2. targetDate < startTime + Second
      BY <1>1, <3>1, NoughtIs
    <3>3. outEnd = startTime + EaseInTime + WaitTime + EaseOutTime
      BY <1>1, Cycle
    <3>4. QED BY <1>1, <2>1, <3>2, <3>3, CountdownAssumption DEF Brief
  <2>6. outEnd \in Nat
    BY <1>1, Cycle
  <2>7. told' => now' + Second > targetDate'
    BY <1>1, <2>1, <2>2, CountdownAssumption DEF EndTold
  <2>8. ended' => told' /\ now' >= targetDate'
    BY <1>1, <2>1, <2>2 DEF EndTold
  <2>9. currentValue' = Nought /\ now' > outEnd' => told'
    BY <2>1, <2>2, <2>4, <2>5, <2>6
  <2>10. QED BY <2>3, <2>7, <2>8, <2>9 DEF EndTold
<1>12. ASSUME NEW date \in Dates, DateChanged(date) PROVE CycleInv' /\ EndTold'
  <2>1. /\ now = 0 /\ now' = now /\ date \in Nat /\ targetDate' = date /\ startTime' = now
        /\ currentValue' = Value(date, now) /\ lastDrawn' = currentValue
        /\ UNCHANGED <<inDocument, next, running, needToFreeze, freezeCount, told, ended>> /\ ~told
    BY <1>1, <1>12, CountdownAssumption DEF DateChanged, SetValues
  <2>2. needToFreeze /\ freezeCount = 0
    BY <2>1 DEF CycleInv
  <2>3. Value(targetDate, startTime)' = Value(date, now)
    BY <2>1 DEF Value
  <2>4. FourUnits(lastDrawn')
    BY <1>1, <2>1, FourIs
  <2>5. CycleInv'
    BY <1>1, <2>1, <2>2, <2>3, <2>4 DEF CycleInv
  <2>6. outEnd' > now'
    <3>1. outEnd' = now + EaseInTime + WaitTime + EaseOutTime
      BY <2>1 DEF outEnd, outStart, waitStart
    <3>2. QED BY <1>1, <2>1, <3>1, CountdownAssumption
  <2>7. ~told' /\ ~ended'
    BY <2>1 DEF EndTold
  <2>8. ~(now' > outEnd')
    BY <1>1, <2>1, <2>6, CountdownAssumption DEF outEnd, outStart, waitStart
  <2>9. QED BY <2>5, <2>7, <2>8 DEF EndTold
<1>13. QED BY <1>3, <1>4, <1>7, <1>8, <1>9, <1>10, <1>11, <1>12 DEF CountdownNext

LEMMA StaysSame == CycleInv /\ DigitsInOrder => StillIsSame
<1> SUFFICES ASSUME CycleInv, DigitsInOrder, running, needToFreeze, next = currentValue, freezeCount \in 1..98
             PROVE  SubSeq(Characters(lastDrawn), 1, freezeCount) = SubSeq(Characters(currentValue), 1, freezeCount)
  BY DEF StillIsSame
<1>1. freezeCount = Freeze(lastDrawn, currentValue)
  BY DEF CycleInv
<1>2. FourUnits(lastDrawn) /\ FourUnits(currentValue)
  BY FourIs DEF CycleInv
<1>3. QED BY <1>1, <1>2, FrozenIsSame

(***************************************************************************)
(* With a second and a frame no longer than a cycle, and the date set      *)
(* before the first frame: the end is told, in time, and what stays on the *)
(* canvas is the same in both values (countdown-timer.js and               *)
(* countdown-timer-renderer.js).  DigitsInOrder is about the shapes of the *)
(* ten digits and has no parameter: TLC evaluates all of it.               *)
(***************************************************************************)
THEOREM CountdownIsRight == Brief /\ LoadTime = 0 /\ DigitsInOrder => (CountdownSpec => []CountdownRight)
<1> SUFFICES ASSUME Brief, LoadTime = 0, DigitsInOrder PROVE CountdownSpec => []CountdownRight
  OBVIOUS
<1>1. CycleInv /\ EndTold /\ [CountdownNext]_countdownVars => (CycleInv /\ EndTold)'
  BY CycleStep
<1>2. CycleInv /\ EndTold => CountdownRight
  BY StaysSame DEF CountdownRight
<1>3. QED BY <1>1, <1>2, CycleStart, PTL DEF CountdownSpec
-----------------------------------------------------------------------------
(* The order of the markers, dimension by dimension.                       *)

Marked == DOMAIN Markers
Coordinate(p, d) == Markers[p][1 + (d % 3)]

\* The order spelt out: three coordinates, then the index.
LessIs(p, q, d) ==
    \/ Coordinate(p, d) < Coordinate(q, d)
    \/ /\ Coordinate(p, d) = Coordinate(q, d)
       /\ \/ Coordinate(p, d + 1) < Coordinate(q, d + 1)
          \/ /\ Coordinate(p, d + 1) = Coordinate(q, d + 1)
             /\ \/ Coordinate(p, d + 2) < Coordinate(q, d + 2)
                \/ Coordinate(p, d + 2) = Coordinate(q, d + 2) /\ p < q

LEMMA MarkersAre ==
    /\ Marked = 1..Len(Markers) /\ Len(Markers) \in Nat /\ IsFiniteSet(Marked)
    /\ \A p \in Marked, d \in Nat : Coordinate(p, d) \in Int
<1>1. Marked = 1..Len(Markers) /\ Len(Markers) \in Nat
  BY KdTreeAssumption DEF Marked
<1>2. IsFiniteSet(Marked)
  BY <1>1, FS_Interval
<1>3. ASSUME NEW p \in Marked, NEW d \in Nat PROVE Coordinate(p, d) \in Int
  <2>1. Markers[p] \in Int \X Int \X Int
    BY <1>1, KdTreeAssumption
  <2>2. d % 3 \in 0..2
    OBVIOUS
  <2>3. 1 + (d % 3) = 1 \/ 1 + (d % 3) = 2 \/ 1 + (d % 3) = 3
    BY <2>2
  <2>4. Markers[p][1] \in Int /\ Markers[p][2] \in Int /\ Markers[p][3] \in Int
    BY <2>1
  <2> QED BY <2>3, <2>4 DEF Coordinate
<1> QED BY <1>1, <1>2, <1>3

LEMMA LessSpelt ==
    ASSUME NEW p \in Marked, NEW q \in Marked, NEW d \in Nat
    PROVE  Less(p, q, d) <=> LessIs(p, q, d)
<1> DEFINE a == Key(p, d)
           b == Key(q, d)
<1>1. /\ a[0] = Coordinate(p, d) /\ a[1] = Coordinate(p, d + 1) /\ a[2] = Coordinate(p, d + 2)
      /\ b[0] = Coordinate(q, d) /\ b[1] = Coordinate(q, d + 1) /\ b[2] = Coordinate(q, d + 2)
      /\ a = [k \in 0..2 |-> a[k]] /\ b = [k \in 0..2 |-> b[k]]
  BY DEF Key, Coordinate
<1>2. /\ a[0] \in Int /\ a[1] \in Int /\ a[2] \in Int /\ b[0] \in Int /\ b[1] \in Int /\ b[2] \in Int
  BY <1>1, MarkersAre
<1>3. a = b <=> a[0] = b[0] /\ a[1] = b[1] /\ a[2] = b[2]
  <2>1. \A k \in 0..2 : k = 0 \/ k = 1 \/ k = 2
    OBVIOUS
  <2>2. ASSUME a[0] = b[0], a[1] = b[1], a[2] = b[2] PROVE a = b
    <3>1. \A k \in 0..2 : a[k] = b[k]
      BY <2>1, <2>2
    <3> HIDE DEF a, b
    <3> QED BY <1>1, <3>1
  <2> QED BY <2>2
<1>4. p \in Int /\ q \in Int
  BY MarkersAre
<1>5. Less(p, q, d) <=> \/ \E k \in 0..2 : a[k] < b[k] /\ \A j \in 0..(k - 1) : a[j] = b[j]
                        \/ a = b /\ p < q
  BY DEF Less
<1> HIDE DEF a, b
<1>6. (\E k \in 0..2 : a[k] < b[k] /\ \A j \in 0..(k - 1) : a[j] = b[j]) <=>
        \/ a[0] < b[0]
        \/ a[1] < b[1] /\ a[0] = b[0]
        \/ a[2] < b[2] /\ a[0] = b[0] /\ a[1] = b[1]
  <2> DEFINE is(k) == a[k] < b[k] /\ \A j \in 0..(k - 1) : a[j] = b[j]
  <2>1. is(0) <=> a[0] < b[0]
    BY <1>2
  <2>2. is(1) <=> a[1] < b[1] /\ a[0] = b[0]
    BY <1>2
  <2>3. is(2) <=> a[2] < b[2] /\ a[0] = b[0] /\ a[1] = b[1]
    BY <1>2
  <2> HIDE DEF is
  <2>4. (\E k \in 0..2 : is(k)) <=> is(0) \/ is(1) \/ is(2)
    OBVIOUS
  <2> QED BY <2>1, <2>2, <2>3, <2>4 DEF is
<1> QED BY <1>1, <1>2, <1>3, <1>4, <1>5, <1>6 DEF LessIs

\* The order is strict and total, and goes by the coordinate of its dimension first.
LEMMA LessOrders ==
    ASSUME NEW d \in Nat
    PROVE  /\ \A p \in Marked : ~Less(p, p, d)
           /\ \A p, q \in Marked : p # q => Less(p, q, d) \/ Less(q, p, d)
           /\ \A p, q, r \in Marked : Less(p, q, d) /\ Less(q, r, d) => Less(p, r, d)
           /\ \A p, q \in Marked : Less(p, q, d) => Coordinate(p, d) <= Coordinate(q, d)
<1>1. \A p \in Marked : p \in Int /\ Coordinate(p, d) \in Int /\ Coordinate(p, d + 1) \in Int /\ Coordinate(p, d + 2) \in Int
  BY MarkersAre
<1> QED BY <1>1, LessSpelt DEF LessIs

-----------------------------------------------------------------------------
(* The split.                                                              *)

\* In any order there is a marker with so many before it.
LEMMA RankExists ==
    ASSUME NEW S \in SUBSET Marked, NEW d \in Nat, NEW r \in 0..(Cardinality(S) - 1)
    PROVE  \E p \in S : Cardinality(Before(S, p, d)) = r
<1>1. IsFiniteSet(S) /\ Cardinality(S) \in Nat
  BY MarkersAre, FS_Subset, FS_CardinalityType
<1> DEFINE n == Cardinality(S)
           f == [p \in S |-> Cardinality(Before(S, p, d))]
<1>2. \A p \in S : IsFiniteSet(Before(S, p, d)) /\ Before(S, p, d) \subseteq S /\ p \notin Before(S, p, d)
  <2>1. \A p \in S : Before(S, p, d) \subseteq S /\ p \notin Before(S, p, d)
    BY LessOrders DEF Before
  <2> QED BY <1>1, <2>1, FS_Subset
<1>3. ASSUME NEW p \in S PROVE f[p] \in 0..(n - 1)
  <2>1. Before(S, p, d) \in SUBSET S
    BY <1>2
  <2>2. /\ Cardinality(Before(S, p, d)) \in Nat /\ Cardinality(Before(S, p, d)) <= n
        /\ (n = Cardinality(Before(S, p, d)) => S = Before(S, p, d))
    BY <1>1, <2>1, FS_Subset, FS_CardinalityType
  <2>3. S # Before(S, p, d)
    BY <1>2
  <2> QED BY <1>1, <2>2, <2>3
<1>4. ASSUME NEW p \in S, NEW q \in S, Less(p, q, d) PROVE f[p] < f[q]
  <2>1. Before(S, p, d) \union {p} \subseteq Before(S, q, d)
    BY <1>4, LessOrders DEF Before
  <2>2. Cardinality(Before(S, p, d) \union {p}) = f[p] + 1
    BY <1>2, FS_AddElement
  <2>3. Cardinality(Before(S, p, d) \union {p}) <= f[q]
    BY <1>2, <2>1, FS_Subset
  <2> QED BY <1>3, <2>2, <2>3
<1>5. f \in Injection(S, 0..(n - 1))
  <2>1. f \in [S -> 0..(n - 1)]
    BY <1>3
  <2>2. ASSUME NEW p \in S, NEW q \in S, f[p] = f[q] PROVE p = q
    <3>1. f[p] \in Int /\ f[q] \in Int
      BY <1>3
    <3>2. ~Less(p, q, d) /\ ~Less(q, p, d)
      BY <1>4, <2>2, <3>1
    <3> QED BY <3>2, LessOrders
  <2> HIDE DEF f
  <2> QED BY <2>1, <2>2 DEF Injection, IsInjective
<1>6. IsFiniteSet(0..(n - 1)) /\ Cardinality(0..(n - 1)) = n
  BY <1>1, FS_Interval
<1>7. f \in Surjection(S, 0..(n - 1))
  <2> HIDE DEF f
  <2> QED BY <1>5, <1>6, FS_Injection
<1>8. \E p \in S : f[p] = r
  BY <1>7 DEF Surjection
<1> QED BY <1>8

LEMMA LogOfFew ==
    /\ intLogBase2(1) = 0 /\ intLogBase2(2) = 1 /\ intLogBase2(3) = 1
    /\ intLogBase2(4) = 2 /\ intLogBase2(5) = 2 /\ intLogBase2(6) = 2 /\ intLogBase2(7) = 2
<1>1. /\ 2^0 = 1 /\ 2^1 = 2 /\ 2^2 = 4 /\ 2^3 = 8 /\ 2^4 = 16 /\ 2^5 = 32 /\ 2^6 = 64 /\ 2^7 = 128 /\ 2^8 = 256
  OBVIOUS
<1>2. /\ 2^(0 + 1) = 2 /\ 2^(1 + 1) = 4 /\ 2^(2 + 1) = 8 /\ 2^(3 + 1) = 16 /\ 2^(4 + 1) = 32
      /\ 2^(5 + 1) = 64 /\ 2^(6 + 1) = 128 /\ 2^(7 + 1) = 256
  OBVIOUS
<1> DEFINE is(v, h) == 2^h =< v /\ v < 2^(h + 1)
<1>3. \A v \in 1..7 : /\ is(v, 0) <=> v = 1
                      /\ is(v, 1) <=> v = 2 \/ v = 3
                      /\ is(v, 2) <=> v >= 4
                      /\ ~is(v, 3) /\ ~is(v, 4) /\ ~is(v, 5) /\ ~is(v, 6) /\ ~is(v, 7)
  BY <1>1, <1>2
<1> HIDE DEF is
<1>4. \A v \in 1..7 : intLogBase2(v) = CHOOSE h \in 0..v : is(v, h)
  BY DEF intLogBase2, is
<1>5. ASSUME NEW v \in 1..7, NEW g \in 0..v, is(v, g), g \in 0..2 PROVE intLogBase2(v) = g
  <2>1. \A h \in 0..v : is(v, h) => h = g
    <3>1. ASSUME NEW h \in 0..v, is(v, h) PROVE h = g
      <4>1. h \in 0..7
        OBVIOUS
      <4>2. h = 0 \/ h = 1 \/ h = 2 \/ h = 3 \/ h = 4 \/ h = 5 \/ h = 6 \/ h = 7
        BY <4>1
      <4>3. g = 0 \/ g = 1 \/ g = 2
        BY <1>5
      <4> QED BY <1>3, <1>5, <3>1, <4>2, <4>3
    <3> QED BY <3>1
  <2> QED BY <1>4, <1>5, <2>1
<1> QED BY <1>3, <1>5

\* What lies on each side of the split of so many markers.
LeftSize == <<0, 1, 1, 2, 3, 3, 3>>
RightSize == <<0, 0, 1, 1, 1, 2, 3>>

LEMMA SplitOfFew == \A n \in 2..7 : arraySplit(n) = LeftSize[n] /\ LeftSize[n] \in 0..(n - 1)
<1>1. 2^1 = 2 /\ 2^2 = 4 /\ 2 \div 2 = 1 /\ 4 \div 2 = 2
  OBVIOUS
<1> DEFINE power(n) == 2^intLogBase2(n)
<1>4. /\ power(2) = 2 /\ power(3) = 2 /\ power(4) = 4 /\ power(5) = 4 /\ power(6) = 4 /\ power(7) = 4
  <2>1. \A k : k = 1 => 2^k = 2
    BY <1>1
  <2>2. \A k : k = 2 => 2^k = 4
    BY <1>1
  <2> QED BY <2>1, <2>2, LogOfFew
<1> HIDE DEF power
<1>5. \A n \in 2..7 : arraySplit(n) = IF n >= power(n) + (power(n) \div 2) THEN power(n) - 1
                                        ELSE n - power(n) + (power(n) \div 2)
  BY DEF arraySplit, power
<1>2. /\ arraySplit(2) = 1 /\ arraySplit(3) = 1 /\ arraySplit(4) = 2 /\ arraySplit(5) = 3
      /\ arraySplit(6) = 3 /\ arraySplit(7) = 3
  BY <1>1, <1>4, <1>5
<1>3. \A n \in 2..7 : n = 2 \/ n = 3 \/ n = 4 \/ n = 5 \/ n = 6 \/ n = 7
  OBVIOUS
<1> QED BY <1>2, <1>3 DEF LeftSize

\* The markers on the left and on the right of the split.
LeftOf(S, d) == IF S = {} THEN {} ELSE Before(S, Split(S, d), d)
RightOf(S, d) == IF S = {} THEN {} ELSE S \ (Before(S, Split(S, d), d) \union {Split(S, d)})

LEMMA SplitIs ==
    ASSUME NEW S \in SUBSET Marked, S # {}, Cardinality(S) <= 7, NEW d \in Nat
    PROVE  /\ Cardinality(S) \in 1..7 /\ Split(S, d) \in S
           /\ S = LeftOf(S, d) \union {Split(S, d)} \union RightOf(S, d)
           /\ Cardinality(LeftOf(S, d)) = LeftSize[Cardinality(S)]
           /\ Cardinality(RightOf(S, d)) = RightSize[Cardinality(S)]
           /\ \A q \in LeftOf(S, d) : Coordinate(q, d) <= Coordinate(Split(S, d), d)
           /\ \A q \in RightOf(S, d) : Coordinate(q, d) >= Coordinate(Split(S, d), d)
<1> DEFINE n == Cardinality(S)
           p == Split(S, d)
           r == IF n = 1 THEN 0 ELSE arraySplit(n)
           L == Before(S, p, d)
           R == S \ (L \union {p})
<1>1. IsFiniteSet(S) /\ n \in Nat /\ n # 0
  BY MarkersAre, FS_Subset, FS_CardinalityType, FS_EmptySet
<1>2. n \in 1..7
  BY <1>1
<1>3. r = LeftSize[n] /\ r \in 0..(n - 1) /\ n - 1 - r = RightSize[n]
  <2>1. \A k \in 1..7 : k = 1 \/ k \in 2..7
    OBVIOUS
  <2>2. CASE n = 1
    BY <2>2 DEF LeftSize, RightSize
  <2>3. CASE n \in 2..7
    <3>1. arraySplit(n) = LeftSize[n] /\ LeftSize[n] \in 0..(n - 1)
      BY <2>3, SplitOfFew
    <3>2. n # 1
      BY <2>3
    <3>3. n - 1 - LeftSize[n] = RightSize[n]
      <4>1. n = 2 \/ n = 3 \/ n = 4 \/ n = 5 \/ n = 6 \/ n = 7
        BY <2>3
      <4> HIDE DEF n
      <4> QED BY <4>1 DEF LeftSize, RightSize
    <3> QED BY <3>1, <3>2, <3>3
  <2> QED BY <1>2, <2>1, <2>2, <2>3
<1>4. p \in S /\ Cardinality(L) = r
  <2>1. \E q \in S : Cardinality(Before(S, q, d)) = r
    BY <1>3, RankExists
  <2>2. p = CHOOSE q \in S : Cardinality(Before(S, q, d)) = r
    BY DEF Split
  <2> HIDE DEF p, r
  <2> QED BY <2>1, <2>2
<1>5. LeftOf(S, d) = L /\ RightOf(S, d) = R
  BY DEF LeftOf, RightOf
<1>6. L \subseteq S /\ p \notin L /\ \A q \in L : Less(q, p, d)
  BY <1>4, LessOrders DEF Before
<1>7. \A q \in R : Less(p, q, d)
  BY <1>4, LessOrders DEF Before
<1>8. S = L \union {p} \union R
  BY <1>4, <1>6
<1>9. Cardinality(R) = n - (r + 1)
  <2>1. IsFiniteSet(L)
    BY <1>1, <1>6, FS_Subset
  <2>2. Cardinality(L \union {p}) = r + 1
    BY <1>4, <1>6, <2>1, FS_AddElement
  <2>3. S \cap (L \union {p}) = L \union {p}
    BY <1>4, <1>6
  <2>4. Cardinality(S \ (L \union {p})) = n - Cardinality(S \cap (L \union {p}))
    BY <1>1, FS_Difference
  <2> QED BY <2>2, <2>3, <2>4
<1>10. /\ \A q \in L : Coordinate(q, d) <= Coordinate(p, d)
       /\ \A q \in R : Coordinate(p, d) <= Coordinate(q, d)
  BY <1>4, <1>6, <1>7, LessOrders
<1>11. \A q \in S : Coordinate(q, d) \in Int
  BY MarkersAre
<1> HIDE DEF L, R, p, r, n
<1>12. \A q \in R : Coordinate(q, d) >= Coordinate(p, d)
  BY <1>4, <1>8, <1>10, <1>11
<1>13. Cardinality(R) = RightSize[n]
  BY <1>2, <1>3, <1>9
<1> QED BY <1>2, <1>3, <1>4, <1>5, <1>8, <1>10, <1>12, <1>13 DEF p, n

-----------------------------------------------------------------------------
(* The tree.                                                               *)

\* The markers under one child, and those under every position.
Child(X, j, i) == IF i % 2 = 1 THEN LeftOf(X, DepthOf(j)) ELSE RightOf(X, DepthOf(j))
Under(S, f, i) == IF i = 0 THEN S ELSE Child(f[(i - 1) \div 2], (i - 1) \div 2, i)
Positions(S) == 0..(2 * Cardinality(S))

\* A recursive function is the one that its equation describes, if there is one.
LEMMA SubtreesAre ==
    ASSUME NEW S, Cardinality(S) \in 1..7
    PROVE  Subtrees(S) = [i \in Positions(S) |-> Under(S, Subtrees(S), i)]
<1> DEFINE body(f) == [i \in Positions(S) |-> Under(S, f, i)]
           T0 == S
           T1 == Child(T0, 0, 1)
           T2 == Child(T0, 0, 2)
           T3 == Child(T1, 1, 3)
           T4 == Child(T1, 1, 4)
           T5 == Child(T2, 2, 5)
           T6 == Child(T2, 2, 6)
           tree == <<T0, T1, T2, T3, T4, T5, T6>>
           g == [i \in Positions(S) |-> IF i < 7 THEN tree[i + 1] ELSE Child(tree[((i - 1) \div 2) + 1], (i - 1) \div 2, i)]
<1>1. Subtrees(S) = CHOOSE f : f = body(f)
  BY DEF Subtrees, Under, Child, LeftOf, RightOf, Positions
<1>2. g = body(g)
  <2>1. ASSUME NEW i \in Positions(S) PROVE g[i] = Under(S, g, i)
    <3>1. i \in 0..14
      BY DEF Positions
    <3>2. CASE i = 0
      BY <3>2 DEF Under
    <3>3. CASE i > 0
      <4> DEFINE j == (i - 1) \div 2
      <4>1. j \in 0..6 /\ j < i /\ j \in Positions(S)
        BY <3>1, <3>3 DEF Positions
      <4>2. g[j] = tree[j + 1]
        BY <4>1
      <4>3. Under(S, g, i) = Child(tree[j + 1], j, i)
        BY <3>3, <4>2 DEF Under
      <4>4. CASE i >= 7
        BY <3>1, <4>3, <4>4
      <4>5. CASE i < 7
        <5>1. i = 1 \/ i = 2 \/ i = 3 \/ i = 4 \/ i = 5 \/ i = 6
          BY <3>1, <3>3, <4>5
        <5>2. g[i] = tree[i + 1]
          BY <4>5
        <5> HIDE DEF g
        <5>3. CASE i = 1
          BY <4>3, <5>2, <5>3
        <5>4. CASE i = 2
          BY <4>3, <5>2, <5>4
        <5>5. CASE i = 3
          BY <4>3, <5>2, <5>5
        <5>6. CASE i = 4
          BY <4>3, <5>2, <5>6
        <5>7. CASE i = 5
          BY <4>3, <5>2, <5>7
        <5>8. CASE i = 6
          BY <4>3, <5>2, <5>8
        <5> QED BY <5>1, <5>3, <5>4, <5>5, <5>6, <5>7, <5>8
      <4> QED BY <3>1, <4>4, <4>5
    <3> QED BY <3>1, <3>2, <3>3
  <2>2. g = [i \in Positions(S) |-> g[i]]
    OBVIOUS
  <2> HIDE DEF g
  <2> QED BY <2>1, <2>2
<1>3. Subtrees(S) = body(Subtrees(S))
  <2> HIDE DEF body, g
  <2> QED BY <1>1, <1>2
<1> QED BY <1>3

\* How many markers are under each child of a position with so many.
Lefts(m) == IF m = 0 THEN 0 ELSE LeftSize[m]
Rights(m) == IF m = 0 THEN 0 ELSE RightSize[m]

LEMMA DepthsAre == DepthOf(0) = 0 /\ DepthOf(1) = 1 /\ DepthOf(2) = 1 /\ \A i \in 3..6 : DepthOf(i) = 2
<1>1. \A i \in 3..6 : i + 1 = 4 \/ i + 1 = 5 \/ i + 1 = 6 \/ i + 1 = 7
  OBVIOUS
<1>2. DepthOf(0) = intLogBase2(1) /\ DepthOf(1) = intLogBase2(2) /\ DepthOf(2) = intLogBase2(3)
  BY DEF DepthOf
<1> QED BY <1>1, <1>2, LogOfFew DEF DepthOf

LEMMA ChildIs ==
    ASSUME NEW X \in SUBSET Marked, NEW m \in 0..7, Cardinality(X) = m, NEW j \in 0..6, NEW i \in Nat
    PROVE  /\ Child(X, j, i) \in SUBSET X
           /\ Cardinality(Child(X, j, i)) = IF i % 2 = 1 THEN Lefts(m) ELSE Rights(m)
           /\ X = {} <=> m = 0
<1>1. IsFiniteSet(X)
  BY MarkersAre, FS_Subset
<1>2. X = {} <=> m = 0
  BY <1>1, FS_EmptySet
<1>3. DepthOf(j) \in Nat
  <2>1. j = 0 \/ j = 1 \/ j = 2 \/ j \in 3..6
    OBVIOUS
  <2> QED BY <2>1, DepthsAre
<1>4. CASE X = {}
  <2>1. Child(X, j, i) = {}
    BY <1>4 DEF Child, LeftOf, RightOf
  <2> QED BY <1>2, <1>4, <2>1, FS_EmptySet DEF Lefts, Rights
<1>5. CASE X # {}
  <2>1. Cardinality(X) <= 7
    OBVIOUS
  <2>2. /\ LeftOf(X, DepthOf(j)) \in SUBSET X /\ RightOf(X, DepthOf(j)) \in SUBSET X
        /\ Cardinality(LeftOf(X, DepthOf(j))) = LeftSize[m]
        /\ Cardinality(RightOf(X, DepthOf(j))) = RightSize[m]
    <3> HIDE DEF DepthOf
    <3> QED BY <1>3, <1>5, <2>1, SplitIs
  <2> QED BY <1>2, <1>5, <2>2 DEF Child, Lefts, Rights
<1> QED BY <1>4, <1>5, <1>2

\* With up to seven markers the positions from n on are empty, and from 7 on all of them are.
SizesOf(n) == <<n, Lefts(n), Rights(n), Lefts(Lefts(n)), Rights(Lefts(n)), Lefts(Rights(n)), Rights(Rights(n))>>

LEMMA SizesAre ==
    ASSUME NEW n \in 1..7
    PROVE  \A i \in 0..6 : /\ SizesOf(n)[i + 1] \in 0..7
                           /\ SizesOf(n)[i + 1] = 0 <=> i >= n
                           /\ i >= 3 => SizesOf(n)[i + 1] <= 1
<1>1. /\ Lefts(0) = 0 /\ Lefts(1) = 0 /\ Lefts(2) = 1 /\ Lefts(3) = 1
      /\ Lefts(4) = 2 /\ Lefts(5) = 3 /\ Lefts(6) = 3 /\ Lefts(7) = 3
      /\ Rights(0) = 0 /\ Rights(1) = 0 /\ Rights(2) = 0 /\ Rights(3) = 1
      /\ Rights(4) = 1 /\ Rights(5) = 1 /\ Rights(6) = 2 /\ Rights(7) = 3
  BY DEF Lefts, Rights, LeftSize, RightSize
<1>2. /\ SizesOf(1) = <<1, 0, 0, 0, 0, 0, 0>> /\ SizesOf(2) = <<2, 1, 0, 0, 0, 0, 0>>
      /\ SizesOf(3) = <<3, 1, 1, 0, 0, 0, 0>> /\ SizesOf(4) = <<4, 2, 1, 1, 0, 0, 0>>
      /\ SizesOf(5) = <<5, 3, 1, 1, 1, 0, 0>> /\ SizesOf(6) = <<6, 3, 2, 1, 1, 1, 0>>
      /\ SizesOf(7) = <<7, 3, 3, 1, 1, 1, 1>>
  BY <1>1 DEF SizesOf
<1>3. n = 1 \/ n = 2 \/ n = 3 \/ n = 4 \/ n = 5 \/ n = 6 \/ n = 7
  OBVIOUS
<1>4. \A i \in 0..6 : i = 0 \/ i = 1 \/ i = 2 \/ i = 3 \/ i = 4 \/ i = 5 \/ i = 6
  OBVIOUS
<1> QED BY <1>2, <1>3, <1>4

\* The positions up to the number of markers have some under them: one of their own, and
\* those of the children.
LEMMA TreeIs ==
    ASSUME NEW S \in SUBSET Marked, NEW n \in 1..7, Cardinality(S) = n, NEW U, U = Subtrees(S)
    PROVE  /\ U[0] = S /\ \A i \in 0..(2 * n) : U[i] \in SUBSET S /\ (U[i] = {} <=> i >= n)
           /\ \A i \in 0..(n - 1) : /\ Cardinality(U[i]) <= 7
                                   /\ U[2 * i + 1] = LeftOf(U[i], DepthOf(i))
                                   /\ U[2 * i + 2] = RightOf(U[i], DepthOf(i))
<1> DEFINE z == SizesOf(n)
           sized(i) == U[i] \in SUBSET S /\ Cardinality(U[i]) = z[i + 1]
<1>1. Positions(S) = 0..(2 * n)
  BY DEF Positions
<1>2. \A i \in 0..(2 * n) : U[i] = Under(S, U, i)
  BY <1>1, SubtreesAre
<1>3. U[0] = S
  BY <1>2 DEF Under
<1>4. \A i \in 1..(2 * n) : U[i] = Child(U[(i - 1) \div 2], (i - 1) \div 2, i)
  BY <1>2 DEF Under
<1>5. \A i \in 0..6 : z[i + 1] \in 0..7 /\ (z[i + 1] = 0 <=> i >= n) /\ (i >= 3 => z[i + 1] <= 1)
  BY SizesAre
<1>6. /\ z[1] = n /\ z[2] = Lefts(z[1]) /\ z[3] = Rights(z[1]) /\ z[4] = Lefts(z[2])
      /\ z[5] = Rights(z[2]) /\ z[6] = Lefts(z[3]) /\ z[7] = Rights(z[3])
  BY DEF SizesOf
<1> HIDE DEF z
<1>7. ASSUME NEW i \in 1..(2 * n), NEW j \in 0..6, j = (i - 1) \div 2, sized(j)
      PROVE  /\ U[i] \in SUBSET S
             /\ Cardinality(U[i]) = IF i % 2 = 1 THEN Lefts(z[j + 1]) ELSE Rights(z[j + 1])
  <2>1. U[i] = Child(U[j], j, i)
    BY <1>4, <1>7
  <2>2. U[j] \in SUBSET S /\ Cardinality(U[j]) = z[j + 1] /\ z[j + 1] \in 0..7
    BY <1>5, <1>7
  <2> DEFINE X == U[j]
             m == z[j + 1]
             child == Child(X, j, i)
  <2>3. X \in SUBSET Marked /\ Cardinality(X) = m /\ m \in 0..7 /\ i \in Nat /\ j \in 0..6
    BY <2>2
  <2>4. child \in SUBSET X /\ Cardinality(child) = IF i % 2 = 1 THEN Lefts(m) ELSE Rights(m)
    <3> HIDE DEF X, m
    <3> QED BY ONLY <2>3, ChildIs
  <2>5. X \in SUBSET S /\ U[i] = child
    BY <2>1, <2>2
  <2> HIDE DEF X, child
  <2> QED BY <2>4, <2>5
<1>8. sized(0)
  BY <1>3, <1>6
<1>9. sized(1) /\ sized(2)
  <2>1. (1 - 1) \div 2 = 0 /\ (2 - 1) \div 2 = 0 /\ 1 % 2 = 1 /\ 2 % 2 = 0 /\ 1 \in 1..(2 * n) /\ 2 \in 1..(2 * n)
    OBVIOUS
  <2> QED BY <1>6, <1>7, <1>8, <2>1
<1>10. (3 <= 2 * n => sized(3) /\ sized(4))
  <2>1. (3 - 1) \div 2 = 1 /\ (4 - 1) \div 2 = 1 /\ 3 % 2 = 1 /\ 4 % 2 = 0
    OBVIOUS
  <2>2. 3 <= 2 * n => 3 \in 1..(2 * n) /\ 4 \in 1..(2 * n)
    OBVIOUS
  <2> QED BY <1>6, <1>7, <1>9, <2>1, <2>2
<1>11. (5 <= 2 * n => sized(5) /\ sized(6))
  <2>1. (5 - 1) \div 2 = 2 /\ (6 - 1) \div 2 = 2 /\ 5 % 2 = 1 /\ 6 % 2 = 0
    OBVIOUS
  <2>2. 5 <= 2 * n => 5 \in 1..(2 * n) /\ 6 \in 1..(2 * n)
    OBVIOUS
  <2> QED BY <1>6, <1>7, <1>9, <2>1, <2>2
<1>12. \A i \in 0..6 : i <= 2 * n => sized(i)
  <2>1. \A i \in 0..6 : i = 0 \/ i = 1 \/ i = 2 \/ i = 3 \/ i = 4 \/ i = 5 \/ i = 6
    OBVIOUS
  <2>2. (4 <= 2 * n => 3 <= 2 * n) /\ (6 <= 2 * n => 5 <= 2 * n)
    OBVIOUS
  <2> HIDE DEF sized
  <2> QED BY <1>8, <1>9, <1>10, <1>11, <2>1, <2>2
<1>13. ASSUME NEW i \in 0..(2 * n) PROVE U[i] \in SUBSET S /\ (U[i] = {} <=> i >= n)
  <2>1. \A T \in SUBSET S : T = {} <=> Cardinality(T) = 0
    <3>1. \A T \in SUBSET S : IsFiniteSet(T)
      BY MarkersAre, FS_Subset
    <3> QED BY <3>1, FS_EmptySet
  <2>2. CASE i <= 6
    BY <1>5, <1>12, <2>1, <2>2
  <2>3. CASE i > 6
    <3> DEFINE j == (i - 1) \div 2
    <3>1. j \in 3..6 /\ j <= 2 * n /\ i \in 1..(2 * n) /\ i >= n
      BY <2>3
    <3>2. sized(j) /\ (z[j + 1] = 0 \/ z[j + 1] = 1)
      BY <1>5, <1>12, <3>1
    <3>3. Lefts(0) = 0 /\ Lefts(1) = 0 /\ Rights(0) = 0 /\ Rights(1) = 0
      BY DEF Lefts, Rights, LeftSize, RightSize
    <3>4. U[i] \in SUBSET S /\ Cardinality(U[i]) = 0
      BY <1>7, <3>1, <3>2, <3>3
    <3> QED BY <2>1, <3>1, <3>4
  <2> QED BY <2>2, <2>3
<1>14. ASSUME NEW i \in 0..(n - 1)
       PROVE  /\ Cardinality(U[i]) <= 7
              /\ U[2 * i + 1] = LeftOf(U[i], DepthOf(i)) /\ U[2 * i + 2] = RightOf(U[i], DepthOf(i))
  <2>1. i \in 0..6 /\ i <= 2 * n
    OBVIOUS
  <2>2. /\ 2 * i + 1 \in 1..(2 * n) /\ (2 * i + 1 - 1) \div 2 = i /\ (2 * i + 1) % 2 = 1
        /\ 2 * i + 2 \in 1..(2 * n) /\ (2 * i + 2 - 1) \div 2 = i /\ (2 * i + 2) % 2 = 0
    OBVIOUS
  <2>3. Cardinality(U[i]) <= 7
    BY <1>5, <1>12, <2>1
  <2>4. U[2 * i + 1] = Child(U[i], i, 2 * i + 1) /\ U[2 * i + 2] = Child(U[i], i, 2 * i + 2)
    <3> HIDE DEF Child
    <3> QED BY <1>4, <2>2
  <2> QED BY <2>2, <2>3, <2>4 DEF Child
<1> QED BY <1>3, <1>13, <1>14

\* The array: every position holds the split of the markers under it.
\* What the positions of a tree of n markers hold.
TreeOf(S, n, U, F) ==
    /\ U[0] = S /\ \A i \in 0..(2 * n) : U[i] \in SUBSET S /\ (U[i] = {} <=> i >= n)
    /\ DOMAIN F = 0..(n - 1) /\ \A q \in S : \E i \in 0..(n - 1) : F[i] = q
    /\ \A i \in 0..(n - 1) :
         /\ F[i] \in S /\ U[i] = U[2 * i + 1] \union {F[i]} \union U[2 * i + 2]
         /\ \A q \in U[2 * i + 1] : Coordinate(q, DepthOf(i)) <= Coordinate(F[i], DepthOf(i))
         /\ \A q \in U[2 * i + 2] : Coordinate(q, DepthOf(i)) >= Coordinate(F[i], DepthOf(i))

LEMMA StoreIs ==
    ASSUME NEW S \in SUBSET Marked, NEW n \in 1..7, Cardinality(S) = n, NEW U, U = Subtrees(S),
           NEW F, F = FlatStore(S)
    PROVE  TreeOf(S, n, U, F)
<1>1. /\ U[0] = S /\ \A i \in 0..(2 * n) : U[i] \in SUBSET S /\ (U[i] = {} <=> i >= n)
      /\ \A i \in 0..(n - 1) : /\ Cardinality(U[i]) <= 7
                              /\ U[2 * i + 1] = LeftOf(U[i], DepthOf(i))
                              /\ U[2 * i + 2] = RightOf(U[i], DepthOf(i))
  BY TreeIs
<1>2. DOMAIN F = 0..(n - 1) /\ \A i \in 0..(n - 1) : F[i] = Split(U[i], DepthOf(i))
  <2>1. F = [i \in {j \in 0..(n - 1) : U[j] # {}} |-> Split(U[i], DepthOf(i))]
    BY DEF FlatStore
  <2>2. \A j \in 0..(n - 1) : j \in 0..(2 * n) /\ ~(j >= n)
    OBVIOUS
  <2>3. {j \in 0..(n - 1) : U[j] # {}} = 0..(n - 1)
    BY <1>1, <2>2
  <2> QED BY <2>1, <2>3
<1>3. ASSUME NEW i \in 0..(n - 1)
      PROVE  /\ F[i] \in S /\ U[i] = U[2 * i + 1] \union {F[i]} \union U[2 * i + 2]
             /\ \A q \in U[2 * i + 1] : Coordinate(q, DepthOf(i)) <= Coordinate(F[i], DepthOf(i))
             /\ \A q \in U[2 * i + 2] : Coordinate(q, DepthOf(i)) >= Coordinate(F[i], DepthOf(i))
  <2>1. i \in 0..(2 * n) /\ ~(i >= n)
    OBVIOUS
  <2>2. U[i] \in SUBSET Marked /\ U[i] # {} /\ Cardinality(U[i]) <= 7
    BY <1>1, <2>1
  <2>3. DepthOf(i) \in Nat
    <3>1. i = 0 \/ i = 1 \/ i = 2 \/ i \in 3..6
      OBVIOUS
    <3> QED BY <3>1, DepthsAre
  <2> DEFINE X == U[i]
             d == DepthOf(i)
  <2>4. /\ Split(X, d) \in X /\ X = LeftOf(X, d) \union {Split(X, d)} \union RightOf(X, d)
        /\ \A q \in LeftOf(X, d) : Coordinate(q, d) <= Coordinate(Split(X, d), d)
        /\ \A q \in RightOf(X, d) : Coordinate(q, d) >= Coordinate(Split(X, d), d)
    <3> HIDE DEF X, d
    <3> QED BY <2>2, <2>3, SplitIs DEF X, d
  <2>5. /\ F[i] = Split(X, d) /\ U[2 * i + 1] = LeftOf(X, d) /\ U[2 * i + 2] = RightOf(X, d)
    BY <1>1, <1>2
  <2>6. X \in SUBSET S
    BY <1>1, <2>1
  <2> HIDE DEF d
  <2> QED BY <2>4, <2>5, <2>6 DEF d
<1>4. ASSUME NEW q \in S PROVE \E i \in 0..(n - 1) : F[i] = q
  <2> SUFFICES ASSUME ~(\E i \in 0..(n - 1) : F[i] = q) PROVE FALSE
    OBVIOUS
  <2>1. \A i \in 0..(n - 1) : q \in U[i] => q \in U[2 * i + 1] \/ q \in U[2 * i + 2]
    BY <1>3
  <2>2. \A i \in 0..(2 * n) : q \in U[i] => i \in 0..(n - 1)
    BY <1>1
  <2>3. \A i \in 0..(n - 1) : 2 * i + 1 \in 0..(2 * n) /\ 2 * i + 2 \in 0..(2 * n)
    OBVIOUS
  <2>4. \A i \in 0..(n - 1) : q \in U[i] =>
            \E j \in 0..(n - 1) : q \in U[j] /\ j >= 2 * i + 1
    <3> SUFFICES ASSUME NEW i \in 0..(n - 1), q \in U[i]
                 PROVE  \E j \in 0..(n - 1) : q \in U[j] /\ j >= 2 * i + 1
      OBVIOUS
    <3>1. CASE q \in U[2 * i + 1]
      BY <2>2, <2>3, <3>1
    <3>2. CASE q \in U[2 * i + 2]
      BY <2>2, <2>3, <3>2
    <3> QED BY <2>1, <3>1, <3>2
  <2>5. q \in U[0] /\ 0 \in 0..(n - 1)
    BY <1>1
  <2>6. PICK a \in 0..(n - 1) : q \in U[a] /\ a >= 1
    BY <2>4, <2>5
  <2>7. PICK b \in 0..(n - 1) : q \in U[b] /\ b >= 3
    BY <2>4, <2>6
  <2>8. PICK c \in 0..(n - 1) : q \in U[c] /\ c >= 7
    BY <2>4, <2>7
  <2> QED BY <2>8
<1> QED BY <1>1, <1>2, <1>3, <1>4 DEF TreeOf

-----------------------------------------------------------------------------
(* Distances.                                                              *)

LEMMA SquaresGrow ==
    ASSUME NEW t \in Int, NEW x \in Int, NEW y \in Int, (t < x /\ x <= y) \/ (x <= t /\ y <= x)
    PROVE  (t - x) * (t - x) <= (t - y) * (t - y)
<1>1. \A a, b \in Int : 0 <= a /\ a <= b => a * a <= b * b
  OBVIOUS
<1>2. (t - x) * (t - x) = (x - t) * (x - t) /\ (t - y) * (t - y) = (y - t) * (y - t)
  OBVIOUS
<1>3. CASE t < x /\ x <= y
  <2>1. x - t \in Int /\ y - t \in Int /\ 0 <= x - t /\ x - t <= y - t
    BY <1>3
  <2>2. (x - t) * (x - t) <= (y - t) * (y - t)
    BY <1>1, <2>1
  <2> QED BY <1>2, <2>2
<1>4. CASE x <= t /\ y <= x
  <2>1. t - x \in Int /\ t - y \in Int /\ 0 <= t - x /\ t - x <= t - y
    BY <1>4
  <2> QED BY <1>1, <2>1
<1> QED BY <1>3, <1>4

\* A marker is at least as far as it is in one dimension.
LEMMA DistanceIs ==
    ASSUME NEW p \in Marked, NEW t \in Targets, NEW d \in Nat
    PROVE  /\ SqDistance(p, t) \in Int /\ t[1 + (d % 3)] \in Int /\ Coordinate(p, d) \in Int
           /\ (t[1 + (d % 3)] - Coordinate(p, d)) * (t[1 + (d % 3)] - Coordinate(p, d)) <= SqDistance(p, t)
<1>1. t \in Int \X Int \X Int /\ Markers[p] \in Int \X Int \X Int
  BY MarkersAre, KdTreeAssumption
<1> DEFINE a == t[1] - Markers[p][1]
           b == t[2] - Markers[p][2]
           c == t[3] - Markers[p][3]
<1>2. /\ t[1] \in Int /\ t[2] \in Int /\ t[3] \in Int
      /\ Markers[p][1] \in Int /\ Markers[p][2] \in Int /\ Markers[p][3] \in Int
  BY <1>1
<1>3. a \in Int /\ b \in Int /\ c \in Int
  BY <1>2
<1>4. SqDistance(p, t) = a * a + b * b + c * c
  BY DEF SqDistance
<1>5. 1 + (d % 3) = 1 \/ 1 + (d % 3) = 2 \/ 1 + (d % 3) = 3
  <2>1. d % 3 \in 0..2
    OBVIOUS
  <2> QED BY <2>1
<1>6. t[1 + (d % 3)] - Coordinate(p, d) = a \/ t[1 + (d % 3)] - Coordinate(p, d) = b \/ t[1 + (d % 3)] - Coordinate(p, d) = c
  BY <1>5 DEF Coordinate
<1>7. t[1 + (d % 3)] \in Int /\ Coordinate(p, d) \in Int
  BY <1>2, <1>5, MarkersAre
<1> HIDE DEF a, b, c
<1>8. /\ a * a \in Int /\ b * b \in Int /\ c * c \in Int /\ a * a >= 0 /\ b * b >= 0 /\ c * c >= 0
  <2>1. \A x \in Int : x * x \in Int /\ x * x >= 0
    OBVIOUS
  <2> QED BY <1>3, <2>1
<1>9. a * a <= a * a + b * b + c * c /\ b * b <= a * a + b * b + c * c /\ c * c <= a * a + b * b + c * c
  BY <1>8
<1>10. a * a + b * b + c * c \in Int
  BY <1>8
<1> QED BY <1>4, <1>6, <1>7, <1>9, <1>10

-----------------------------------------------------------------------------
(* The searches.                                                           *)

\* What a search has not looked at and not passed over: the markers under the position that
\* it is at and under those on the stack.
UnderAt(i) == IF InStore(i) THEN Subtrees(points)[i] ELSE {}
ToCome == UnderAt(current) \union UNION {UnderAt(stack[i].position) : i \in DOMAIN stack}

\* A position of the second level is on the stack only at its bottom: the depth that is taken
\* from the stack pointer is right there, and below it does not matter.
Walked ==
    /\ current \in Nat /\ depth \in Nat /\ stack \in Seq([position : 1..6, sq : Int])
    /\ \A i \in DOMAIN stack : stack[i].position <= 2 => i = 1
    /\ InStore(current) => /\ current = 0 => depth = 0 /\ stack = <<>>
                           /\ current \in 1..2 => depth = 1

\* What lies under a position on the stack is no nearer than its side of the split.
SidesFar == \A i \in DOMAIN stack : \A q \in UnderAt(stack[i].position) : stack[i].sq <= SqDistance(q, target)

NotMissed == \A q \in points : SqDistance(q, target) < bound => q \in found \/ q \in ToCome

FoundRight ==
    /\ query = "none" => current = 0 /\ stack = <<>> /\ depth = 0 /\ found = {}
    /\ query = "neighborhood" => bound = limit /\ \A p \in found : p \in points /\ SqDistance(p, target) < limit
    /\ query = "nearest" => \/ found = {} /\ bound = Infinity
                            \/ \E p \in points : found = {p} /\ bound = SqDistance(p, target)

GlobeInv ==
    /\ points \in SUBSET Marked /\ Cardinality(points) \in 1..7 /\ store = FlatStore(points)
    /\ query \in {"none", "nearest", "neighborhood"} /\ target \in Targets
    /\ limit \in Int /\ bound \in Int
    /\ Walked /\ SidesFar /\ NotMissed /\ FoundRight

\* What the tree says of the positions that a search meets.
LEMMA TreeOfSearch ==
    ASSUME GlobeInv
    PROVE  LET n == Cardinality(points) IN
           /\ n \in 1..7 /\ UnderAt(0) = points /\ points \subseteq Marked
           /\ DOMAIN store = 0..(n - 1) /\ \A q \in points : \E i \in 0..(n - 1) : store[i] = q
           /\ \A i \in Nat : UnderAt(i) \subseteq points /\ (InStore(i) <=> i < n)
           /\ \A i \in 0..(n - 1) :
                /\ store[i] \in points
                /\ UnderAt(i) = UnderAt(2 * i + 1) \union {store[i]} \union UnderAt(2 * i + 2)
                /\ \A q \in UnderAt(2 * i + 1) : Coordinate(q, DepthOf(i)) <= Coordinate(store[i], DepthOf(i))
                /\ \A q \in UnderAt(2 * i + 2) : Coordinate(q, DepthOf(i)) >= Coordinate(store[i], DepthOf(i))
<1> DEFINE n == Cardinality(points)
           U == Subtrees(points)
<1>1. points \in SUBSET Marked /\ n \in 1..7 /\ store = FlatStore(points)
  BY DEF GlobeInv
<1> HIDE DEF n
<1>2. /\ U[0] = points /\ \A i \in 0..(2 * n) : U[i] \in SUBSET points /\ (U[i] = {} <=> i >= n)
      /\ DOMAIN store = 0..(n - 1) /\ \A q \in points : \E i \in 0..(n - 1) : store[i] = q
      /\ \A i \in 0..(n - 1) :
           /\ store[i] \in points
           /\ U[i] = U[2 * i + 1] \union {store[i]} \union U[2 * i + 2]
           /\ \A q \in U[2 * i + 1] : Coordinate(q, DepthOf(i)) <= Coordinate(store[i], DepthOf(i))
           /\ \A q \in U[2 * i + 2] : Coordinate(q, DepthOf(i)) >= Coordinate(store[i], DepthOf(i))
  <2> HIDE DEF U
  <2>1. n = Cardinality(points) /\ U = Subtrees(points)
    BY DEF n, U
  <2>2. TreeOf(points, n, U, store)
    BY <1>1, <2>1, StoreIs
  <2> QED BY <2>2 DEF TreeOf
<1> HIDE DEF U
<1>3. \A i : InStore(i) <=> i < n
  BY DEF InStore, n
<1>4. \A i \in Nat : UnderAt(i) = IF i < n THEN U[i] ELSE {}
  BY <1>3 DEF UnderAt, U
<1>5. \A i \in 0..(2 * n) : UnderAt(i) = U[i]
  <2>1. ASSUME NEW i \in 0..(2 * n) PROVE UnderAt(i) = U[i]
    <3>1. i \in Nat
      OBVIOUS
    <3>2. CASE i < n
      BY <1>4, <3>1, <3>2
    <3>3. CASE ~(i < n)
      <4>1. i >= n
        BY <3>1, <3>3, <1>1
      <4> QED BY <1>2, <1>4, <3>1, <3>3, <4>1
    <3> QED BY <3>2, <3>3
  <2> QED BY <2>1
<1>6. \A i \in Nat : UnderAt(i) \subseteq points
  <2>1. \A i \in Nat : i < n => i \in 0..(2 * n)
    BY <1>1
  <2> QED BY <1>2, <1>4, <2>1
<1>7. \A i \in 0..(n - 1) : i \in 0..(2 * n) /\ 2 * i + 1 \in 0..(2 * n) /\ 2 * i + 2 \in 0..(2 * n)
  BY <1>1
<1>8. UnderAt(0) = points
  BY <1>1, <1>2, <1>5
<1>9. \A i \in 0..(n - 1) : UnderAt(i) = U[i] /\ UnderAt(2 * i + 1) = U[2 * i + 1] /\ UnderAt(2 * i + 2) = U[2 * i + 2]
  BY <1>5, <1>7
<1>10. ASSUME NEW i \in 0..(n - 1)
       PROVE  /\ store[i] \in points
              /\ UnderAt(i) = UnderAt(2 * i + 1) \union {store[i]} \union UnderAt(2 * i + 2)
              /\ \A q \in UnderAt(2 * i + 1) : Coordinate(q, DepthOf(i)) <= Coordinate(store[i], DepthOf(i))
              /\ \A q \in UnderAt(2 * i + 2) : Coordinate(q, DepthOf(i)) >= Coordinate(store[i], DepthOf(i))
  <2> HIDE DEF UnderAt
  <2> QED BY <1>2, <1>9
<1> QED BY <1>1, <1>2, <1>3, <1>6, <1>8, <1>10 DEF n

\* A marker beyond the split is at least as far as the split.
LEMMA BeyondSplit ==
    ASSUME GlobeInv, NEW i \in 0..2, 2 * i + 1 < Cardinality(points), NEW side,
           side = target[1 + (DepthOf(i) % 3)] - Markers[store[i]][1 + (DepthOf(i) % 3)], NEW q
    PROVE  /\ side \in Int
           /\ (side < 0 /\ q \in UnderAt(2 * i + 2)) \/ (~(side < 0) /\ q \in UnderAt(2 * i + 1))
                => side * side <= SqDistance(q, target)
<1> DEFINE d == DepthOf(i)
           p == store[i]
           t == target[1 + (d % 3)]
<1>1. d \in Nat
  <2>1. i = 0 \/ i = 1 \/ i = 2
    OBVIOUS
  <2> QED BY <2>1, DepthsAre
<1>2. Cardinality(points) \in 1..7 /\ i \in 0..(Cardinality(points) - 1)
  BY TreeOfSearch
<1>3. /\ p \in Marked /\ \A k \in Nat : UnderAt(k) \subseteq Marked
      /\ \A r \in UnderAt(2 * i + 1) : Coordinate(r, d) <= Coordinate(p, d)
      /\ \A r \in UnderAt(2 * i + 2) : Coordinate(r, d) >= Coordinate(p, d)
  BY <1>2, TreeOfSearch
<1> HIDE DEF d, p
<1>4. target \in Targets
  BY DEF GlobeInv
<1>5. t \in Int /\ Coordinate(p, d) \in Int /\ side = t - Coordinate(p, d)
  <2>1. t \in Int /\ Coordinate(p, d) \in Int
    BY <1>1, <1>3, <1>4, DistanceIs
  <2> QED BY <2>1 DEF Coordinate, d, p
<1>6. ASSUME (side < 0 /\ q \in UnderAt(2 * i + 2)) \/ (~(side < 0) /\ q \in UnderAt(2 * i + 1))
      PROVE  side * side <= SqDistance(q, target)
  <2>1. q \in Marked
    <3>1. 2 * i + 1 \in Nat /\ 2 * i + 2 \in Nat
      OBVIOUS
    <3> QED BY <1>3, <1>6, <3>1
  <2>2. /\ SqDistance(q, target) \in Int /\ Coordinate(q, d) \in Int
        /\ (t - Coordinate(q, d)) * (t - Coordinate(q, d)) <= SqDistance(q, target)
    BY <1>1, <1>4, <2>1, DistanceIs
  <2> DEFINE x == Coordinate(p, d)
             y == Coordinate(q, d)
  <2>3. (t < x /\ x <= y) \/ (x <= t /\ y <= x)
    <3>1. x \in Int /\ y \in Int /\ side = t - x
      BY <1>5, <2>2
    <3>2. CASE side < 0 /\ q \in UnderAt(2 * i + 2)
      <4>1. y >= x
        BY <1>3, <3>2
      <4> HIDE DEF x, y, t
      <4> QED BY <1>5, <3>1, <3>2, <4>1
    <3>3. CASE ~(side < 0) /\ q \in UnderAt(2 * i + 1)
      <4>1. y <= x
        BY <1>3, <3>3
      <4> HIDE DEF x, y, t
      <4> QED BY <1>5, <3>1, <3>3, <4>1
    <3> QED BY <1>6, <3>2, <3>3
  <2>4. (t - x) * (t - x) <= (t - y) * (t - y)
    <3>1. x \in Int /\ y \in Int
      BY <1>5, <2>2
    <3> HIDE DEF x, y, t
    <3> QED BY <1>5, <2>3, <3>1, SquaresGrow
  <2>5. side * side = (t - x) * (t - x)
    BY <1>5
  <2>6. (t - x) * (t - x) \in Int /\ (t - y) * (t - y) \in Int
    <3>1. x \in Int /\ y \in Int
      BY <1>5, <2>2
    <3> HIDE DEF x, y, t
    <3> QED BY <1>5, <3>1
  <2> HIDE DEF x, t
  <2> QED BY <2>2, <2>4, <2>5, <2>6 DEF x, y
<1>7. side \in Int
  BY <1>5
<1> QED BY <1>6, <1>7

LEMMA GlobeStart == (\A k \in Counts : k <= 7) /\ KdTreeInit => GlobeInv
<1> SUFFICES ASSUME \A k \in Counts : k <= 7, KdTreeInit PROVE GlobeInv
  OBVIOUS
<1>1. points \in SUBSET Marked /\ Cardinality(points) \in Counts /\ store = FlatStore(points)
  BY DEF KdTreeInit, Marked
<1>2. Cardinality(points) \in 1..7
  <2>1. Cardinality(points) \in 1..Len(Markers)
    BY <1>1, KdTreeAssumption
  <2>2. Cardinality(points) <= 7
    BY <1>1
  <2>3. \A k \in 1..Len(Markers) : k <= 7 => k \in 1..7
    BY MarkersAre
  <2> QED BY <2>1, <2>2, <2>3
<1>3. /\ query = "none" /\ limit = 0 /\ current = 0 /\ depth = 0 /\ stack = <<>> /\ bound = 0 /\ found = {}
      /\ target \in Targets
  BY KdTreeAssumption DEF KdTreeInit
<1>4. InStore(0) /\ UnderAt(0) = points
  <2>1. InStore(0)
    BY <1>2 DEF InStore
  <2>2. Subtrees(points)[0] = points
    BY <1>1, <1>2, TreeIs
  <2> QED BY <2>1, <2>2 DEF UnderAt
<1>5. Walked
  <2>1. stack \in Seq([position : 1..6, sq : Int]) /\ DOMAIN stack = {} /\ 0 \in Nat
    BY <1>3
  <2> QED BY <1>3, <2>1 DEF Walked
<1>6. SidesFar
  BY <1>3 DEF SidesFar
<1>7. NotMissed
  BY <1>3, <1>4 DEF NotMissed, ToCome
<1>8. FoundRight
  BY <1>3 DEF FoundRight
<1> QED BY <1>1, <1>2, <1>3, <1>5, <1>6, <1>7, <1>8 DEF GlobeInv

LEMMA SearchStep ==
    ASSUME GlobeInv, NEW t \in Targets, NEW which, NEW sq,
           (which = "nearest" /\ sq = Infinity) \/ (which = "neighborhood" /\ sq \in Limits), Search(which, t, sq)
    PROVE  GlobeInv'
<1>1. /\ query = "none" /\ query' = which /\ target' = t /\ limit' = sq /\ bound' = sq
      /\ points' = points /\ store' = store /\ current' = current /\ depth' = depth /\ stack' = stack /\ found' = found
  BY DEF Search
<1>2. sq \in Int
  <2>1. Infinity \in Int
    <3>1. Infinity \in Nat
      BY InfinityAssumption, Zenon
    <3> QED BY <3>1
  <2>2. \A x \in Limits : x \in Int
    <3>1. \A x \in Limits : x \in Nat
      BY KdTreeAssumption, Zenon
    <3> QED BY <3>1
  <2> QED BY <2>1, <2>2
<1>3. current = 0 /\ stack = <<>> /\ depth = 0 /\ found = {}
  BY <1>1 DEF GlobeInv, FoundRight
<1>4. UnderAt(0) = points
  BY TreeOfSearch
<1>5. ToCome' = ToCome /\ points \subseteq ToCome
  BY <1>1, <1>3, <1>4 DEF ToCome, UnderAt, InStore
<1>6. NotMissed'
  BY <1>1, <1>5 DEF NotMissed
<1>7. Walked'
  BY <1>1 DEF GlobeInv, Walked, InStore
<1>8. SidesFar'
  <2>1. DOMAIN stack' = {}
    BY <1>1, <1>3
  <2> QED BY <2>1 DEF SidesFar
<1>9. FoundRight'
  <2>1. found' = {} /\ bound' = limit' /\ (query' = "nearest" => bound' = Infinity) /\ query' # "none"
    BY <1>1, <1>3
  <2> QED BY <2>1 DEF FoundRight
<1> QED BY <1>1, <1>2, <1>6, <1>7, <1>8, <1>9 DEF GlobeInv

\* What a search has found after it looked at a marker.
LEMMA LookedAt ==
    ASSUME GlobeInv, query # "none", InStore(current), NEW p, p = store[current],
           NEW sq, sq = SqDistance(p, target),
           found' = (IF sq >= bound THEN found ELSE IF query = "nearest" THEN {p} ELSE found \union {p}),
           bound' = (IF query = "nearest" /\ sq < bound THEN sq ELSE bound),
           UNCHANGED <<points, query, target, limit>>, ToCome \subseteq {p} \union ToCome'
    PROVE  NotMissed' /\ FoundRight' /\ bound' \in Int
<1>1. p \in points /\ p \in Marked /\ points \subseteq Marked
  <2>1. current \in 0..(Cardinality(points) - 1)
    BY TreeOfSearch DEF GlobeInv, Walked, InStore
  <2> QED BY <2>1, TreeOfSearch
<1>2. target \in Targets /\ bound \in Int /\ FoundRight /\ NotMissed
  BY DEF GlobeInv
<1>3. \A q \in points : SqDistance(q, target) \in Int
  BY <1>1, <1>2, DistanceIs
<1>4. sq \in Int /\ bound' \in Int /\ bound' <= bound
  BY <1>1, <1>2, <1>3
<1>5. ASSUME NEW q \in points, SqDistance(q, target) < bound' PROVE q \in found' \/ q \in ToCome'
  <2>1. SqDistance(q, target) \in Int /\ SqDistance(q, target) < bound
    BY <1>2, <1>3, <1>4, <1>5
  <2>2. CASE q = p
    BY <1>2, <1>4, <1>5, <2>1, <2>2
  <2>3. CASE q # p /\ q \in ToCome
    BY <2>3
  <2>4. CASE q \in found
    <3>1. CASE query = "nearest"
      <4>1. bound = SqDistance(q, target)
        BY <1>2, <2>4, <3>1 DEF FoundRight
      <4> QED BY <1>2, <2>1, <4>1
    <3>2. CASE query # "nearest"
      BY <2>4, <3>2
    <3> QED BY <3>1, <3>2
  <2> QED BY <1>2, <2>1, <2>2, <2>3, <2>4 DEF NotMissed
<1>6. NotMissed'
  BY <1>5 DEF NotMissed
<1>7. FoundRight'
  <2>1. CASE query = "neighborhood"
    <3>1. bound' = bound /\ bound = limit /\ \A q \in found : q \in points /\ SqDistance(q, target) < limit
      BY <1>2, <2>1 DEF FoundRight
    <3>2. ~(sq >= bound) => sq < limit
      BY <1>2, <1>4, <3>1
    <3>3. \A q \in found' : q \in points /\ SqDistance(q, target) < limit
      BY <1>1, <3>1, <3>2
    <3> QED BY <2>1, <3>1, <3>3 DEF FoundRight
  <2>2. CASE query = "nearest"
    <3>1. CASE sq >= bound
      <4>1. found' = found /\ bound' = bound
        BY <1>2, <1>4, <3>1
      <4> QED BY <1>2, <2>2, <4>1 DEF FoundRight
    <3>2. CASE ~(sq >= bound)
      <4>1. found' = {p} /\ bound' = SqDistance(p, target)
        BY <1>2, <1>4, <2>2, <3>2
      <4> QED BY <1>1, <2>2, <4>1 DEF FoundRight
    <3> QED BY <3>1, <3>2
  <2> QED BY <2>1, <2>2 DEF GlobeInv
<1> QED BY <1>4, <1>6, <1>7

LEMMA VisitStep == ASSUME GlobeInv, Visit PROVE GlobeInv'
<1> DEFINE n == Cardinality(points)
           c == current
           p == store[c]
           sq == SqDistance(p, target)
           side == target[1 + (depth % 3)] - Markers[p][1 + (depth % 3)]
           left == 2 * c + 1
           nearer == IF side < 0 THEN left ELSE left + 1
           second == IF side < 0 THEN left + 1 ELSE left
           e == [position |-> second, sq |-> side * side]
<1>1. /\ query # "none" /\ InStore(c)
      /\ found' = (IF sq >= bound THEN found ELSE IF query = "nearest" THEN {p} ELSE found \union {p})
      /\ bound' = (IF query = "nearest" /\ sq < bound THEN sq ELSE bound)
      /\ IF InStore(left) THEN stack' = Append(stack, e) /\ current' = nearer /\ depth' = depth + 1
         ELSE current' = left /\ stack' = stack /\ depth' = depth
      /\ points' = points /\ store' = store /\ query' = query /\ target' = target /\ limit' = limit
  BY DEF Visit
<1>2. /\ n \in 1..7 /\ c \in 0..(n - 1) /\ c \in Nat
      /\ \A i \in Nat : InStore(i) <=> i < n
      /\ UnderAt(c) = UnderAt(left) \union {p} \union UnderAt(left + 1)
  <2>1. n \in 1..7 /\ c \in Nat /\ c < n
    BY <1>1, TreeOfSearch DEF GlobeInv, Walked
  <2>2. c \in 0..(n - 1) /\ 2 * c + 2 = left + 1
    BY <2>1
  <2>3. UnderAt(c) = UnderAt(2 * c + 1) \union {p} \union UnderAt(2 * c + 2)
    BY <2>2, TreeOfSearch
  <2> QED BY <2>1, <2>2, <2>3, TreeOfSearch
<1>3. \A i : UnderAt(i)' = UnderAt(i) /\ (InStore(i)' <=> InStore(i))
  BY <1>1 DEF UnderAt, InStore
<1>4. stack \in Seq([position : 1..6, sq : Int]) /\ depth \in Nat /\ Walked /\ SidesFar
  BY DEF GlobeInv, Walked
<1> HIDE DEF n, p, sq, side, e
<1>5. ASSUME InStore(left) PROVE Walked' /\ SidesFar' /\ ToCome \subseteq {p} \union ToCome'
  <2>1. c \in 0..2 /\ 2 * c + 1 < n
    BY <1>2, <1>5
  <2>2. depth = DepthOf(c) /\ (c = 0 => stack = <<>> /\ depth = 0)
    <3>1. c = 0 \/ c = 1 \/ c = 2
      BY <2>1
    <3>2. (c = 0 => depth = 0 /\ stack = <<>>) /\ (c \in 1..2 => depth = 1)
      BY <1>1, <1>4 DEF Walked
    <3> QED BY <3>1, <3>2, DepthsAre
  <2>3. /\ side \in Int
        /\ \A q : (side < 0 /\ q \in UnderAt(left + 1)) \/ (~(side < 0) /\ q \in UnderAt(left))
                => side * side <= SqDistance(q, target)
    <3>1. left + 1 = 2 * c + 2
      BY <2>1
    <3>2. side = target[1 + (DepthOf(c) % 3)] - Markers[store[c]][1 + (DepthOf(c) % 3)]
      BY <2>2 DEF side, p
    <3>3. 2 * c + 1 < Cardinality(points)
      BY <2>1 DEF n
    <3> HIDE DEF DepthOf
    <3>4. ASSUME NEW q
          PROVE  /\ side \in Int
                 /\ (side < 0 /\ q \in UnderAt(2 * c + 2)) \/ (~(side < 0) /\ q \in UnderAt(2 * c + 1))
                      => side * side <= SqDistance(q, target)
      BY <2>1, <3>2, <3>3, BeyondSplit
    <3> QED BY <3>1, <3>4
  <2>4. \A q \in UnderAt(second) : side * side <= SqDistance(q, target)
    BY <2>3
  <2>5. nearer \in 1..6 /\ second \in 1..6 /\ side * side \in Int /\ (c # 0 => nearer > 2 /\ second > 2)
    <3>1. left \in 1..5 /\ left + 1 \in 1..6 /\ (c # 0 => left > 2)
      BY <2>1
    <3>2. \A x \in Int : x * x \in Int
      OBVIOUS
    <3> QED BY <2>3, <3>1, <3>2
  <2> HIDE DEF nearer, second
  <2>6. /\ stack' = Append(stack, e) /\ current' = nearer /\ depth' = depth + 1
        /\ e \in [position : 1..6, sq : Int] /\ e.position = second /\ e.sq = side * side
    BY <1>1, <1>5, <2>5 DEF e
  <2>7. /\ stack' \in Seq([position : 1..6, sq : Int])
        /\ DOMAIN stack' = (DOMAIN stack) \union {Len(stack) + 1}
        /\ \A i \in DOMAIN stack : stack'[i] = stack[i]
        /\ stack'[Len(stack) + 1] = e
    BY <1>4, <2>6
  <2>8. Walked'
    <3>1. \A i \in DOMAIN stack' : stack'[i].position <= 2 => i = 1
      <4>1. ASSUME NEW i \in DOMAIN stack', stack'[i].position <= 2 PROVE i = 1
        <5>1. CASE i \in DOMAIN stack
          BY <1>4, <2>7, <4>1, <5>1 DEF Walked
        <5>2. CASE i = Len(stack) + 1
          <6>1. second <= 2
            BY <2>6, <2>7, <4>1, <5>2
          <6>2. c = 0
            BY <2>5, <6>1
          <6> QED BY <2>2, <5>2, <6>2
        <5> QED BY <2>7, <4>1, <5>1, <5>2
      <4> QED BY <4>1
    <3>2. current' \in Nat /\ depth' \in Nat /\ current' # 0 /\ (current' \in 1..2 => depth' = 1)
      BY <1>4, <2>2, <2>5, <2>6
    <3> QED BY <2>7, <3>1, <3>2 DEF Walked
  <2>9. SidesFar'
    <3>1. ASSUME NEW i \in DOMAIN stack', NEW q \in UnderAt(stack'[i].position)
          PROVE  stack'[i].sq <= SqDistance(q, target)
      <4>1. CASE i \in DOMAIN stack
        BY <1>4, <2>7, <3>1, <4>1 DEF SidesFar
      <4>2. CASE i = Len(stack) + 1
        BY <2>4, <2>6, <2>7, <3>1, <4>2
      <4> QED BY <2>7, <3>1, <4>1, <4>2
    <3> QED BY <1>1, <1>3, <3>1 DEF SidesFar
  <2>10. ASSUME NEW q \in ToCome PROVE q = p \/ q \in ToCome'
    <3>1. ToCome' = UnderAt(nearer) \union UNION {UnderAt(stack'[i].position) : i \in DOMAIN stack'}
      BY <1>3, <2>6 DEF ToCome
    <3>2. CASE q \in UnderAt(c)
      <4>1. q = p \/ q \in UnderAt(nearer) \/ q \in UnderAt(second)
        BY <1>2, <3>2 DEF nearer, second
      <4>2. q \in UnderAt(second) => q \in UnderAt(stack'[Len(stack) + 1].position) /\ Len(stack) + 1 \in DOMAIN stack'
        BY <2>6, <2>7
      <4> QED BY <3>1, <4>1, <4>2
    <3>3. CASE \E i \in DOMAIN stack : q \in UnderAt(stack[i].position)
      BY <2>7, <3>1, <3>3
    <3> QED BY <2>10, <3>2, <3>3 DEF ToCome
  <2> QED BY <2>8, <2>9, <2>10
<1>6. ASSUME ~InStore(left) PROVE Walked' /\ SidesFar' /\ ToCome \subseteq {p} \union ToCome'
  <2>1. current' = left /\ stack' = stack /\ depth' = depth /\ left \in Nat /\ left + 1 \in Nat
    BY <1>1, <1>2, <1>6
  <2>2. ~InStore(left + 1)
    BY <1>2, <1>6, <2>1
  <2>3. UnderAt(left) = {} /\ UnderAt(left + 1) = {}
    BY <1>6, <2>2 DEF UnderAt
  <2>4. Walked'
    <3>1. ~InStore(current)'
      BY <1>3, <1>6, <2>1 DEF InStore
    <3> QED BY <1>4, <2>1, <3>1 DEF Walked
  <2>5. SidesFar'
    BY <1>1, <1>3, <1>4, <2>1 DEF SidesFar
  <2>6. ToCome \subseteq {p} \union ToCome'
    <3> HIDE DEF left
    <3>1. UnderAt(c) = {p}
      BY <1>2, <2>3
    <3> QED BY <1>3, <2>1, <3>1 DEF ToCome
  <2> QED BY <2>4, <2>5, <2>6
<1>7. NotMissed' /\ FoundRight' /\ bound' \in Int
  BY <1>1, <1>5, <1>6, LookedAt DEF p, sq
<1> QED BY <1>1, <1>5, <1>6, <1>7 DEF GlobeInv

\* What is left of a sequence without its last element.
LEMMA FrontOf ==
    ASSUME NEW S, NEW s \in Seq(S), s # <<>>, NEW m, m = Len(s), NEW r, r = SubSeq(s, 1, m - 1)
    PROVE  /\ m \in Nat \ {0} /\ DOMAIN s = 1..m /\ s[m] \in S
           /\ r \in Seq(S) /\ DOMAIN r = 1..(m - 1) /\ \A i \in 1..(m - 1) : r[i] = s[i]
<1>1. m \in Nat /\ m # 0 /\ DOMAIN s = 1..m /\ \A i \in 1..m : s[i] \in S
  OBVIOUS
<1>2. r \in Seq(S) /\ Len(r) = m - 1 /\ \A i \in 1..(m - 1) : r[i] = s[i]
  BY <1>1
<1> QED BY <1>1, <1>2

LEMMA PopStep == ASSUME GlobeInv, Pop PROVE GlobeInv'
<1> DEFINE m == Len(stack)
           top == stack[m]
           taken == top.sq =< bound /\ InStore(top.position)
<1>1. /\ query # "none" /\ ~InStore(current) /\ stack # <<>> /\ depth' = m /\ stack' = SubSeq(stack, 1, m - 1)
      /\ current' = IF taken THEN top.position ELSE current
      /\ points' = points /\ store' = store /\ query' = query /\ target' = target /\ limit' = limit
      /\ bound' = bound /\ found' = found
  BY DEF Pop
<1>2. stack \in Seq([position : 1..6, sq : Int]) /\ current \in Nat /\ Walked /\ SidesFar /\ NotMissed /\ FoundRight
  BY DEF GlobeInv, Walked
<1>0. /\ m \in Nat \ {0} /\ DOMAIN stack = 1..m /\ stack[m] \in [position : 1..6, sq : Int]
      /\ stack' \in Seq([position : 1..6, sq : Int])
      /\ DOMAIN stack' = 1..(m - 1) /\ \A i \in 1..(m - 1) : stack'[i] = stack[i]
  <2> DEFINE R == [position : 1..6, sq : Int]
             r == stack'
             l == m
  <2>1. stack \in Seq(R) /\ stack # <<>> /\ l = Len(stack) /\ r = SubSeq(stack, 1, l - 1)
    BY <1>1, <1>2
  <2> HIDE DEF R, r, l
  <2>2. /\ l \in Nat \ {0} /\ DOMAIN stack = 1..l /\ stack[l] \in R
        /\ r \in Seq(R) /\ DOMAIN r = 1..(l - 1) /\ \A i \in 1..(l - 1) : r[i] = stack[i]
    BY ONLY <2>1, FrontOf
  <2> QED BY <2>2 DEF R, r, l
<1>3. m \in Nat \ {0} /\ m \in DOMAIN stack /\ top \in [position : 1..6, sq : Int]
  <2>1. m \in Nat \ {0} /\ DOMAIN stack = 1..m /\ stack[m] \in [position : 1..6, sq : Int]
    BY ONLY <1>0
  <2>2. m \in 1..m
    BY <2>1
  <2> QED BY <2>1, <2>2
<1>4. /\ stack' \in Seq([position : 1..6, sq : Int]) /\ DOMAIN stack' = 1..(m - 1)
      /\ DOMAIN stack = 1..m /\ \A i \in DOMAIN stack' : i \in DOMAIN stack /\ stack'[i] = stack[i]
  <2>1. \A i \in 1..(m - 1) : i \in 1..m
    BY <1>3
  <2> QED BY ONLY <1>0, <2>1
<1>5. \A i : UnderAt(i)' = UnderAt(i) /\ (InStore(i)' <=> InStore(i))
  BY <1>1 DEF UnderAt, InStore
<1> HIDE DEF top
<1>6. Walked'
  <2>1. InStore(current') => current' = top.position /\ current' # 0 /\ (current' \in 1..2 => depth' = 1)
    <3> SUFFICES ASSUME InStore(current') PROVE current' = top.position /\ current' # 0 /\ (current' \in 1..2 => depth' = 1)
      OBVIOUS
    <3>1. current' = top.position
      BY <1>1
    <3>2. top.position <= 2 => m = 1
      BY <1>2, <1>3 DEF Walked, top
    <3> QED BY <1>1, <1>3, <3>1, <3>2
  <2>2. InStore(current)' <=> InStore(current')
    BY <1>1 DEF InStore
  <2>3. current' \in Nat /\ depth' \in Nat
    BY <1>1, <1>2, <1>3
  <2>4. \A i \in DOMAIN stack' : stack'[i].position <= 2 => i = 1
    BY <1>2, <1>4 DEF Walked
  <2> QED BY <1>4, <2>1, <2>2, <2>3, <2>4 DEF Walked
<1>7. SidesFar'
  <2>1. \A i \in DOMAIN stack' : \A q \in UnderAt(stack'[i].position) : stack'[i].sq <= SqDistance(q, target)
    BY <1>2, <1>4 DEF SidesFar
  <2> QED BY <1>1, <1>5, <2>1 DEF SidesFar
<1>8. ASSUME NEW q \in points, SqDistance(q, target) < bound, q \in ToCome PROVE q \in ToCome'
  <2>1. ToCome' = UnderAt(current') \union UNION {UnderAt(stack'[i].position) : i \in DOMAIN stack'}
    BY <1>5 DEF ToCome
  <2>2. UnderAt(current) = {}
    BY <1>1 DEF UnderAt
  <2>3. PICK i \in DOMAIN stack : q \in UnderAt(stack[i].position)
    BY <1>8, <2>2 DEF ToCome
  <2>4. CASE i = m
    <3>1. q \in UnderAt(top.position)
      BY <2>3, <2>4 DEF top
    <3>2. InStore(top.position)
      BY <3>1 DEF UnderAt
    <3>3. top.sq <= SqDistance(q, target)
      BY <1>2, <1>3, <3>1 DEF SidesFar, top
    <3>4. SqDistance(q, target) \in Int /\ bound \in Int /\ top.sq \in Int
      <4>1. q \in Marked /\ target \in Targets /\ bound \in Int
        BY DEF GlobeInv
      <4>2. SqDistance(q, target) \in Int
        BY <4>1, DistanceIs
      <4> QED BY <1>3, <4>1, <4>2
    <3>5. current' = top.position
      BY <1>1, <1>8, <3>2, <3>3, <3>4
    <3> QED BY <2>1, <3>1, <3>5
  <2>5. CASE i # m
    <3>1. i \in DOMAIN stack'
      BY <1>3, <1>4, <2>5
    <3> QED BY <1>4, <2>1, <2>3, <3>1
  <2> QED BY <2>4, <2>5
<1>9. NotMissed'
  BY <1>1, <1>2, <1>8 DEF NotMissed
<1>10. FoundRight'
  BY <1>1, <1>2 DEF FoundRight
<1> QED BY <1>1, <1>6, <1>7, <1>9, <1>10 DEF GlobeInv

LEMMA GlobeStep == GlobeInv /\ [KdTreeNext]_treeVars => GlobeInv'
<1> SUFFICES ASSUME GlobeInv, [KdTreeNext]_treeVars PROVE GlobeInv'
  OBVIOUS
<1>1. ASSUME NEW t \in Targets, NearestNeighbor(t) \/ Neighborhood(t) PROVE GlobeInv'
  BY <1>1, SearchStep DEF NearestNeighbor, Neighborhood
<1>2. CASE Visit
  BY <1>2, VisitStep
<1>3. CASE Pop
  BY <1>3, PopStep
<1>4. CASE UNCHANGED treeVars
  BY <1>4 DEF treeVars, GlobeInv, Walked, SidesFar, NotMissed, FoundRight, ToCome, UnderAt, InStore
<1> QED BY <1>1, <1>2, <1>3, <1>4 DEF KdTreeNext

LEMMA GlobeSearches == GlobeInv => TreeExact
<1> SUFFICES ASSUME GlobeInv PROVE TreeExact
  OBVIOUS
<1>1. /\ points \in SUBSET Marked /\ Cardinality(points) \in 1..7 /\ store = FlatStore(points) /\ target \in Targets
      /\ NotMissed /\ FoundRight
  BY DEF GlobeInv
<1>2. PackedDensely
  <2> DEFINE n == Cardinality(points)
  <2>1. /\ DOMAIN store = 0..(n - 1) /\ \A q \in points : \E i \in 0..(n - 1) : store[i] = q
        /\ \A i \in 0..(n - 1) : store[i] \in points
    BY TreeOfSearch
  <2> HIDE DEF n
  <2>2. {store[i] : i \in DOMAIN store} = points
    BY <2>1
  <2> QED BY <2>1, <2>2 DEF PackedDensely, n
<1>3. Over => ToCome = {}
  BY DEF Over, ToCome, UnderAt
<1>4. NeighborhoodExact
  <2> SUFFICES ASSUME query = "neighborhood", Over PROVE found = {p \in points : SqDistance(p, target) < limit}
    BY DEF NeighborhoodExact
  <2>1. bound = limit /\ \A p \in found : p \in points /\ SqDistance(p, target) < limit
    BY <1>1 DEF FoundRight
  <2>2. \A q \in points : SqDistance(q, target) < limit => q \in found
    BY <1>1, <1>3, <2>1 DEF NotMissed
  <2> QED BY <2>1, <2>2
<1>5. NearestFound
  <2> SUFFICES ASSUME query = "nearest", Over
               PROVE  \E p \in found : \A q \in points : SqDistance(p, target) =< SqDistance(q, target)
    BY DEF NearestFound
  <2>1. \A q \in points : SqDistance(q, target) \in Int
    BY <1>1, DistanceIs
  <2>2. \A q \in points : SqDistance(q, target) < bound => q \in found
    BY <1>1, <1>3 DEF NotMissed
  <2>3. CASE found = {} /\ bound = Infinity
    <3>1. PICK q : q \in points
      BY <1>1, FS_EmptySet
    <3>2. SqDistance(q, target) < Infinity
      BY <1>1, <3>1, InfinityAssumption DEF Marked
    <3> QED BY <2>2, <2>3, <3>1, <3>2
  <2>4. CASE \E p \in points : found = {p} /\ bound = SqDistance(p, target)
    <3>1. PICK p \in points : found = {p} /\ bound = SqDistance(p, target)
      BY <2>4
    <3>2. ASSUME NEW q \in points PROVE SqDistance(p, target) =< SqDistance(q, target)
      <4>1. SqDistance(q, target) < SqDistance(p, target) => q = p
        BY <2>2, <3>1
      <4> QED BY <2>1, <4>1
    <3> QED BY <3>1, <3>2
  <2> QED BY <1>1, <2>3, <2>4 DEF FoundRight
<1> QED BY <1>2, <1>4, <1>5 DEF TreeExact

(***************************************************************************)
(* For any positions of at most seven markers, any clicks and any radii:   *)
(* the array of the tree has no hole, a neighbourhood holds exactly the    *)
(* markers within the radius, and the marker found is a nearest one        *)
(* (kd-tree.js).  Seven is the most there may be: with eight, the depth    *)
(* that nearest_ takes from the length of its stack can be wrong.          *)
(***************************************************************************)
THEOREM GlobeIsExact == (\A k \in Counts : k <= 7) => (BrowserSpec => []GlobeExact)
<1> SUFFICES ASSUME \A k \in Counts : k <= 7 PROVE BrowserSpec => []GlobeExact
  OBVIOUS
<1>1. BrowserInit => GlobeInv
  BY GlobeStart DEF BrowserInit
<1>2. BrowserNext \/ UNCHANGED <<theQueue, theEngine, theStage, thePages, part>> => [KdTreeNext]_treeVars
  BY DEF BrowserNext, thePages
<1>3. GlobeInv /\ [BrowserNext]_<<theQueue, theEngine, theStage, thePages, part>> => GlobeInv'
  BY <1>2, GlobeStep
<1>4. GlobeInv => GlobeExact
  BY GlobeSearches DEF GlobeExact
<1> QED BY <1>1, <1>3, <1>4, PTL DEF BrowserSpec
-----------------------------------------------------------------------------
(* The instruments                                                         *)

\* The tracks that were created are a sequence, and the current one is of them.
Tracked == (\E L : lookup \in Seq(L)) /\ currentTrack \in 1..Len(lookup)

\* Unless the data was reset under the user's hands: an expanded instrument
\* has no track in the sequencer, a collapsed one its current track only.
OneTrack ==
    /\ state \in {"collapsed", "expand"}
    /\ resetOpen \/ tracks = IF state = "collapsed" THEN {currentTrack} ELSE {}

\* The current track is a copy of what was recorded, but while recording.
Copied == recording \/ strayed \/ lookup[currentTrack] = Lookup(recorded)

\* The inductive invariant.
InstrumentInv == Tracked /\ OneTrack /\ Copied

-----------------------------------------------------------------------------
\* A new track is the last and the current one, and plays the notes it was made from.
LEMMA NewTrackIsCopy ==
    ASSUME Tracked, NEW notes, NewTrack(notes)
    PROVE  Tracked' /\ lookup'[currentTrack'] = Lookup(notes)
<1>1. PICK L : lookup \in Seq(L)
  BY DEF Tracked
<1> DEFINE M == L \union {Lookup(notes)}
<1>2. lookup \in Seq(M)
  BY <1>1
<1>3. Lookup(notes) \in M
  OBVIOUS
<1> HIDE DEF M
<1>4. lookup' \in Seq(M) /\ Len(lookup') = Len(lookup) + 1 /\ Len(lookup) \in Nat
  BY <1>2, <1>3 DEF NewTrack
<1>5. lookup'[Len(lookup) + 1] = Lookup(notes)
  BY <1>2, <1>3 DEF NewTrack
<1>6. currentTrack' = Len(lookup) + 1
  BY DEF NewTrack
<1>7. QED
  BY <1>4, <1>5, <1>6 DEF Tracked

LEMMA InstrumentStart == InstrumentInit => InstrumentInv
<1> SUFFICES ASSUME InstrumentInit PROVE InstrumentInv
  OBVIOUS
<1>1. lookup = <<Lookup(recorded)>> /\ currentTrack = 1 /\ tracks = {1} /\ state = "collapsed"
  BY DEF InstrumentInit
<1>2. <<Lookup(recorded)>> \in Seq({Lookup(recorded)}) /\ Len(<<Lookup(recorded)>>) = 1
  OBVIOUS
<1>3. Tracked
  <2>1. lookup \in Seq({Lookup(recorded)})
    BY <1>1, <1>2
  <2>2. Len(lookup) = 1
    BY <1>1, <1>2
  <2>3. \E L : lookup \in Seq(L)
    BY <2>1
  <2>4. QED
    BY <1>1, <2>2, <2>3 DEF Tracked
<1>4. OneTrack /\ Copied
  BY <1>1 DEF OneTrack, Copied
<1>5. QED
  BY <1>3, <1>4 DEF InstrumentInv

\* Neither the tracks nor the recording change: what most steps have in common.
LEMMA TracksRest ==
    ASSUME InstrumentInv, UNCHANGED <<state, recording, recorded, currentTrack, lookup, tracks, history>>
    PROVE  InstrumentInv'
BY DEF InstrumentInv, Tracked, OneTrack, Copied, history

\* A note is added to the recording: out of a recording, it has strayed.
LEMMA RecordKeeps ==
    ASSUME InstrumentInv, NEW heard, Record(heard)
    PROVE  InstrumentInv'
<1>1. UNCHANGED <<state, recording, currentTrack, lookup, tracks, resetOpen>>
  BY DEF Record
<1>2. Tracked' /\ OneTrack'
  BY <1>1 DEF InstrumentInv, Tracked, OneTrack
<1>3. recording \/ strayed'
  BY DEF Record
<1>4. QED
  BY <1>1, <1>2, <1>3 DEF InstrumentInv, Copied

LEMMA InstrumentStep == InstrumentInv /\ [InstrumentNext]_instrumentVars => InstrumentInv'
<1> SUFFICES ASSUME InstrumentInv, [InstrumentNext]_instrumentVars PROVE InstrumentInv'
  OBVIOUS
<1>1. CASE Expand \/ Collapse
  <2>1. UNCHANGED <<recording, recorded, currentTrack, lookup, history>>
    BY <1>1 DEF Expand, Collapse
  <2>2. OneTrack'
    <3>1. resetOpen' = resetOpen
      BY <2>1 DEF history
    <3>2. CASE Expand
      BY <2>1, <3>1, <3>2 DEF Expand, InstrumentInv, OneTrack
    <3>3. CASE Collapse
      BY <2>1, <3>1, <3>3 DEF Collapse, InstrumentInv, OneTrack
    <3>4. QED
      BY <1>1, <3>2, <3>3
  <2>3. QED
    BY <2>1, <2>2 DEF InstrumentInv, Tracked, Copied, history
<1>2. CASE Reset
  <2>1. Tracked' /\ lookup'[currentTrack'] = Lookup(firstLoadData)
    BY <1>2, NewTrackIsCopy DEF Reset, InstrumentInv
  <2>2. OneTrack'
    <3>1. CASE resetOpen'
      BY <1>2, <3>1 DEF Reset, InstrumentInv, OneTrack
    <3>2. CASE ~resetOpen'
      <4>1. state = "collapsed" /\ tracks = {currentTrack} /\ state' = state
        BY <1>2, <3>2 DEF Reset, InstrumentInv, OneTrack
      <4>2. tracks' = {currentTrack'}
        BY <1>2, <4>1 DEF Reset
      <4>3. QED
        BY <4>1, <4>2 DEF OneTrack
    <3>3. QED
      BY <3>1, <3>2
  <2>3. recorded' = firstLoadData
    BY <1>2 DEF Reset
  <2>4. QED
    BY <2>1, <2>2, <2>3 DEF InstrumentInv, Copied
<1>3. CASE StartCountdown
  BY <1>3, TracksRest DEF StartCountdown
<1>4. CASE StopRecording
  <2>1. Tracked' /\ lookup'[currentTrack'] = Lookup(recorded)
    BY <1>4, NewTrackIsCopy DEF StopRecording, InstrumentInv
  <2>2. OneTrack' /\ recorded' = recorded
    BY <1>4 DEF StopRecording, InstrumentInv, OneTrack, history
  <2>3. QED
    BY <2>1, <2>2 DEF InstrumentInv, Copied
<1>5. CASE OnBeat
  <2>1. UNCHANGED <<state, currentTrack, lookup, tracks, history>>
    BY <1>5 DEF OnBeat
  <2>2. recording' \/ (~recording /\ recorded' = recorded)
    BY <1>5 DEF OnBeat
  <2>3. Copied'
    BY <2>1, <2>2 DEF InstrumentInv, Copied, history
  <2>4. QED
    BY <2>1, <2>3 DEF InstrumentInv, Tracked, OneTrack, history
<1>6. ASSUME NEW s \in Voices, Hit(s) \/ PlayHexagon(s) \/ ReleaseParallelogram(s)
      PROVE  InstrumentInv'
  <2>1. Record(s) \/ UNCHANGED <<state, recording, recorded, currentTrack, lookup, tracks, history>>
    BY <1>6 DEF Hit, PlayHexagon, ReleaseParallelogram
  <2>2. QED
    BY <2>1, RecordKeeps, TracksRest
<1>7. ASSUME NEW s \in Voices, PressParallelogram(s) PROVE InstrumentInv'
  BY <1>7, TracksRest DEF PressParallelogram
<1>8. ASSUME NEW q, NEW held, Cursor(q, held) PROVE InstrumentInv'
  BY <1>8, TracksRest DEF Cursor
<1>9. CASE Release \/ KeyUp \/ FollowTrack \/ \E s \in Voices : Drag(s) \/ KeyDown(s)
  BY <1>8, <1>9 DEF Release, KeyUp, FollowTrack, Drag, KeyDown
<1>10. CASE UNCHANGED instrumentVars
  BY <1>10, TracksRest DEF instrumentVars
<1>11. QED
  BY <1>1, <1>2, <1>3, <1>4, <1>5, <1>6, <1>7, <1>9, <1>10 DEF InstrumentNext

(***************************************************************************)
(* An instrument that is not played sounds as its recording, which is what *)
(* a shared link holds, each note once, for all five kinds and whatever    *)
(* the order of recordings, resets, openings and closings (the views,      *)
(* Track.js, Sequencer.js), but for the two ways that HeardIsShared names. *)
(***************************************************************************)
THEOREM RecordingIsHeard == InstrumentSpec => []HeardIsShared
<1>1. InstrumentInv => HeardIsShared
  BY DEF InstrumentInv, OneTrack, Copied, HeardIsShared
<1>2. QED
  BY <1>1, InstrumentStart, InstrumentStep, PTL DEF InstrumentSpec

-----------------------------------------------------------------------------
(* The audio engine                                                        *)

Commands == {"start", "stop"}
Fades == [to : {"none", "full"}, wait : Nat, left : Nat, then : {"none", "stop", "tearDown"}]

EngineShape ==
    /\ hidden \in BOOLEAN /\ listening \in BOOLEAN /\ isRunning \in BOOLEAN
    /\ tweens \in Seq(Fades) /\ mailbox \in Seq(Commands)
    /\ timers \in Seq(Nat \ {0}) /\ timerID \in Nat

\* The commands in the mailbox alternate, the first continues what the worker does and the
\* last is what the page wants.
InTurn ==
    /\ \/ timers = <<>> /\ timerID = 0
       \/ Len(timers) = 1 /\ timerID = 1
    /\ \A i \in 1..(Len(mailbox) - 1) : mailbox[i] # mailbox[i + 1]
    /\ mailbox = <<>> => (timers = <<>> <=> ~isRunning)
    /\ mailbox # <<>> => /\ mailbox[1] = "start" <=> timers = <<>>
                         /\ mailbox[Len(mailbox)] = "start" <=> isRunning

\* A fade that ends without stopping the sound ends at full volume, and one is not over.
FadesEnd ==
    /\ \A i \in DOMAIN tweens : tweens[i].then = "none" => tweens[i].to = "full"
    /\ tweens # <<>> => \E i \in DOMAIN tweens : ~FadeOver(tweens[i])

Left == mode = "closed" => ~listening /\ ~isRunning

EngineInv == EngineShape /\ InTurn /\ FadesEnd /\ FullVolumeAtRest /\ Left

LEMMA EngineInitially == EngineInit => EngineInv
<1>1. <<>> \in Seq(Fades) /\ <<>> \in Seq(Commands) /\ <<>> \in Seq(Nat \ {0}) /\ DOMAIN <<>> = {}
  BY EmptySeq
<1>2. ASSUME EngineInit PROVE EngineShape
  BY <1>1, <1>2 DEF EngineInit, EngineShape
<1>3. ASSUME EngineInit PROVE InTurn
  <2>1. Len(mailbox) = 0 /\ mailbox = <<>> /\ timers = <<>> /\ timerID = 0 /\ isRunning = FALSE
    BY <1>3, EmptySeq DEF EngineInit
  <2>2. QED BY <2>1 DEF InTurn
<1>4. ASSUME EngineInit PROVE FadesEnd /\ FullVolumeAtRest /\ Left
  BY <1>1, <1>4 DEF EngineInit, FadesEnd, FullVolumeAtRest, Left
<1>5. QED BY <1>2, <1>3, <1>4 DEF EngineInv

\* A command that is sent when it changes something keeps the mailbox in turn.
LEMMA Sent ==
    ASSUME EngineShape, InTurn, NEW c \in Commands, c = "start" <=> ~isRunning,
           mailbox' = Append(mailbox, c), isRunning' = (c = "start"), UNCHANGED worker
    PROVE  InTurn' /\ mailbox' \in Seq(Commands)
<1>1. /\ mailbox' \in Seq(Commands) /\ mailbox' # <<>> /\ Len(mailbox') = Len(mailbox) + 1
      /\ \A i \in 1..Len(mailbox) : mailbox'[i] = mailbox[i]
      /\ mailbox'[Len(mailbox) + 1] = c
  BY AppendProperties DEF EngineShape
<1>2. Len(mailbox) \in Nat /\ (mailbox # <<>> => Len(mailbox) >= 1) /\ (mailbox = <<>> => Len(mailbox) = 0)
  BY EmptySeq, LenProperties DEF EngineShape
<1>3. mailbox # <<>> => mailbox[Len(mailbox)] \in Commands
  BY <1>2, ElementOfSeq DEF EngineShape
<1>4. \A i \in 1..(Len(mailbox') - 1) : mailbox'[i] # mailbox'[i + 1]
  <2>1. SUFFICES ASSUME NEW i \in 1..Len(mailbox) PROVE mailbox'[i] # mailbox'[i + 1]
    BY <1>1, <1>2
  <2>2. CASE i = Len(mailbox)
    BY <1>1, <1>2, <1>3, <2>2 DEF InTurn, Commands
  <2>3. CASE i # Len(mailbox)
    BY <1>1, <1>2, <2>3 DEF InTurn
  <2>4. QED BY <2>2, <2>3
<1>5. mailbox'[1] = "start" <=> timers' = <<>>
  BY <1>1, <1>2 DEF InTurn, worker, Commands, EngineShape
<1>6. QED BY <1>1, <1>2, <1>4, <1>5 DEF InTurn, worker

LEMMA Stopped ==
    ASSUME EngineInv, Stop, UNCHANGED worker
    PROVE  InTurn' /\ mailbox' \in Seq(Commands) /\ isRunning' = FALSE
<1>1. CASE isRunning
  BY <1>1, Sent DEF EngineInv, EngineShape, Stop, Commands
<1>2. CASE ~isRunning
  BY <1>2 DEF EngineInv, EngineShape, Stop, InTurn, worker
<1>3. QED BY <1>1, <1>2

LEMMA FadedIn ==
    ASSUME EngineInv, NEW frames \in Nat \ {0}, NEW wait \in Nat, FadeIn(frames, wait), UNCHANGED worker,
           hidden' \in BOOLEAN, listening' \in BOOLEAN
    PROVE  EngineShape' /\ InTurn' /\ FadesEnd' /\ FullVolumeAtRest' /\ isRunning' = TRUE
<1>1. EngineShape /\ InTurn /\ FadesEnd
  BY DEF EngineInv
<1>2. mailbox' \in Seq(Commands) /\ InTurn' /\ isRunning' = TRUE
  <2>1. CASE isRunning
    BY <1>1, <2>1 DEF FadeIn, Start, EngineShape, InTurn, worker
  <2>2. CASE ~isRunning
    <3>1. isRunning' = TRUE /\ mailbox' = Append(mailbox, "start")
      BY <2>2 DEF FadeIn, Start
    <3>2. QED BY <1>1, <2>2, <3>1, Sent DEF Commands
  <2>3. QED BY <1>1, <2>1, <2>2
<1> DEFINE t == [to |-> "full", wait |-> wait, left |-> frames, then |-> "none"]
<1>3. t \in Fades /\ tweens' = Append(tweens, t)
  BY DEF Fades, FadeIn
<1>4. /\ tweens' \in Seq(Fades) /\ tweens' # <<>> /\ Len(tweens') = Len(tweens) + 1
      /\ \A i \in 1..Len(tweens) : tweens'[i] = tweens[i]
      /\ tweens'[Len(tweens) + 1] = t
      /\ Len(tweens) \in Nat /\ DOMAIN tweens = 1..Len(tweens) /\ DOMAIN tweens' = 1..(Len(tweens) + 1)
  BY <1>1, <1>3, AppendProperties, LenProperties DEF EngineShape
<1>5. FadesEnd' /\ FullVolumeAtRest'
  BY <1>1, <1>4 DEF FadesEnd, FullVolumeAtRest, FadeOver
<1>6. EngineShape'
  BY <1>1, <1>2, <1>4 DEF EngineShape, worker
<1>7. QED BY <1>2, <1>5, <1>6

LEMMA FadedOut ==
    ASSUME EngineInv, NEW then \in {"stop", "tearDown"}, FadeOut(then), UNCHANGED worker,
           hidden' \in BOOLEAN, listening' \in BOOLEAN
    PROVE  EngineShape' /\ InTurn' /\ FadesEnd' /\ FullVolumeAtRest'
<1>1. EngineShape /\ InTurn /\ FadesEnd
  BY DEF EngineInv
<1> DEFINE t == [to |-> "none", wait |-> 0, left |-> Fade, then |-> then]
<1>3. t \in Fades /\ tweens' = Append(tweens, t) /\ Fade > 0 /\ Fade \in Nat
  BY AudioEngineAssumption DEF Fades, FadeOut
<1>4. /\ tweens' \in Seq(Fades) /\ tweens' # <<>> /\ Len(tweens') = Len(tweens) + 1
      /\ \A i \in 1..Len(tweens) : tweens'[i] = tweens[i]
      /\ tweens'[Len(tweens) + 1] = t
      /\ Len(tweens) \in Nat /\ DOMAIN tweens = 1..Len(tweens) /\ DOMAIN tweens' = 1..(Len(tweens) + 1)
  BY <1>1, <1>3, AppendProperties, LenProperties DEF EngineShape
<1>5. FadesEnd' /\ FullVolumeAtRest'
  BY <1>1, <1>3, <1>4 DEF FadesEnd, FullVolumeAtRest, FadeOver
<1>6. EngineShape' /\ InTurn'
  BY <1>1, <1>4 DEF EngineShape, InTurn, worker, FadeOut
<1>7. QED BY <1>5, <1>6

LEMMA FramePassed ==
    ASSUME EngineInv, Frame
    PROVE  EngineInv'
<1> DEFINE moved == [i \in DOMAIN tweens |-> Progress(tweens[i])]
           writers == {i \in DOMAIN tweens : tweens[i].wait = 0 /\ ~FadeOver(tweens[i])}
           over == {moved[i].then : i \in {j \in writers : FadeOver(moved[j])}}
<1>1. EngineShape /\ InTurn /\ FadesEnd /\ Left
  BY DEF EngineInv
<1>2. Len(tweens) \in Nat /\ DOMAIN tweens = 1..Len(tweens) /\ \A i \in DOMAIN tweens : tweens[i] \in Fades
  BY <1>1, LenProperties, ElementOfSeq DEF EngineShape
<1>3. \A i \in DOMAIN tweens : /\ moved[i] \in Fades /\ moved[i].to = tweens[i].to /\ moved[i].then = tweens[i].then
                               /\ FadeOver(moved[i]) => i \in writers \/ FadeOver(tweens[i])
  BY <1>2 DEF Fades, Progress, FadeOver
<1>4. moved \in Seq(Fades) /\ DOMAIN moved = DOMAIN tweens
  BY <1>2, <1>3, SeqDef
<1>5. tweens' \in Seq(Fades) /\ FadesEnd'
  <2>1. CASE \A i \in DOMAIN moved : FadeOver(moved[i])
    BY <2>1, EmptySeq DEF Frame, FadesEnd
  <2>2. CASE ~ \A i \in DOMAIN moved : FadeOver(moved[i])
    <3>1. tweens' = moved
      BY <2>2 DEF Frame
    <3>2. QED BY <1>1, <1>3, <1>4, <2>2, <3>1 DEF FadesEnd
  <2>3. QED BY <2>1, <2>2
<1>6. /\ mailbox' \in Seq(Commands) /\ InTurn'
      /\ IF over \intersect {"stop", "tearDown"} # {} THEN isRunning' = FALSE ELSE isRunning' = isRunning
  <2>1. CASE over \intersect {"stop", "tearDown"} # {}
    BY <2>1, Stopped DEF Frame
  <2>2. CASE over \intersect {"stop", "tearDown"} = {}
    BY <1>1, <2>2 DEF Frame, InTurn, EngineShape, worker
  <2>3. QED BY <2>1, <2>2
<1>7. FullVolumeAtRest'
  <2>1. SUFFICES ASSUME tweens' = <<>>, isRunning' = TRUE PROVE volume' = "full"
    BY <1>1, <1>6 DEF FullVolumeAtRest, EngineShape
  <2>2. \A i \in DOMAIN tweens : FadeOver(moved[i])
    BY <1>1, <1>4, <2>1 DEF Frame
  <2>3. writers # {}
    BY <1>1, <1>3, <2>2 DEF Frame, FadesEnd
  <2>4. PICK last \in writers : volume' = IF FadeOver(moved[last]) THEN moved[last].to ELSE "mid"
    BY <2>3 DEF Frame
  <2>5. moved[last].then \in over
    BY <2>2
  <2>6. moved[last].then = "none"
    BY <1>3, <1>6, <2>1, <2>5 DEF Fades
  <2>7. QED BY <1>1, <1>3, <2>2, <2>4, <2>6 DEF FadesEnd
<1>8. Left'
  BY <1>1, <1>6 DEF Frame, Left, StillListening
<1>9. EngineShape'
  BY <1>1, <1>5, <1>6 DEF Frame, EngineShape, StillListening, worker
<1>10. QED BY <1>5, <1>6, <1>7, <1>8, <1>9 DEF EngineInv

LEMMA CommandRead ==
    ASSUME EngineInv, Command
    PROVE  EngineShape' /\ InTurn'
<1>1. EngineShape /\ InTurn
  BY DEF EngineInv
<1>2. /\ mailbox # <<>> /\ mailbox' = Tail(mailbox) /\ Tail(mailbox) \in Seq(Commands) /\ Len(mailbox) \in Nat \ {0}
      /\ Len(mailbox') = Len(mailbox) - 1 /\ \A i \in 1..(Len(mailbox) - 1) : mailbox'[i] = mailbox[i + 1]
      /\ Head(mailbox) = mailbox[1] /\ \A i \in 1..Len(mailbox) : mailbox[i] \in Commands
      /\ mailbox' = <<>> <=> Len(mailbox) = 1
  <2>1. mailbox \in Seq(Commands) /\ mailbox # <<>> /\ mailbox' = Tail(mailbox)
    BY <1>1 DEF Command, EngineShape
  <2>2. Len(mailbox) \in Nat \ {0} /\ \A i \in 1..Len(mailbox) : mailbox[i] \in Commands
    BY <2>1, EmptySeq, ElementOfSeq
  <2>3. /\ Tail(mailbox) \in Seq(Commands) /\ Len(Tail(mailbox)) = Len(mailbox) - 1
        /\ \A i \in 1..(Len(mailbox) - 1) : Tail(mailbox)[i] = mailbox[i + 1]
    BY <2>1, HeadTailProperties
  <2>4. Tail(mailbox) = <<>> <=> Len(mailbox) = 1
    BY <2>2, <2>3, EmptySeq
  <2>5. QED BY <2>1, <2>2, <2>3, <2>4
<1>3. CASE Head(mailbox) = "start"
  <2>1. timers = <<>> /\ timers' = Append(timers, Interval) /\ timerID' = 1 /\ Interval \in Nat \ {0}
    BY <1>1, <1>2, <1>3, AudioEngineAssumption DEF Command, InTurn
  <2>2. timers' \in Seq(Nat \ {0}) /\ timers' # <<>> /\ Len(timers') = 1
    BY <1>1, <2>1, AppendProperties DEF EngineShape
  <2>3. isRunning' = isRunning /\ mailbox[1] = "start"
    BY <1>2, <1>3 DEF Command, sound
  <2>4. /\ mailbox' # <<>> => mailbox'[1] # "start" /\ mailbox'[Len(mailbox')] = mailbox[Len(mailbox)]
        /\ mailbox' = <<>> => isRunning
        /\ \A i \in 1..(Len(mailbox') - 1) : mailbox'[i] # mailbox'[i + 1]
    BY <1>1, <1>2, <2>3 DEF InTurn
  <2>5. InTurn'
    BY <1>1, <1>2, <2>1, <2>2, <2>3, <2>4 DEF InTurn
  <2>6. QED BY <1>1, <1>2, <2>1, <2>2, <2>5 DEF EngineShape, Command, button, sound
<1>4. CASE Head(mailbox) # "start"
  <2>1. Len(timers) = 1 /\ timerID = 1 /\ timers # <<>>
    BY <1>1, <1>2, <1>4 DEF InTurn
  <2>2. timers' = [i \in 1..0 |-> timers[IF i < timerID THEN i ELSE i + 1]] /\ timerID' = 0
    BY <1>4, <2>1 DEF Command
  <2>3. timers' = <<>>
    BY <2>2
  <2>4. isRunning' = isRunning /\ mailbox[1] = "stop"
    BY <1>2, <1>4 DEF Command, sound, Commands
  <2>5. /\ mailbox' # <<>> => mailbox'[1] = "start" /\ mailbox'[Len(mailbox')] = mailbox[Len(mailbox)]
        /\ mailbox' = <<>> => ~isRunning
        /\ \A i \in 1..(Len(mailbox') - 1) : mailbox'[i] # mailbox'[i + 1]
    BY <1>1, <1>2, <2>4 DEF InTurn, Commands
  <2>6. InTurn'
    <3>1. timers' = <<>> /\ timerID' = 0
      BY <2>2, <2>3
    <3>2. mailbox' # <<>> => (mailbox'[Len(mailbox')] = "start" <=> isRunning')
      BY <1>1, <1>2, <2>4, <2>5 DEF InTurn
    <3>3. QED BY <2>4, <2>5, <3>1, <3>2 DEF InTurn
  <2>7. timers' \in Seq(Nat \ {0})
    BY <2>3, EmptySeq
  <2>8. QED BY <1>1, <1>2, <2>2, <2>6, <2>7 DEF EngineShape, Command, button, sound
<1>5. QED BY <1>3, <1>4

LEMMA EngineStep ==
    ASSUME EngineInv, [EngineNext]_engineVars
    PROVE  EngineInv'
<1>1. EngineShape /\ InTurn /\ FadesEnd /\ FullVolumeAtRest /\ Left
  BY DEF EngineInv
<1>2. CASE Enter
  BY <1>1, <1>2, FadedIn, AudioEngineAssumption DEF Enter, EngineInv, EngineShape, Left
<1>3. CASE Pause
  BY <1>1, <1>3, FadedOut DEF Pause, EngineInv, EngineShape, Left, Click
<1>4. CASE Play
  BY <1>1, <1>4, FadedIn, AudioEngineAssumption DEF Play, EngineInv, EngineShape, Left, Click
<1>5. CASE Exit
  BY <1>1, <1>5, FadedOut DEF Exit, EngineInv, EngineShape, Left
<1>6. CASE Hide
  <2>1. CASE listening
    BY <1>1, <1>6, <2>1, Stopped DEF Hide, EngineInv, EngineShape, Left, FadesEnd, FullVolumeAtRest, worker
  <2>2. CASE ~listening
    BY <1>1, <1>6, <2>2 DEF Hide, EngineInv, EngineShape, Left, FadesEnd, FullVolumeAtRest, InTurn, worker
  <2>3. QED BY <2>1, <2>2
<1>7. CASE Show
  <2>1. CASE listening
    BY <1>1, <1>7, <2>1, FadedIn, AudioEngineAssumption DEF Show, EngineInv, EngineShape, Left
  <2>2. CASE ~listening
    BY <1>1, <1>7, <2>2 DEF Show, EngineInv, EngineShape, Left, FadesEnd, FullVolumeAtRest, InTurn, worker, sound
  <2>3. QED BY <2>1, <2>2
<1>8. CASE Frame
  BY <1>8, FramePassed
<1>9. CASE Command
  BY <1>1, <1>9, CommandRead DEF Command, EngineInv, FadesEnd, FullVolumeAtRest, Left, button, sound
<1>10. CASE Clock
  <2>1. DOMAIN timers = 1..Len(timers) /\ Len(timers) \in Nat /\ \A i \in DOMAIN timers : timers[i] \in Nat \ {0}
    BY <1>1, LenProperties, ElementOfSeq DEF EngineShape
  <2>2. /\ DOMAIN timers' = DOMAIN timers
        /\ timers' = [i \in 1..Len(timers) |-> timers'[i]]
        /\ \A i \in DOMAIN timers : timers'[i] \in Nat \ {0}
    BY <1>10, <2>1, AudioEngineAssumption DEF Clock
  <2>3. timers' \in [1..Len(timers) -> Nat \ {0}]
    BY <2>1, <2>2
  <2>4. timers' \in Seq(Nat \ {0}) /\ Len(timers') = Len(timers)
    BY <2>1, <2>3, SeqDef, LenProperties
  <2>5. timers' = <<>> <=> timers = <<>>
    BY <1>1, <2>4, EmptySeq DEF EngineShape
  <2>6. EngineShape' /\ InTurn'
    BY <1>1, <1>10, <2>4, <2>5 DEF Clock, EngineShape, InTurn, button, sound
  <2>7. QED BY <1>1, <1>10, <2>6 DEF Clock, EngineInv, FadesEnd, FullVolumeAtRest, Left, button, sound
<1>11. CASE OnTick
  BY <1>1, <1>11 DEF OnTick, EngineInv, EngineShape, InTurn, FadesEnd, FullVolumeAtRest, Left, button, sound, worker
<1>12. CASE UNCHANGED engineVars
  BY <1>1, <1>12 DEF engineVars, EngineInv, EngineShape, InTurn, FadesEnd, FullVolumeAtRest, Left, button, sound, worker
<1>13. QED
  BY <1>2, <1>3, <1>4, <1>5, <1>6, <1>7, <1>8, <1>9, <1>10, <1>11, <1>12 DEF EngineNext

(***************************************************************************)
(* Whatever is clicked, hidden and shown while fades compete and messages  *)
(* wait: the sound that runs once every fade is over is at full volume, an *)
(* experiment that was left is silent, and the worker ends with the one    *)
(* interval that the page asked for, or none (core.js, AudioManager.js,    *)
(* Metronome.js), for fades of any length and any number of toggles.       *)
(***************************************************************************)
THEOREM SoundIsAsShown == EngineSpec => []SoundAsShown
<1>1. EngineInv => SoundAsShown
  <2> SUFFICES ASSUME EngineInv PROVE SoundAsShown
    OBVIOUS
  <2>1. OneMetronome
    <3>1. CASE timers = <<>> /\ timerID = 0
      <4>1. Len(timers) = 0
        BY <3>1, EmptySeq
      <4>2. QED BY <4>1 DEF EngineInv, InTurn, OneMetronome
    <3>2. CASE Len(timers) = 1 /\ timerID = 1
      BY <3>2 DEF EngineInv, InTurn, OneMetronome
    <3>3. QED BY <3>1, <3>2 DEF EngineInv, InTurn
  <2>2. QED BY <2>1 DEF EngineInv, Left, ClosedIsSilent, SoundAsShown
<1> QED  BY <1>1, EngineInitially, EngineStep, PTL DEF EngineSpec

-----------------------------------------------------------------------------
(* The drums                                                               *)

KitShape ==
    /\ kitState \in {"collapsed", "expand"}
    /\ attached \subseteq Drums /\ dragged \subseteq Drums
    /\ currentlyDraggingDrum \in Drums \union {NoDrum}

\* Unless a drag was dropped, the drum that DrumView knows is the one that is dragged, by a finger.
DragKnown ==
    /\ dragged \subseteq {currentlyDraggingDrum}
    /\ ~dropped /\ currentlyDraggingDrum # NoDrum =>
         dragged = {currentlyDraggingDrum} /\ currentlyDraggingDrum \in fingers

KitInv == KitShape /\ DragKnown /\ BallsOfOpenKit

\* A press changes no drag but its own, a release ends no drag but its own.
LEMMA DragKept ==
    ASSUME KitShape, DragKnown, NEW d \in Drums, PressDrum(d) \/ ReleaseDrum(d)
    PROVE  KitShape' /\ DragKnown'
<1>1. d # NoDrum /\ NoDrum \notin dragged
  BY DrumKitAssumption DEF KitShape, NoDrum
<1>2. CASE PressDrum(d)
  BY <1>1, <1>2 DEF PressDrum, KitShape, DragKnown
<1>3. CASE ReleaseDrum(d)
  BY <1>1, <1>3 DEF ReleaseDrum, KitShape, DragKnown
<1>4. QED BY <1>2, <1>3

LEMMA KitStep == ASSUME KitInv, [KitNext]_kitVars PROVE KitInv'
<1>1. KitShape /\ DragKnown /\ BallsOfOpenKit
  BY DEF KitInv
<1>2. CASE OpenKit
  BY <1>1, <1>2 DEF OpenKit, KitInv, KitShape, DragKnown, BallsOfOpenKit, dragging, balls
<1>3. CASE CloseKit
  BY <1>1, <1>3 DEF CloseKit, KitInv, KitShape, DragKnown, BallsOfOpenKit
<1>4. CASE ReloadKit
  BY <1>1, <1>4 DEF ReloadKit, KitInv, KitShape, DragKnown, BallsOfOpenKit, balls
<1>5. CASE KitOnBeat
  BY <1>1, <1>5 DEF KitOnBeat, KitInv, KitShape, DragKnown, BallsOfOpenKit, dragging
<1>6. CASE \E d \in Drums : PressDrum(d) \/ ReleaseDrum(d)
  BY <1>1, <1>6, DragKept DEF PressDrum, ReleaseDrum, KitInv, BallsOfOpenKit, balls
<1>7. CASE \E b \in 1..MaxBalls : BallOnFloor(b) \/ LifetimeOver(b) \/ \E d \in Drums : BallHits(b, d)
  BY <1>1, <1>7 DEF BallOnFloor, LifetimeOver, BallHits, Destroy, KitInv, KitShape, DragKnown,
                    BallsOfOpenKit, dragging
<1>8. CASE UNCHANGED kitVars
  BY <1>1, <1>8 DEF kitVars, dragging, balls, KitInv, KitShape, DragKnown, BallsOfOpenKit
<1>9. QED
  BY <1>2, <1>3, <1>4, <1>5, <1>6, <1>7, <1>8 DEF KitNext

(***************************************************************************)
(* One drum at most is dragged, it is the one that DrumView knows, and     *)
(* once no finger is down none is, for any drums, fingers and orders of    *)
(* presses, resets and closings; a ball is drawn exactly while it is in    *)
(* the physics world, which no ball outlives (DrumView.js, Drum.js,        *)
(* DropBallEntity.js).                                                     *)
(***************************************************************************)
THEOREM KitStaysInOrder == KitSpec => []KitInOrder
<1>1. KitInit => KitInv
  BY DEF KitInit, KitInv, KitShape, DragKnown, BallsOfOpenKit
<1>2. KitInv => KitInOrder
  BY DEF KitInv, DragKnown, KitInOrder, OneDrag
<1> QED  BY <1>1, <1>2, KitStep, PTL DEF KitSpec
-----------------------------------------------------------------------------
(* Numbers                                                                 *)

\* A finite set of numbers that is not empty has a largest.
LEMMA LargestNat == ASSUME NEW S, S \subseteq Nat, IsFiniteSet(S), S # {} PROVE \E x \in S : \A y \in S : y <= x
<1> DEFINE Above(x) == {y \in S : y > x}
           Aboves == {Above(x) : x \in S}
<1>1. Aboves \subseteq FiniteSubsetsOf(S) /\ Aboves # {}
  <2>1. \A x \in S : Above(x) \in SUBSET S /\ IsFiniteSet(Above(x))
    BY FS_Subset
  <2>2. QED BY <2>1 DEF FiniteSubsetsOf
<1>2. PICK M \in Aboves : \A N \in Aboves : <<N, M>> \notin StrictSubsetOrdering(S)
  <2> HIDE DEF Aboves
  <2>1. QED BY <1>1, WFMin, FS_StrictSubsetOrderingWellFounded
<1>3. PICK x \in S : M = Above(x)
  OBVIOUS
<1>4. ASSUME NEW y \in S, y > x PROVE FALSE
  <2>1. Above(y) \subseteq Above(x) /\ y \in Above(x) /\ y \notin Above(y)
    <3>1. ~(y > y) /\ \A z \in S : z > y => z > x
      BY <1>4
    <3>2. Above(y) \subseteq Above(x)
      BY <3>1
    <3>3. QED BY <1>4, <3>1, <3>2
  <2>2. Above(y) \in Aboves /\ Above(y) \in SUBSET S /\ Above(x) \in SUBSET S
    OBVIOUS
  <2>3. <<Above(y), Above(x)>> \in StrictSubsetOrdering(S)
    BY <2>1, <2>2 DEF StrictSubsetOrdering
  <2>4. QED BY <2>2, <2>3, <1>2, <1>3
<1>5. QED BY <1>4

Increasing(s) == \A i, j \in DOMAIN s : i < j => s[i] < s[j]

\* Every finite set of numbers can be listed in increasing order.
LEMMA Listed ==
  ASSUME NEW S, S \subseteq Nat, IsFiniteSet(S)
  PROVE  \E s \in [1..Cardinality(S) -> S] : Increasing(s)
<1> DEFINE Holds == {n \in Nat : \A T \in SUBSET Nat : IsFiniteSet(T) /\ Cardinality(T) = n =>
                                    \E s \in [1..n -> T] : Increasing(s)}
<1>1. 0 \in Holds
  <2>1. ASSUME NEW T \in SUBSET Nat PROVE \E s \in [1..0 -> T] : Increasing(s)
    <3>1. [i \in 1..0 |-> 0] \in [1..0 -> T] /\ Increasing([i \in 1..0 |-> 0])
      BY DEF Increasing
    <3>2. QED BY <3>1
  <2>2. QED BY <2>1
<1>2. ASSUME NEW n \in Nat, n \in Holds PROVE n + 1 \in Holds
  <2>1. ASSUME NEW T \in SUBSET Nat, IsFiniteSet(T), Cardinality(T) = n + 1
        PROVE  \E s \in [1..(n + 1) -> T] : Increasing(s)
    <3>1. T # {}
      BY <2>1, FS_EmptySet
    <3>2. PICK x \in T : \A y \in T : y <= x
      BY <2>1, <3>1, LargestNat
    <3>3. IsFiniteSet(T \ {x}) /\ Cardinality(T \ {x}) = n
      <4>1. IsFiniteSet(T \ {x}) /\ Cardinality(T \ {x}) = Cardinality(T) - 1
        BY <2>1, <3>2, FS_RemoveElement
      <4>2. QED BY <2>1, <4>1
    <3>4. PICK s \in [1..n -> T \ {x}] : Increasing(s)
      BY <1>2, <3>3
    <3> DEFINE t == [i \in 1..(n + 1) |-> IF i = n + 1 THEN x ELSE s[i]]
    <3>5. t \in [1..(n + 1) -> T]
      <4>1. \A i \in 1..(n + 1) : i # n + 1 => s[i] \in T
        OBVIOUS
      <4>2. QED BY <4>1
    <3>6. Increasing(t)
      <4> SUFFICES ASSUME NEW i \in 1..(n + 1), NEW j \in 1..(n + 1), i < j PROVE t[i] < t[j]
        BY DEF Increasing
      <4>1. i \in 1..n /\ i # n + 1
        OBVIOUS
      <4>2. s[i] \in T \ {x} /\ t[i] = s[i]
        BY <4>1
      <4>3. CASE j = n + 1
        <5>1. t[j] = x /\ s[i] # x /\ s[i] <= x /\ s[i] \in Nat /\ x \in Nat
          BY <3>2, <4>2, <4>3
        <5>2. QED BY <4>2, <5>1
      <4>4. CASE j # n + 1
        BY <3>4, <4>1, <4>2, <4>4 DEF Increasing
      <4>5. QED BY <4>3, <4>4
    <3>7. QED BY <3>5, <3>6
  <2>2. QED BY <2>1
<1>3. Nat \subseteq Holds
  <2> HIDE DEF Holds
  <2>1. QED BY <1>1, <1>2, NatInd
<1>4. Cardinality(S) \in Nat
  BY FS_CardinalityType
<1>5. QED BY <1>3, <1>4

-----------------------------------------------------------------------------
(* Notes are scheduled in time                                             *)

\* LOOK_AHEAD_MS, SCHEDULE_AHEAD_SECONDS and A_16TH_NOTE_DURATION of Sequencer.js.
Timely == Interval <= LookAhead /\ Interval <= NoteLength

\* The first note after a start may be late by as much as a note is long.
Grace == IF first THEN NoteLength ELSE 0

(***************************************************************************)
(* As long as no message has waited: the next note does not start before   *)
(* the tick that the worker's interval, or the one it is about to start,   *)
(* will send; and a tick that was sent comes before the next note.         *)
(***************************************************************************)
InTime ==
    /\ ahead \in Int /\ ahead >= -MaxBehind /\ ticks \in Nat
    /\ first \in BOOLEAN /\ delayed \in BOOLEAN
    /\ \A i \in DOMAIN timers : timers[i] <= Interval
    /\ ~delayed =>
         /\ (\E i \in DOMAIN mailbox : mailbox[i] = "start") => ahead + Grace >= Interval
         /\ ticks = 0 /\ timers # <<>> => ahead + Grace >= timers[1]
         /\ ticks > 0 => ahead + Grace >= 0

\* What onTick schedules is an initial segment of the notes to come, and takes it beyond
\* the look-ahead.
LEMMA UpcomingReaches ==
    ASSUME ahead \in Int, ahead >= -MaxBehind
    PROVE  /\ Upcoming \in Nat /\ ahead + Upcoming * NoteLength >= LookAhead /\ (Upcoming = 0 => ahead >= LookAhead)
           /\ Upcoming > 0 => ahead + Upcoming * NoteLength < LookAhead + NoteLength
<1> DEFINE Beyond == {k \in Nat : ahead + k * NoteLength >= LookAhead}
           last == MaxBehind + LookAhead
<1>1. NoteLength \in Nat \ {0} /\ LookAhead \in Nat /\ MaxBehind \in Nat /\ last \in Nat
  BY AudioEngineAssumption
<1>2. \A k \in Nat : k <= k * NoteLength /\ k * NoteLength \in Nat
  BY <1>1
<1>3. last \in Beyond
  BY <1>1, <1>2
<1>4. PICK u \in Beyond : \A k \in Beyond : u <= k
  <2>1. Beyond \subseteq Nat /\ Beyond # {}
    BY <1>3
  <2> HIDE DEF Beyond
  <2>2. QED BY <2>1, LeastNat
<1>5. u \in Nat /\ u <= last /\ ahead + u * NoteLength >= LookAhead
  BY <1>3, <1>4
<1>6. \A k \in Nat : k < u => ahead + k * NoteLength < LookAhead
  BY <1>1, <1>2, <1>4
<1>7. \A k \in Nat : k >= u => ahead + k * NoteLength >= LookAhead
  <2>1. SUFFICES ASSUME NEW k \in Nat, k >= u PROVE ahead + k * NoteLength >= LookAhead
    OBVIOUS
  <2>2. k - u \in Nat /\ k * NoteLength = u * NoteLength + (k - u) * NoteLength
    BY <1>1, <1>5, <2>1
  <2>3. QED BY <1>1, <1>2, <1>5, <2>2
<1>8. {k \in 0..last : ahead + k * NoteLength < LookAhead} = 0..(u - 1)
  BY <1>1, <1>5, <1>6, <1>7
<1>9. Cardinality(0..(u - 1)) = u
  BY <1>5, FS_Interval
<1>10. Upcoming = u
  BY <1>8, <1>9 DEF Upcoming
<1>11. u > 0 => ahead + u * NoteLength < LookAhead + NoteLength
  <2>1. SUFFICES ASSUME u > 0 PROVE ahead + u * NoteLength < LookAhead + NoteLength
    OBVIOUS
  <2>2. u - 1 \in Nat /\ u * NoteLength = (u - 1) * NoteLength + NoteLength /\ (u - 1) * NoteLength \in Nat
    BY <1>1, <1>2, <1>5, <2>1
  <2>3. ahead + (u - 1) * NoteLength < LookAhead
    BY <1>5, <1>6, <2>1, <2>2
  <2>4. QED BY <1>1, <2>2, <2>3
<1>12. QED BY <1>1, <1>5, <1>10, <1>11

LEMMA InTimeInitially == EngineInit => InTime
<1> SUFFICES ASSUME EngineInit PROVE InTime
  OBVIOUS
<1>1. /\ ahead = 0 /\ first = TRUE /\ delayed = FALSE /\ ticks = 0
      /\ mailbox = <<>> /\ timers = <<>> /\ DOMAIN mailbox = {} /\ DOMAIN timers = {}
  BY DEF EngineInit
<1>2. MaxBehind \in Nat
  BY AudioEngineAssumption
<1>3. ahead \in Int /\ ahead >= -MaxBehind /\ ticks \in Nat
  BY <1>1, <1>2
<1>4. first \in BOOLEAN /\ delayed \in BOOLEAN
  BY <1>1
<1>5. (~ \E i \in DOMAIN mailbox : mailbox[i] = "start") /\ \A i \in DOMAIN timers : timers[i] <= Interval
  BY <1>1
<1>6. ~(ticks > 0)
  BY <1>1
<1>7. QED BY <1>1, <1>3, <1>4, <1>5, <1>6, Zenon DEF InTime

\* A command that is appended leaves those before it.
LEMMA CommandSent ==
    ASSUME EngineInv, NEW c \in Commands
    PROVE  \A i \in DOMAIN Append(mailbox, c) : 
          \/ Append(mailbox, c)[i] = c
          \/ i \in DOMAIN mailbox /\ Append(mailbox, c)[i] = mailbox[i]
BY AppendProperties, LenProperties DEF EngineInv, EngineShape

LEMMA StartsInTime ==
    ASSUME EngineInv, InTime, Timely, Start, UNCHANGED <<worker, ticks>>
    PROVE  InTime'
<1>1. CASE isRunning
  <2>1. UNCHANGED <<mailbox, timers, ticks, ahead, first, delayed>>
    BY <1>1 DEF Start, sequencer, worker
  <2>2. QED BY <2>1 DEF InTime, Grace
<1>2. CASE ~isRunning
  <2>1. ahead' = 0 /\ first' = TRUE /\ delayed' = FALSE /\ Grace' = NoteLength
    BY <1>2 DEF Start, Grace
  <2>2. {NoteLength, Interval} \subseteq Nat \ {0} /\ MaxBehind \in Nat
    BY AudioEngineAssumption
  <2>3. timers # <<>> => timers[1] <= NoteLength
    <3>1. timers # <<>> => 1 \in DOMAIN timers /\ timers[1] \in Nat
      BY LenProperties, EmptySeq, ElementOfSeq DEF EngineInv, EngineShape
    <3>2. QED BY <2>2, <3>1 DEF InTime, Timely
  <2>4. timers' = timers /\ ticks' = ticks
    BY DEF worker
  <2>5. ahead' \in Int /\ ahead' >= -MaxBehind /\ ticks' \in Nat
    BY <2>1, <2>2, <2>4 DEF InTime
  <2>6. first' \in BOOLEAN /\ delayed' \in BOOLEAN
    BY <2>1
  <2>7. ahead' + Grace' = NoteLength /\ NoteLength >= Interval /\ NoteLength >= 0
    BY <2>1, <2>2 DEF Timely
  <2>8. /\ ahead' + Grace' >= Interval /\ ahead' + Grace' >= 0
        /\ timers' # <<>> => ahead' + Grace' >= timers'[1]
    <3>1. timers # <<>> => NoteLength >= timers[1]
      BY <2>3
    <3>2. QED BY <2>4, <2>7, <3>1
  <2>9. \A i \in DOMAIN timers' : timers'[i] <= Interval
    BY <2>4 DEF InTime
  <2>10. QED BY <2>5, <2>6, <2>8, <2>9 DEF InTime
<1>3. QED BY <1>1, <1>2

LEMMA StopsInTime ==
    ASSUME EngineInv, InTime, Stop, UNCHANGED <<worker, ticks, sequencer>>
    PROVE  InTime'
<1>1. (\E i \in DOMAIN mailbox' : mailbox'[i] = "start") => \E i \in DOMAIN mailbox : mailbox[i] = "start"
  BY CommandSent DEF Stop, Commands
<1>2. QED BY <1>1 DEF InTime, Grace, sequencer, worker

LEMMA InTimeStep ==
    ASSUME EngineInv, InTime, Timely, [EngineNext]_engineVars
    PROVE  InTime'
<1>1. CASE Enter
  BY <1>1, StartsInTime DEF Enter, FadeIn
<1>2. CASE Play
  BY <1>2, StartsInTime DEF Play, FadeIn
<1>3. CASE Pause \/ Exit \/ UNCHANGED engineVars
  BY <1>3 DEF Pause, Exit, FadeOut, InTime, Grace, engineVars, worker, sequencer
<1>4. CASE Hide
  BY <1>4, StopsInTime DEF Hide, InTime, Grace, worker, sequencer
<1>5. CASE Show
  BY <1>5, StartsInTime DEF Show, FadeIn, InTime, Grace, worker, sequencer
<1>6. CASE Frame
  BY <1>6, StopsInTime DEF Frame, InTime, Grace, worker, sequencer
<1>7. CASE Command
  <2>1. /\ mailbox # <<>> /\ mailbox' = Tail(mailbox) /\ Head(mailbox) = mailbox[1] /\ 1 \in DOMAIN mailbox
        /\ \A i \in DOMAIN mailbox' : i + 1 \in DOMAIN mailbox /\ mailbox'[i] = mailbox[i + 1]
    BY <1>7, HeadTailProperties, LenProperties, EmptySeq DEF Command, EngineInv, EngineShape
  <2>2. UNCHANGED <<ticks, ahead, first, delayed>> /\ Grace' = Grace
    BY <1>7 DEF Command, sequencer, Grace
  <2>3. (\E i \in DOMAIN mailbox' : mailbox'[i] = "start") => \E i \in DOMAIN mailbox : mailbox[i] = "start"
    BY <2>1
  <2>4. CASE Head(mailbox) = "start"
    <3>1. timers = <<>>
      BY <2>1, <2>4 DEF EngineInv, InTurn
    <3>2. timers' = <<Interval>>
      BY <1>7, <2>4, <3>1 DEF Command
    <3>3. DOMAIN timers' = {1} /\ timers'[1] = Interval /\ Interval \in Nat
      BY <3>2, AudioEngineAssumption
    <3>4. ~delayed => ahead + Grace >= Interval
      BY <2>1, <2>4 DEF InTime
    <3>5. QED BY <2>2, <2>3, <3>3, <3>4 DEF InTime
  <2>5. CASE Head(mailbox) # "start"
    <3>1. Len(timers) = 1 /\ timerID = 1
      BY <2>1, <2>5 DEF EngineInv, InTurn
    <3>2. timers' = [i \in 1..0 |-> timers[IF i < timerID THEN i ELSE i + 1]]
      BY <1>7, <2>5, <3>1 DEF Command
    <3>3. timers' = <<>> /\ DOMAIN timers' = {}
      BY <3>2
    <3>4. QED BY <2>2, <2>3, <3>3 DEF InTime
  <2>6. QED BY <2>4, <2>5
<1>8. CASE Clock
  <2> DEFINE fired == {i \in DOMAIN timers : timers[i] = 1}
  <2>1. /\ DOMAIN timers = 1..Len(timers) /\ Len(timers) \in {0, 1} /\ (timers # <<>> => Len(timers) = 1)
        /\ \A i \in DOMAIN timers : timers[i] \in Nat \ {0} /\ timers[i] <= Interval
    BY LenProperties, ElementOfSeq, EmptySeq DEF EngineInv, EngineShape, InTurn, InTime
  <2>2. Interval \in Nat \ {0} /\ MaxBehind \in Nat
    BY AudioEngineAssumption
  <2>3. /\ timers' = [i \in DOMAIN timers |-> IF i \in fired THEN Interval ELSE timers[i] - 1]
        /\ ticks' = ticks + Cardinality(fired) /\ ahead' = ahead - 1 /\ ahead > -MaxBehind
        /\ delayed' = (delayed \/ ticks > 0 \/ mailbox # <<>>)
        /\ first' = first /\ mailbox' = mailbox /\ Grace' = Grace
    BY <1>8 DEF Clock, Grace
  <2>4. fired \subseteq {1} /\ (fired = {} \/ fired = {1})
    BY <2>1
  <2>5. Cardinality({}) = 0 /\ Cardinality({1}) = 1
    BY FS_EmptySet, FS_Singleton
  <2>6. /\ fired = {} => ticks' = ticks
        /\ fired = {1} => ticks' = ticks + 1
    <3> HIDE DEF fired
    <3>1. ticks \in Nat
      BY DEF InTime
    <3>2. ticks' = ticks + Cardinality(fired)
      BY <2>3
    <3>3. CASE fired = {}
      BY <2>5, <3>1, <3>2, <3>3
    <3>4. CASE fired = {1}
      BY <2>5, <3>1, <3>2, <3>4
    <3>5. QED BY <3>3, <3>4
  <2>7. DOMAIN timers' = DOMAIN timers /\ \A i \in DOMAIN timers' : timers'[i] <= Interval
    BY <2>1, <2>2, <2>3
  <2>8. /\ ahead' \in Int /\ ahead' >= -MaxBehind /\ ticks' \in Nat
        /\ first' \in BOOLEAN /\ delayed' \in BOOLEAN
    BY <2>2, <2>3, <2>4, <2>6 DEF InTime
  <2>9. ASSUME ~delayed' PROVE
          /\ ~ \E i \in DOMAIN mailbox' : mailbox'[i] = "start"
          /\ ticks' = 0 /\ timers' # <<>> => ahead' + Grace' >= timers'[1]
          /\ ticks' > 0 => ahead' + Grace' >= 0
    <3>1. /\ ~delayed /\ ticks = 0 /\ mailbox = <<>> /\ mailbox' = <<>> /\ DOMAIN mailbox' = {}
          /\ Grace \in Int /\ Grace' = Grace /\ ahead \in Int
      <4>0. ~(delayed \/ ticks > 0 \/ mailbox # <<>>)
        BY <2>3, <2>9, Zenon
      <4>1. ~delayed /\ ticks = 0 /\ mailbox = <<>> /\ mailbox' = <<>>
        BY <2>3, <4>0 DEF InTime
      <4>2. NoteLength \in Nat
        BY AudioEngineAssumption
      <4>3. QED BY <2>3, <4>1, <4>2 DEF Grace, InTime
    <3>2. CASE timers = <<>>
      BY <2>3, <2>4, <2>6, <3>1, <3>2
    <3>3. CASE timers # <<>>
      <4>1. DOMAIN timers = {1} /\ ahead + Grace >= timers[1] /\ timers[1] \in Nat \ {0}
        BY <2>1, <3>1, <3>3 DEF InTime
      <4>2. CASE timers[1] = 1
        BY <2>3, <2>6, <3>1, <4>1, <4>2 DEF InTime
      <4>3. CASE timers[1] # 1
        <5>1. fired = {} /\ timers'[1] = timers[1] - 1
          BY <2>3, <4>1, <4>3
        <5>2. QED BY <2>3, <2>6, <3>1, <4>1, <5>1 DEF InTime
      <4>4. QED BY <4>2, <4>3
    <3>4. QED BY <3>2, <3>3
  <2>10. QED BY <2>7, <2>8, <2>9 DEF InTime
<1>9. CASE OnTick
  <2>1. Upcoming \in Nat /\ ahead + Upcoming * NoteLength >= LookAhead /\ (Upcoming = 0 => ahead >= LookAhead)
    BY UpcomingReaches DEF InTime
  <2>2. {NoteLength, Interval} \subseteq Nat \ {0} /\ LookAhead \in Nat /\ MaxBehind \in Nat
    BY AudioEngineAssumption
  <2>3. UNCHANGED <<mailbox, timers, delayed>> /\ ahead' = ahead + Upcoming * NoteLength /\ first' = (first /\ Upcoming = 0)
        /\ ticks' = ticks - 1 /\ ticks > 0
    BY <1>9 DEF OnTick, worker
  <2>4. ahead' \in Int /\ ahead' >= LookAhead /\ ticks' \in Nat /\ Grace' \in Nat
    <3>1. Upcoming * NoteLength \in Int
      BY <2>1, <2>2
    <3>2. QED BY <2>1, <2>2, <2>3, <3>1 DEF InTime, Grace
  <2>5. timers # <<>> => timers[1] \in Nat /\ timers[1] <= Interval
    BY LenProperties, ElementOfSeq, EmptySeq DEF EngineInv, EngineShape, InTime
  <2>6. first' \in BOOLEAN /\ ahead' + Grace' >= Interval /\ ahead' >= -MaxBehind
    BY <2>2, <2>3, <2>4 DEF Timely, InTime
  <2>7. QED BY <2>2, <2>3, <2>4, <2>5, <2>6 DEF InTime
<1>10. QED
  BY <1>1, <1>2, <1>3, <1>4, <1>5, <1>6, <1>7, <1>8, <1>9 DEF EngineNext

(***************************************************************************)
(* With the metronome's period no longer than the look-ahead and than a    *)
(* note, as Sequencer.js sets them: as long as no message is delayed,      *)
(* every note but the first after a start is scheduled before it is due,   *)
(* however pauses, fades and a hidden tab stop and start the metronome.    *)
(***************************************************************************)
THEOREM NotesAreScheduledInTime == Timely => (EngineSpec => ScheduledInTime)
<1> SUFFICES ASSUME Timely PROVE EngineSpec => ScheduledInTime
  OBVIOUS
<1>1. EngineInv /\ InTime /\ [EngineNext]_engineVars =>
        [ticks' < ticks /\ ~delayed /\ Upcoming > 0 => ahead + (IF first THEN NoteLength ELSE 0) >= 0]_engineVars
  <2> SUFFICES ASSUME EngineInv, InTime, [EngineNext]_engineVars, ticks' < ticks, ~delayed
               PROVE  ahead + (IF first THEN NoteLength ELSE 0) >= 0
    OBVIOUS
  <2>1. ticks \in Nat /\ ticks > 0
    <3>1. ticks \in Nat
      BY DEF InTime
    <3>2. CASE Clock
      <4> DEFINE fired == {i \in DOMAIN timers : timers[i] = 1}
      <4>1. ticks' = ticks + Cardinality(fired) /\ fired \subseteq DOMAIN timers
        BY <3>2 DEF Clock
      <4>2. Cardinality(fired) \in Nat
        <5>1. DOMAIN timers = 1..Len(timers) /\ Len(timers) \in Nat
          BY LenProperties DEF EngineInv, EngineShape
        <5>2. IsFiniteSet(fired)
          <6>1. fired \in SUBSET (1..Len(timers)) /\ IsFiniteSet(1..Len(timers))
            BY <5>1, FS_Interval
          <6> HIDE DEF fired
          <6>2. QED BY <6>1, FS_Subset
        <5>3. QED BY <5>2, FS_CardinalityType
      <4>3. QED BY <3>1, <4>1, <4>2
    <3>3. CASE OnTick
      BY <3>1, <3>3 DEF OnTick
    <3>4. CASE ~Clock /\ ~OnTick
      BY <3>1, <3>4 DEF EngineNext, Enter, Pause, Play, Exit, Hide, Show, Frame, Command, engineVars
    <3>5. QED BY <3>1, <3>2, <3>3, <3>4
  <2>2. QED BY <2>1 DEF InTime, Grace
<1>2. EngineInv /\ InTime /\ [EngineNext]_engineVars => InTime'
  BY InTimeStep
<1>3. QED
  BY <1>1, <1>2, EngineInitially, InTimeInitially, EngineStep, PTL DEF EngineSpec, ScheduledInTime

-----------------------------------------------------------------------------
(* The link of a composition                                               *)

\* The schema lists every instrument once.
LEMMA SchemaIs ==
    /\ DOMAIN Schema = 1..Cardinality(Names) /\ Cardinality(Names) \in Nat \ {0}
    /\ \A i \in DOMAIN Schema : Schema[i] \in Names
    /\ \A i, j \in DOMAIN Schema : Schema[i] = Schema[j] => i = j
    /\ \A n \in Names : \E i \in DOMAIN Schema : Schema[i] = n
<1> DEFINE k == Cardinality(Names)
<1>1. k \in Nat /\ k # 0
  BY CompositionAssumption, FS_CardinalityType, FS_EmptySet
<1>2. Schema \in [1..k -> Names] /\ Increasing(Schema)
  <2>1. \E s \in [1..k -> Names] : Increasing(s)
    BY Listed, CompositionAssumption
  <2>2. QED BY <2>1 DEF Increasing, Schema
<1>3. \A i, j \in 1..k : Schema[i] = Schema[j] => i = j
  <2> SUFFICES ASSUME NEW i \in 1..k, NEW j \in 1..k, Schema[i] = Schema[j], i < j PROVE FALSE
    BY <1>1
  <2>1. Schema[i] < Schema[j] /\ Schema[i] \in Nat
    BY <1>2, CompositionAssumption DEF Increasing
  <2>2. QED BY <2>1
<1>4. \A n \in Names : \E i \in 1..k : Schema[i] = n
  <2> DEFINE R == {Schema[i] : i \in 1..k}
  <2>1. Schema \in Injection(1..k, Names)
    BY <1>2, <1>3 DEF Injection, IsInjective
  <2>2. IsFiniteSet(1..k) /\ Cardinality(1..k) = k
    BY <1>1, FS_Interval
  <2>3. Schema \in Surjection(1..k, Names)
    BY <2>1, <2>2, CompositionAssumption, FS_Injection
  <2>4. QED BY <2>3 DEF Surjection
<1>5. QED BY <1>1, <1>2, <1>3, <1>4

-----------------------------------------------------------------------------
(* Links *)

Data == [Names -> Seq(Numbers)]

\* What a number comes back as.
ReadBack(x) == FromRuns(Runs(x))

LEMMA NumberReadBack ==
  ASSUME NEW x \in Numbers
  PROVE  /\ ReadBack(x) \in Numbers /\ Runs(ReadBack(x)) = Runs(x)
         /\ Exact(x) => ReadBack(x) = x
<1>1. x = [int |-> x.int, zeros |-> x.zeros, frac |-> x.frac]
      /\ x.int \in Nat /\ x.frac \in Nat /\ x.zeros \in Nat \union {-1}
  BY DEF Numbers
<1>2. CASE x.zeros = -1
  <2>1. Runs(x) = <<x.int>> /\ Len(Runs(x)) = 1 /\ Runs(x)[1] = x.int
    BY <1>2 DEF Runs
  <2>2. ReadBack(x) = [int |-> x.int, zeros |-> -1, frac |-> 0]
    BY <2>1 DEF ReadBack, FromRuns, Numeral
  <2>3. x.frac = 0
    BY <1>2 DEF Numbers
  <2>4. QED BY <1>1, <1>2, <2>1, <2>2, <2>3
<1>3. CASE x.zeros # -1
  <2>1. Runs(x) = <<x.int, x.frac>> /\ Len(Runs(x)) = 2 /\ Runs(x)[1] = x.int /\ Runs(x)[2] = x.frac
    BY <1>3 DEF Runs
  <2>2. ReadBack(x) = [int |-> x.int, zeros |-> 0, frac |-> x.frac]
    BY <2>1 DEF ReadBack, FromRuns, Fraction
  <2>3. ReadBack(x) \in Numbers
    BY <1>1, <2>2 DEF Numbers
  <2>4. Runs(ReadBack(x)) = Runs(x)
    BY <2>1, <2>2 DEF Runs
  <2>5. Exact(x) => x.zeros = 0
    BY <1>1, <1>3 DEF Exact
  <2>6. QED BY <1>1, <2>2, <2>3, <2>4, <2>5
<1>4. QED BY <1>2, <1>3

\* What the data comes back as.
LEMMA LinkReadBack ==
  ASSUME NEW data \in Data
  PROVE  /\ ToURL(data) # Bad
         /\ Load(ToURL(data)) = [n \in Names |-> [j \in DOMAIN data[n] |-> ReadBack(data[n][j])]]
<1> DEFINE url == ToURL(data)
           read == [i \in DOMAIN url |-> [j \in DOMAIN url[i] |-> FromRuns(url[i][j])]]
<1>1. url = [i \in DOMAIN Schema |-> [j \in DOMAIN data[Schema[i]] |-> Runs(data[Schema[i]][j])]]
  BY DEF ToURL, ToArray
<1>2. url # Bad
  <2>1. 1 \in DOMAIN url /\ DOMAIN Bad = {}
    BY <1>1, SchemaIs DEF Bad
  <2>2. QED BY <2>1
<1>3. \A i \in DOMAIN Schema : read[i] = [j \in DOMAIN data[Schema[i]] |-> ReadBack(data[Schema[i]][j])]
  BY <1>1 DEF ReadBack
<1>4. \A n \in Names : LET i == CHOOSE i \in DOMAIN Schema : Schema[i] = n
                       IN  i \in DOMAIN Schema /\ Schema[i] = n
  BY SchemaIs
<1>5. Load(url) = FromArray(read)
  BY <1>2 DEF Load, LoadFromString
<1> HIDE DEF read
<1>6. FromArray(read) = [n \in Names |-> [j \in DOMAIN data[n] |-> ReadBack(data[n][j])]]
  BY <1>3, <1>4 DEF FromArray
<1>7. QED BY <1>2, <1>5, <1>6

LEMMA LoadIs ==
  ASSUME NEW data \in Data
  PROVE  /\ Load(ToURL(data)) \in Data
         /\ ToURL(Load(ToURL(data))) = ToURL(data)
         /\ AllExact(data) => Load(ToURL(data)) = data
<1> DEFINE back == [n \in Names |-> [j \in DOMAIN data[n] |-> ReadBack(data[n][j])]]
<1>1. \A n \in Names : \A j \in DOMAIN data[n] : data[n][j] \in Numbers
  BY DEF Data
<1>2. \A n \in Names : /\ back[n] \in Seq(Numbers) /\ DOMAIN back[n] = DOMAIN data[n]
                       /\ \A j \in DOMAIN data[n] : Runs(back[n][j]) = Runs(data[n][j])
  <2> TAKE n \in Names
  <2>1. data[n] \in Seq(Numbers)
    BY DEF Data
  <2>2. \A j \in DOMAIN data[n] : ReadBack(data[n][j]) \in Numbers /\ Runs(ReadBack(data[n][j])) = Runs(data[n][j])
    BY <1>1, NumberReadBack
  <2>3. DOMAIN data[n] = 1..Len(data[n]) /\ Len(data[n]) \in Nat
    BY <2>1
  <2>4. back[n] = [j \in 1..Len(data[n]) |-> ReadBack(data[n][j])]
    BY <2>3
  <2>5. QED BY <2>2, <2>3, <2>4
<1>3. back \in Data
  BY <1>2 DEF Data
<1>4. ToURL(back) = ToURL(data)
  <2>1. \A i \in DOMAIN Schema : Schema[i] \in Names
    BY SchemaIs
  <2> HIDE DEF back
  <2>2. \A i \in DOMAIN Schema :
          [j \in DOMAIN back[Schema[i]] |-> Runs(back[Schema[i]][j])] =
          [j \in DOMAIN data[Schema[i]] |-> Runs(data[Schema[i]][j])]
    BY <1>2, <2>1
  <2>3. QED BY <2>2 DEF ToURL, ToArray
<1>5. ASSUME AllExact(data) PROVE back = data
  <2>1. \A n \in Names : \A j \in DOMAIN data[n] : ReadBack(data[n][j]) = data[n][j]
    BY <1>1, <1>5, NumberReadBack DEF AllExact
  <2>2. \A n \in Names : back[n] = data[n]
    <3> TAKE n \in Names
    <3>1. data[n] \in Seq(Numbers)
      BY DEF Data
    <3>2. data[n] = [j \in DOMAIN data[n] |-> data[n][j]]
      BY <3>1
    <3>3. QED BY <2>1, <3>2
  <2>3. data = [n \in Names |-> data[n]]
    BY DEF Data
  <2>4. QED BY <2>2, <2>3
<1> HIDE DEF back
<1>6. Load(ToURL(data)) = back
  BY LinkReadBack DEF back
<1>7. QED BY <1>3, <1>4, <1>5, <1>6

\* The links that there are were written, and the one in the address bar is what was shared.
CompositionInv ==
    /\ instrumentData \in Data
    /\ \E data \in Data : firstLoad = ToURL(data)
    /\ \/ link = Bad /\ sharedData = Nothing
       \/ sharedData \in Data /\ link = ToURL(sharedData)

LEMMA DefaultIsData == Default \in Data /\ Load(Bad) = Default
  BY CompositionAssumption DEF Data, Load

LEMMA CompositionStart == CompositionInit => CompositionInv
  BY DefaultIsData DEF CompositionInit, CompositionInv

LEMMA CompositionStep == ASSUME CompositionInv, [CompositionNext]_compositionVars PROVE CompositionInv'
<1>1. CASE UNCHANGED compositionVars
  BY <1>1 DEF CompositionInv, compositionVars
<1>2. ASSUME NEW n \in Names, Edit(n) PROVE CompositionInv'
  BY <1>2, CompositionAssumption DEF Edit, CompositionInv, Data
<1>3. CASE Share
  BY <1>3 DEF Share, CompositionInv
<1>4. CASE OpenLink
  <2>1. Load(link) \in Data
    BY DefaultIsData, LoadIs DEF CompositionInv
  <2>2. QED BY <1>4, <2>1 DEF OpenLink, CompositionInv
<1>5. CASE ResetData
  <2>1. Load(firstLoad) \in Data
    BY LoadIs DEF CompositionInv
  <2>2. QED BY <1>5, <2>1 DEF ResetData, CompositionInv
<1>6. QED BY <1>1, <1>2, <1>3, <1>4, <1>5 DEF CompositionNext

(***************************************************************************)
(* For any instruments and whatever is played, shared, reset and opened:   *)
(* a link that was shared is read back as it was written, and, if no       *)
(* number in it has a zero right after its point, as what was shared       *)
(* (DataModel.js and StateManager.js).                                     *)
(***************************************************************************)
THEOREM LinksAreExact == CompositionSpec => []LinkIsExact
<1>1. CompositionInv => LinkIsExact
  BY LoadIs DEF CompositionInv, LinkIsExact
<1>2. QED
  BY <1>1, CompositionStart, CompositionStep, PTL DEF CompositionSpec

-----------------------------------------------------------------------------
(* The hexagons                                                            *)

Cubes == {c \in Int \X Int \X Int : c[1] + c[2] + c[3] = 0}

LEMMA CubeIs ==
    ASSUME NEW c \in Cubes
    PROVE  /\ c = <<c[1], c[2], c[3]>> /\ c[1] \in Int /\ c[2] \in Int /\ c[3] \in Int
           /\ c[1] + c[2] + c[3] = 0
BY DEF Cubes

CornersAre(f) ==
    /\ f[0] = <<-1, 0, 1>> /\ f[1] = <<0, -1, 1>> /\ f[2] = <<1, -1, 0>>
    /\ f[3] = <<1, 0, -1>> /\ f[4] = <<0, 1, -1>> /\ f[5] = <<-1, 1, 0>>

LEMMA Corners == CornersAre(Corner)
<1> DEFINE Walk(f) == [side \in 0..6 |->
             IF side = 0 THEN NeighborDeltas[5] ELSE Plus(f[side - 1], NeighborDeltas[side], 1)]
           table == [side \in 0..6 |->
             CASE side = 0 -> <<-1, 0, 1>> [] side = 1 -> <<0, -1, 1>> [] side = 2 -> <<1, -1, 0>>
               [] side = 3 -> <<1, 0, -1>> [] side = 4 -> <<0, 1, -1>> [] side = 5 -> <<-1, 1, 0>>
               [] side = 6 -> <<-1, 0, 1>>]
<1>1. Corner = CHOOSE f : f = Walk(f)
  BY DEF Corner
<1>2. table = Walk(table)
  <2>1. \A side \in 0..6 : table[side] = Walk(table)[side]
    <3>1. SUFFICES ASSUME NEW side \in 0..6 PROVE table[side] = Walk(table)[side]
      OBVIOUS
    <3>2. side = 0 \/ side = 1 \/ side = 2 \/ side = 3 \/ side = 4 \/ side = 5 \/ side = 6
      OBVIOUS
    <3>3. CASE side = 0 BY <3>3 DEF NeighborDeltas, Cube
    <3>4. CASE side = 1 BY <3>4 DEF NeighborDeltas, Cube, Plus
    <3>5. CASE side = 2 BY <3>5 DEF NeighborDeltas, Cube, Plus
    <3>6. CASE side = 3 BY <3>6 DEF NeighborDeltas, Cube, Plus
    <3>7. CASE side = 4 BY <3>7 DEF NeighborDeltas, Cube, Plus
    <3>8. CASE side = 5 BY <3>8 DEF NeighborDeltas, Cube, Plus
    <3>9. CASE side = 6 BY <3>9 DEF NeighborDeltas, Cube, Plus
    <3>10. QED BY <3>2, <3>3, <3>4, <3>5, <3>6, <3>7, <3>8, <3>9
  <2>2. QED BY <2>1
<1> HIDE DEF table
<1>3. Corner = Walk(Corner)
  <2> HIDE DEF Walk
  <2>1. QED BY <1>1, <1>2
<1>4. Corner[0] = <<-1, 0, 1>>
  BY <1>3 DEF NeighborDeltas, Cube
<1>5. Corner[1] = <<0, -1, 1>>
  BY <1>3, <1>4 DEF NeighborDeltas, Cube, Plus
<1>6. Corner[2] = <<1, -1, 0>>
  BY <1>3, <1>5 DEF NeighborDeltas, Cube, Plus
<1>7. Corner[3] = <<1, 0, -1>>
  BY <1>3, <1>6 DEF NeighborDeltas, Cube, Plus
<1>8. Corner[4] = <<0, 1, -1>>
  BY <1>3, <1>7 DEF NeighborDeltas, Cube, Plus
<1>9. Corner[5] = <<-1, 1, 0>>
  BY <1>3, <1>8 DEF NeighborDeltas, Cube, Plus
<1>10. QED BY <1>4, <1>5, <1>6, <1>7, <1>8, <1>9 DEF CornersAre

\* Where the walk around the ring of radius r is: after k steps along a side.
OnSide(side, r, k) ==
    CASE side = 0 -> <<k - r, -k, r>> [] side = 1 -> <<k, -r, r - k>> [] side = 2 -> <<r, k - r, -k>>
      [] side = 3 -> <<r - k, k, -r>> [] side = 4 -> <<-k, r, k - r>> [] side = 5 -> <<-r, r - k, k>>

RingElem(c, r, n) ==
    Plus(Plus(c, Corner[(n - 1) \div r], r), NeighborDeltas[((n - 1) \div r) + 1], (n - 1) % r)

LEMMA RingIs ==
    ASSUME NEW c \in Cubes, NEW r \in Nat \ {0}
    PROVE  /\ DOMAIN Ring(c, r) = 1..(6 * r)
           /\ \A side \in 0..5, k \in 0..(r - 1) :
                /\ side * r + k + 1 \in 1..(6 * r)
                /\ Ring(c, r)[side * r + k + 1] = <<c[1] + OnSide(side, r, k)[1], c[2] + OnSide(side, r, k)[2],
                                                    c[3] + OnSide(side, r, k)[3]>>
           /\ \A n \in 1..(6 * r) : \E side \in 0..5, k \in 0..(r - 1) : n = side * r + k + 1
<1>1. Ring(c, r) = [n \in 1..(6 * r) |-> RingElem(c, r, n)]
  BY DEF Ring, RingElem
<1>2. ASSUME NEW side \in 0..5, NEW k \in 0..(r - 1)
      PROVE  /\ side * r + k + 1 \in 1..(6 * r)
             /\ (side * r + k) \div r = side /\ (side * r + k) % r = k
  <2>1. side = 0 \/ side = 1 \/ side = 2 \/ side = 3 \/ side = 4 \/ side = 5
    OBVIOUS
  <2>2. /\ (side * r + k) \div r = side /\ (side * r + k) % r = k
    OBVIOUS
  <2>3. side * r + k + 1 \in 1..(6 * r)
    BY <2>1
  <2>4. QED BY <2>2, <2>3
<1>3. ASSUME NEW side \in 0..5, NEW k \in 0..(r - 1)
      PROVE  RingElem(c, r, side * r + k + 1) = <<c[1] + OnSide(side, r, k)[1], c[2] + OnSide(side, r, k)[2],
                                        c[3] + OnSide(side, r, k)[3]>>
  <2>1. RingElem(c, r, side * r + k + 1) = Plus(Plus(c, Corner[side], r), NeighborDeltas[side + 1], k)
    <3> DEFINE m == side * r + k
    <3>1. (m + 1) - 1 = m /\ m \div r = side /\ m % r = k
      BY <1>2
    <3> HIDE DEF m
    <3>2. ((m + 1) - 1) \div r = side /\ ((m + 1) - 1) % r = k
      BY <3>1, Zenon
    <3>4. RingElem(c, r, m + 1) = Plus(Plus(c, Corner[side], r), NeighborDeltas[side + 1], k)
      BY <3>2, Zenon DEF RingElem
    <3>3. QED BY <3>4 DEF m
  <2>2. c[1] \in Int /\ c[2] \in Int /\ c[3] \in Int
    BY CubeIs
  <2>3. CASE side = 0 BY <2>1, <2>2, <2>3, Corners DEF CornersAre, OnSide, Plus, NeighborDeltas, Cube
  <2>4. CASE side = 1 BY <2>1, <2>2, <2>4, Corners DEF CornersAre, OnSide, Plus, NeighborDeltas, Cube
  <2>5. CASE side = 2 BY <2>1, <2>2, <2>5, Corners DEF CornersAre, OnSide, Plus, NeighborDeltas, Cube
  <2>6. CASE side = 3 BY <2>1, <2>2, <2>6, Corners DEF CornersAre, OnSide, Plus, NeighborDeltas, Cube
  <2>7. CASE side = 4 BY <2>1, <2>2, <2>7, Corners DEF CornersAre, OnSide, Plus, NeighborDeltas, Cube
  <2>8. CASE side = 5 BY <2>1, <2>2, <2>8, Corners DEF CornersAre, OnSide, Plus, NeighborDeltas, Cube
  <2>9. QED BY <2>3, <2>4, <2>5, <2>6, <2>7, <2>8
<1>4. ASSUME NEW n \in 1..(6 * r) PROVE \E side \in 0..5, k \in 0..(r - 1) : n = side * r + k + 1
  <2>1. CASE n <= r
    <3>1. n = 0 * r + (n - 1) + 1 /\ n - 1 \in 0..(r - 1)
      BY <2>1
    <3>2. QED BY <3>1
  <2>2. CASE r < n /\ n <= 2 * r
    <3>1. n = 1 * r + (n - 1 - r) + 1 /\ n - 1 - r \in 0..(r - 1)
      BY <2>2
    <3>2. QED BY <3>1
  <2>3. CASE 2 * r < n /\ n <= 3 * r
    <3>1. n = 2 * r + (n - 1 - 2 * r) + 1 /\ n - 1 - 2 * r \in 0..(r - 1)
      BY <2>3
    <3>2. QED BY <3>1
  <2>4. CASE 3 * r < n /\ n <= 4 * r
    <3>1. n = 3 * r + (n - 1 - 3 * r) + 1 /\ n - 1 - 3 * r \in 0..(r - 1)
      BY <2>4
    <3>2. QED BY <3>1
  <2>5. CASE 4 * r < n /\ n <= 5 * r
    <3>1. n = 4 * r + (n - 1 - 4 * r) + 1 /\ n - 1 - 4 * r \in 0..(r - 1)
      BY <2>5
    <3>2. QED BY <3>1
  <2>6. CASE 5 * r < n
    <3>1. n = 5 * r + (n - 1 - 5 * r) + 1 /\ n - 1 - 5 * r \in 0..(r - 1)
      BY <2>6
    <3>2. QED BY <3>1
  <2>7. QED BY <2>1, <2>2, <2>3, <2>4, <2>5, <2>6
<1>5. QED
  <2>1. QED BY <1>1, <1>2, <1>3, <1>4

\* The same, told by x, y and z.
CornerOf(side, r, k, x, y, z) ==
    \/ side = 0 /\ z = r /\ y = -k
    \/ side = 1 /\ y = -r /\ x = k
    \/ side = 2 /\ x = r /\ z = -k
    \/ side = 3 /\ z = -r /\ y = k
    \/ side = 4 /\ y = r /\ x = -k
    \/ side = 5 /\ x = -r /\ z = k

LEMMA SideCorner ==
    ASSUME NEW r \in Nat, NEW side \in 0..5, NEW k \in 0..(r - 1), NEW x, NEW y, NEW z,
           x = OnSide(side, r, k)[1], y = OnSide(side, r, k)[2], z = OnSide(side, r, k)[3]
    PROVE  CornerOf(side, r, k, x, y, z)
<1>1. side = 0 \/ side = 1 \/ side = 2 \/ side = 3 \/ side = 4 \/ side = 5
  OBVIOUS
<1>2. CASE side = 0
  <2>1. OnSide(side, r, k) = <<k - r, -k, r>>
    BY <1>2 DEF OnSide
  <2>2. QED BY <1>2, <2>1 DEF CornerOf
<1>3. CASE side = 1
  <2>1. OnSide(side, r, k) = <<k, -r, r - k>>
    BY <1>3 DEF OnSide
  <2>2. QED BY <1>3, <2>1 DEF CornerOf
<1>4. CASE side = 2
  <2>1. OnSide(side, r, k) = <<r, k - r, -k>>
    BY <1>4 DEF OnSide
  <2>2. QED BY <1>4, <2>1 DEF CornerOf
<1>5. CASE side = 3
  <2>1. OnSide(side, r, k) = <<r - k, k, -r>>
    BY <1>5 DEF OnSide
  <2>2. QED BY <1>5, <2>1 DEF CornerOf
<1>6. CASE side = 4
  <2>1. OnSide(side, r, k) = <<-k, r, k - r>>
    BY <1>6 DEF OnSide
  <2>2. QED BY <1>6, <2>1 DEF CornerOf
<1>7. CASE side = 5
  <2>1. OnSide(side, r, k) = <<-r, r - k, k>>
    BY <1>7 DEF OnSide
  <2>2. QED BY <1>7, <2>1 DEF CornerOf
<1>8. QED BY <1>1, <1>2, <1>3, <1>4, <1>5, <1>6, <1>7

Plain(x) == IF x < 0 THEN -x ELSE x

\* How far apart two cubes are.
Distant(c, d, r) ==
    /\ Plain(d[1] - c[1]) <= r /\ Plain(d[2] - c[2]) <= r /\ Plain(d[3] - c[3]) <= r
    /\ r \in {Plain(d[1] - c[1]), Plain(d[2] - c[2]), Plain(d[3] - c[3])}

\* A ring has each cube that is so far away, once, and no other.
LEMMA RingHas ==
    ASSUME NEW c \in Cubes, NEW d \in Cubes, NEW r \in Nat
    PROVE  /\ Distant(c, d, r) => \E n \in DOMAIN Ring(c, r) : Ring(c, r)[n] = d
           /\ \A n \in DOMAIN Ring(c, r) : Ring(c, r)[n] = d => Distant(c, d, r)
           /\ \A m, n \in DOMAIN Ring(c, r) : Ring(c, r)[m] = d /\ Ring(c, r)[n] = d => m = n
<1> DEFINE x == d[1] - c[1]
           y == d[2] - c[2]
           z == d[3] - c[3]
<1>1. /\ x \in Int /\ y \in Int /\ z \in Int /\ x + y + z = 0
      /\ c = <<c[1], c[2], c[3]>> /\ d = <<d[1], d[2], d[3]>>
      /\ c[1] \in Int /\ c[2] \in Int /\ c[3] \in Int
      /\ d[1] = c[1] + x /\ d[2] = c[2] + y /\ d[3] = c[3] + z
  BY CubeIs
<1>2. Distant(c, d, r) <=> /\ Plain(x) <= r /\ Plain(y) <= r /\ Plain(z) <= r
                           /\ r = Plain(x) \/ r = Plain(y) \/ r = Plain(z)
  BY DEF Distant
<1>3. \A i, j, k \in Int : d = <<c[1] + i, c[2] + j, c[3] + k>> <=> x = i /\ y = j /\ z = k
  BY <1>1
<1> HIDE DEF x, y, z
<1>4. CASE r = 0
  <2>1. Ring(c, r) = <<c>>
    BY <1>4 DEF Ring
  <2>2. DOMAIN Ring(c, r) = {1} /\ Ring(c, r)[1] = c
    BY <2>1
  <2>3. c = d <=> x = 0 /\ y = 0 /\ z = 0
    <3>1. c = <<c[1] + 0, c[2] + 0, c[3] + 0>>
      BY <1>1
    <3>2. QED BY <1>3, <3>1
  <2>4. Distant(c, d, r) <=> x = 0 /\ y = 0 /\ z = 0
    <3>1. Plain(x) <= 0 <=> x = 0
      BY <1>1 DEF Plain
    <3>2. Plain(y) <= 0 <=> y = 0
      BY <1>1 DEF Plain
    <3>3. Plain(z) <= 0 <=> z = 0
      BY <1>1 DEF Plain
    <3>4. Plain(0) = 0
      BY DEF Plain
    <3>5. QED BY <1>2, <1>4, <3>1, <3>2, <3>3, <3>4
  <2>5. QED BY <2>2, <2>3, <2>4
<1>5. CASE r # 0
  <2> DEFINE nth(side, k) == side * r + k + 1
             is(side, k) == /\ x = OnSide(side, r, k)[1] /\ y = OnSide(side, r, k)[2]
                            /\ z = OnSide(side, r, k)[3]
  <2>1. /\ DOMAIN Ring(c, r) = 1..(6 * r)
        /\ \A side \in 0..5, k \in 0..(r - 1) :
             /\ nth(side, k) \in 1..(6 * r)
             /\ Ring(c, r)[nth(side, k)] = <<c[1] + OnSide(side, r, k)[1], c[2] + OnSide(side, r, k)[2],
                                            c[3] + OnSide(side, r, k)[3]>>
        /\ \A n \in 1..(6 * r) : \E side \in 0..5, k \in 0..(r - 1) : n = nth(side, k)
    BY <1>5, RingIs
  <2>2. \A side \in 0..5, k \in 0..(r - 1) :
           OnSide(side, r, k)[1] \in Int /\ OnSide(side, r, k)[2] \in Int /\ OnSide(side, r, k)[3] \in Int
    BY DEF OnSide
  <2>3. \A side \in 0..5, k \in 0..(r - 1) : Ring(c, r)[nth(side, k)] = d <=> is(side, k)
    <3>1. SUFFICES ASSUME NEW side \in 0..5, NEW k \in 0..(r - 1)
                   PROVE  Ring(c, r)[nth(side, k)] = d <=> is(side, k)
      OBVIOUS
    <3> DEFINE o == OnSide(side, r, k)
    <3>2. o[1] \in Int /\ o[2] \in Int /\ o[3] \in Int
      BY <2>2
    <3>3. Ring(c, r)[nth(side, k)] = <<c[1] + o[1], c[2] + o[2], c[3] + o[3]>>
      BY <2>1
    <3> HIDE DEF o, nth
    <3>4. QED BY <1>3, <3>2, <3>3 DEF o
  <2>4. Distant(c, d, r) => \E side \in 0..5, k \in 0..(r - 1) : is(side, k)
    <3>1. SUFFICES ASSUME Distant(c, d, r) PROVE \E side \in 0..5, k \in 0..(r - 1) : is(side, k)
      OBVIOUS
    <3>2. /\ -r <= x /\ x <= r /\ -r <= y /\ y <= r /\ -r <= z /\ z <= r
          /\ x = r \/ x = -r \/ y = r \/ y = -r \/ z = r \/ z = -r
      BY <1>1, <1>2, <3>1 DEF Plain
    <3>3. CASE z = r /\ y # -r
      <4>1. (-y) \in 0..(r - 1)
        BY <1>1, <1>5, <3>2, <3>3
      <4>2. is(0, (-y))
        BY <1>1, <1>5, <3>2, <3>3 DEF OnSide
      <4>3. QED BY <4>1, <4>2
    <3>4. CASE y = -r /\ x # r
      <4>1. x \in 0..(r - 1)
        BY <1>1, <1>5, <3>2, <3>4
      <4>2. is(1, x)
        BY <1>1, <1>5, <3>2, <3>4 DEF OnSide
      <4>3. QED BY <4>1, <4>2
    <3>5. CASE x = r /\ z # -r
      <4>1. (-z) \in 0..(r - 1)
        BY <1>1, <1>5, <3>2, <3>5
      <4>2. is(2, (-z))
        BY <1>1, <1>5, <3>2, <3>5 DEF OnSide
      <4>3. QED BY <4>1, <4>2
    <3>6. CASE z = -r /\ y # r
      <4>1. y \in 0..(r - 1)
        BY <1>1, <1>5, <3>2, <3>6
      <4>2. is(3, y)
        BY <1>1, <1>5, <3>2, <3>6 DEF OnSide
      <4>3. QED BY <4>1, <4>2
    <3>7. CASE y = r /\ x # -r
      <4>1. (-x) \in 0..(r - 1)
        BY <1>1, <1>5, <3>2, <3>7
      <4>2. is(4, (-x))
        BY <1>1, <1>5, <3>2, <3>7 DEF OnSide
      <4>3. QED BY <4>1, <4>2
    <3>8. CASE x = -r /\ z # r
      <4>1. z \in 0..(r - 1)
        BY <1>1, <1>5, <3>2, <3>8
      <4>2. is(5, z)
        BY <1>1, <1>5, <3>2, <3>8 DEF OnSide
      <4>3. QED BY <4>1, <4>2
    <3>9. QED BY <1>1, <1>5, <3>2, <3>3, <3>4, <3>5, <3>6, <3>7, <3>8
  <2>5. \A side \in 0..5, k \in 0..(r - 1) : is(side, k) => Distant(c, d, r)
    <3>1. SUFFICES ASSUME NEW side \in 0..5, NEW k \in 0..(r - 1), is(side, k) PROVE Distant(c, d, r)
      OBVIOUS
    <3>2. side = 0 \/ side = 1 \/ side = 2 \/ side = 3 \/ side = 4 \/ side = 5
      OBVIOUS
    <3>3. Plain(x) <= r /\ Plain(y) <= r /\ Plain(z) <= r
      BY <1>5, <3>1, <3>2 DEF Plain, OnSide
    <3>4. r = Plain(x) \/ r = Plain(y) \/ r = Plain(z)
      BY <1>5, <3>1, <3>2 DEF Plain, OnSide
    <3>5. QED BY <1>2, <3>3, <3>4
  <2>6. ASSUME NEW side \in 0..5, NEW p \in 0..5, NEW k \in 0..(r - 1), NEW l \in 0..(r - 1),
               is(side, k), is(p, l)
        PROVE  side = p /\ k = l
    <3>1. CornerOf(side, r, k, x, y, z) /\ CornerOf(p, r, l, x, y, z)
      BY <1>5, <2>6, SideCorner
    <3>2. side = p
      BY <1>1, <1>5, <3>1 DEF CornerOf
    <3>3. k = l
      BY <1>1, <1>5, <3>1, <3>2 DEF CornerOf
    <3>4. QED BY <3>2, <3>3
  <2> HIDE DEF nth, is
  <2>7. Distant(c, d, r) => \E n \in DOMAIN Ring(c, r) : Ring(c, r)[n] = d
    BY <2>1, <2>3, <2>4, Zenon
  <2>8. ASSUME NEW n \in DOMAIN Ring(c, r), Ring(c, r)[n] = d PROVE Distant(c, d, r)
    BY <2>1, <2>3, <2>5, <2>8, Zenon
  <2>9. ASSUME NEW m \in DOMAIN Ring(c, r), NEW n \in DOMAIN Ring(c, r), Ring(c, r)[m] = d, Ring(c, r)[n] = d
        PROVE  m = n
    <3>1. PICK side \in 0..5, k \in 0..(r - 1) : m = nth(side, k)
      BY <2>1, Zenon
    <3>2. PICK p \in 0..5, l \in 0..(r - 1) : n = nth(p, l)
      BY <2>1, Zenon
    <3>3. is(side, k) /\ is(p, l)
      BY <2>3, <2>9, <3>1, <3>2, Zenon
    <3>4. side = p /\ k = l
      BY <2>6, <3>3, Zenon
    <3>5. QED BY <3>1, <3>2, <3>4, Zenon
  <2>10. QED BY <2>7, <2>8, <2>9, Zenon
<1>6. QED BY <1>4, <1>5

LEMMA IsApart ==
    ASSUME NEW c \in Cubes, NEW d \in Cubes
    PROVE  /\ \E n \in Nat : Distant(c, d, n)
           /\ \A m, n \in Nat : Distant(c, d, m) /\ Distant(c, d, n) => m = n
<1> DEFINE x == Plain(d[1] - c[1])
           y == Plain(d[2] - c[2])
           z == Plain(d[3] - c[3])
<1>1. x \in Nat /\ y \in Nat /\ z \in Nat
  <2>1. \A i \in Int : Plain(i) \in Nat
    BY DEF Plain
  <2>2. d[1] - c[1] \in Int /\ d[2] - c[2] \in Int /\ d[3] - c[3] \in Int
    BY CubeIs
  <2>3. QED BY <2>1, <2>2
<1>2. \A n : Distant(c, d, n) <=> x <= n /\ y <= n /\ z <= n /\ n \in {x, y, z}
  BY DEF Distant
<1> HIDE DEF x, y, z
<1>3. \E n \in Nat : Distant(c, d, n)
  <2>1. CASE y <= x /\ z <= x BY <1>1, <1>2, <2>1
  <2>2. CASE x <= y /\ z <= y BY <1>1, <1>2, <2>2
  <2>3. CASE x <= z /\ y <= z BY <1>1, <1>2, <2>3
  <2>4. QED BY <1>1, <2>1, <2>2, <2>3
<1>4. ASSUME NEW m \in Nat, NEW n \in Nat, Distant(c, d, m), Distant(c, d, n) PROVE m = n
  <2>1. /\ x <= m /\ y <= m /\ z <= m /\ (m = x \/ m = y \/ m = z)
        /\ x <= n /\ y <= n /\ z <= n /\ (n = x \/ n = y \/ n = z)
    BY <1>2, <1>4
  <2>2. QED BY <1>1, <2>1
<1>5. QED BY <1>3, <1>4

Half(q) == (q + (q % 2)) \div 2

LEMMA HalfIs == ASSUME NEW q \in Int PROVE Half(q) \in Int /\ (2 * Half(q) = q \/ 2 * Half(q) = q + 1)
BY DEF Half

LEMMA CellIs ==
    ASSUME NEW row \in Int, NEW col \in Int
    PROVE  /\ EvenQToCube(row, col) = <<col, Half(col) - row - col, row - Half(col)>>
           /\ EvenQToCube(row, col) \in Cubes /\ RowColumn(EvenQToCube(row, col)) = <<row, col>>
<1>1. EvenQToCube(row, col) = <<col, (-col) - (row - Half(col)), row - Half(col)>>
  BY DEF EvenQToCube, Cube, Half
<1>2. Half(col) \in Int
  BY HalfIs
<1>3. (-col) - (row - Half(col)) = Half(col) - row - col
  BY <1>2
<1>4. EvenQToCube(row, col) = <<col, Half(col) - row - col, row - Half(col)>>
  BY <1>1, <1>3
<1>5. EvenQToCube(row, col) \in Cubes
  BY <1>2, <1>4 DEF Cubes
<1>6. RowColumn(EvenQToCube(row, col)) = <<row - Half(col) + Half(col), col>>
  BY <1>4 DEF RowColumn, Half
<1>7. row - Half(col) + Half(col) = row
  BY <1>2
<1>8. QED BY <1>4, <1>5, <1>6, <1>7

LEMMA PlainIs ==
    ASSUME NEW i \in Int, NEW n \in Nat
    PROVE  /\ (Plain(i) <= n) <=> (-n <= i /\ i <= n)
           /\ (Plain(i) = n) <=> (n = i \/ n = -i)
<1>1. CASE i < 0
  <2>1. Plain(i) = -i
    BY <1>1 DEF Plain
  <2>2. (-i <= n) <=> (-n <= i /\ i <= n)
    BY <1>1
  <2>3. (-i = n) <=> (n = i \/ n = -i)
    BY <1>1
  <2>4. QED BY <2>1, <2>2, <2>3, Zenon
<1>2. CASE ~(i < 0)
  <2>1. Plain(i) = i
    BY <1>2 DEF Plain
  <2>2. (i <= n) <=> (-n <= i /\ i <= n)
    BY <1>2
  <2>3. (i = n) <=> (n = i \/ n = -i)
    BY <1>2
  <2>4. QED BY <2>1, <2>2, <2>3, Zenon
<1>3. QED BY <1>1, <1>2

\* How far two hexagons are apart, by row and column.
LEMMA PlacesApart ==
    ASSUME NEW r0 \in Int, NEW q0 \in Int, NEW r1 \in Int, NEW q1 \in Int, NEW n \in Nat
    PROVE  LET x == q1 - q0
               z == (r1 - Half(q1)) - (r0 - Half(q0))
           IN  Distant(EvenQToCube(r0, q0), EvenQToCube(r1, q1), n) <=>
                 /\ -n <= x /\ x <= n /\ -n <= x + z /\ x + z <= n /\ -n <= z /\ z <= n
                 /\ n = x \/ n = -x \/ n = x + z \/ n = -(x + z) \/ n = z \/ n = -z
<1> DEFINE c == EvenQToCube(r0, q0)
           d == EvenQToCube(r1, q1)
           x == q1 - q0
           z == (r1 - Half(q1)) - (r0 - Half(q0))
<1>1. Half(q0) \in Int /\ Half(q1) \in Int
  BY HalfIs
<1>2. /\ c[1] = q0 /\ c[2] = Half(q0) - r0 - q0 /\ c[3] = r0 - Half(q0)
      /\ d[1] = q1 /\ d[2] = Half(q1) - r1 - q1 /\ d[3] = r1 - Half(q1)
  BY CellIs
<1>3. d[1] - c[1] = x /\ d[2] - c[2] = -(x + z) /\ d[3] - c[3] = z /\ x \in Int /\ z \in Int
  BY <1>1, <1>2
<1>a. x \in Int /\ z \in Int
  BY <1>3
<1> HIDE DEF x, z
<1>5. Distant(c, d, n) <=> /\ Plain(x) <= n /\ Plain(-(x + z)) <= n /\ Plain(z) <= n
                           /\ Plain(x) = n \/ Plain(-(x + z)) = n \/ Plain(z) = n
  BY <1>3 DEF Distant
<1> HIDE DEF c, d
<1>6. (Plain(x) <= n) <=> (-n <= x /\ x <= n)
  BY <1>a, PlainIs, Zenon
<1>7. (Plain(z) <= n) <=> (-n <= z /\ z <= n)
  BY <1>a, PlainIs, Zenon
<1>8. (Plain(-(x + z)) <= n) <=> (-n <= x + z /\ x + z <= n)
  <2>1. -(x + z) \in Int /\ ((-n <= -(x + z) /\ -(x + z) <= n) <=> (-n <= x + z /\ x + z <= n))
    BY <1>a
  <2>2. QED BY PlainIs, <2>1, Zenon
<1>9. (Plain(x) = n) <=> (n = x \/ n = -x)
  BY <1>a, PlainIs, Zenon
<1>10. (Plain(z) = n) <=> (n = z \/ n = -z)
  BY <1>a, PlainIs, Zenon
<1>11. (Plain(-(x + z)) = n) <=> (n = x + z \/ n = -(x + z))
  <2>1. -(x + z) \in Int /\ -(-(x + z)) = x + z
    BY <1>a
  <2>2. QED BY PlainIs, <2>1, Zenon
<1>12. QED BY <1>5, <1>6, <1>7, <1>8, <1>9, <1>10, <1>11 DEF c, d, x, z

LEMMA InGrid ==
    ASSUME NEW rows \in Nat, NEW cols \in Nat
    PROVE  /\ \A row, col \in Int :
                -rows <= row /\ row <= rows /\ -cols <= col /\ col <= cols => EvenQToCube(row, col) \in Grid(rows, cols)
           /\ \A c \in Grid(rows, cols) : \E row, col \in Int :
                -rows <= row /\ row <= rows /\ -cols <= col /\ col <= cols /\ c = EvenQToCube(row, col)
<1>1. ASSUME NEW row \in Int, NEW col \in Int, -rows <= row, row <= rows, -cols <= col, col <= cols
      PROVE  EvenQToCube(row, col) \in Grid(rows, cols)
  <2>1. row \in -rows..rows /\ col \in -cols..cols
    BY <1>1
  <2>2. QED BY <2>1 DEF Grid
<1>2. ASSUME NEW c \in Grid(rows, cols)
      PROVE  \E row, col \in Int :
                -rows <= row /\ row <= rows /\ -cols <= col /\ col <= cols /\ c = EvenQToCube(row, col)
  <2>1. PICK row \in -rows..rows, col \in -cols..cols : c = EvenQToCube(row, col)
    BY DEF Grid
  <2>2. row \in Int /\ col \in Int /\ -rows <= row /\ row <= rows /\ -cols <= col /\ col <= cols
    OBVIOUS
  <2>3. QED BY <2>1, <2>2, Zenon
<1>3. QED BY <1>1, <1>2, Zenon

\* Between two hexagons of the grid there is one on each ring: along the row of the
\* first to the column of the second, then along that column.
LEMMA Between ==
    ASSUME NEW rows \in Nat, NEW cols \in Nat, NEW c \in Grid(rows, cols), NEW d \in Grid(rows, cols),
           NEW n \in Nat, Distant(c, d, n), NEW r \in Nat, r <= n
    PROVE  \E e \in Grid(rows, cols) : Distant(c, e, r)
<1>1. PICK r0 \in Int, q0 \in Int :
         -rows <= r0 /\ r0 <= rows /\ -cols <= q0 /\ q0 <= cols /\ c = EvenQToCube(r0, q0)
  BY InGrid, Zenon
<1>2. PICK r1 \in Int, q1 \in Int :
         -rows <= r1 /\ r1 <= rows /\ -cols <= q1 /\ q1 <= cols /\ d = EvenQToCube(r1, q1)
  BY InGrid, Zenon
<1>3. ASSUME NEW row \in Int, NEW col \in Int, -rows <= row, row <= rows, -cols <= col, col <= cols,
             Distant(c, EvenQToCube(row, col), r)
      PROVE  \E e \in Grid(rows, cols) : Distant(c, e, r)
  <2>1. EvenQToCube(row, col) \in Grid(rows, cols)
    BY <1>3, InGrid, Zenon
  <2>2. QED BY <1>3, <2>1, Zenon
<1> DEFINE z(row, col) == (row - Half(col)) - (r0 - Half(q0))
<1>4. \A row, col \in Int, m \in Nat :
         Distant(c, EvenQToCube(row, col), m) <=>
           /\ -m <= col - q0 /\ col - q0 <= m /\ -m <= (col - q0) + z(row, col) /\ (col - q0) + z(row, col) <= m
           /\ -m <= z(row, col) /\ z(row, col) <= m
           /\ \/ m = col - q0 \/ m = -(col - q0) \/ m = (col - q0) + z(row, col)
              \/ m = -((col - q0) + z(row, col)) \/ m = z(row, col) \/ m = -z(row, col)
  BY <1>1, PlacesApart
<1>5. Half(q0) \in Int /\ (2 * Half(q0) = q0 \/ 2 * Half(q0) = q0 + 1)
  BY HalfIs
<1>6. CASE r <= q1 - q0
  <2>1. q0 + r \in Int /\ -cols <= q0 + r /\ q0 + r <= cols
    BY <1>1, <1>2, <1>6
  <2>2. Half(q0 + r) \in Int /\ (2 * Half(q0 + r) = q0 + r \/ 2 * Half(q0 + r) = q0 + r + 1)
    BY <2>1, HalfIs
  <2>3. z(r0, q0 + r) \in Int /\ -r <= z(r0, q0 + r) /\ z(r0, q0 + r) <= 0
    BY <1>5, <2>2
  <2>4. (q0 + r) - q0 = r
    OBVIOUS
  <2> HIDE DEF z
  <2>5. Distant(c, EvenQToCube(r0, q0 + r), r)
    <3>1. /\ -r <= r /\ r <= r /\ -r <= r + z(r0, q0 + r) /\ r + z(r0, q0 + r) <= r
          /\ -r <= z(r0, q0 + r) /\ z(r0, q0 + r) <= r
      BY <2>3
    <3>2. QED BY <1>4, <2>1, <2>4, <3>1
  <2>6. QED BY <1>1, <1>3, <2>1, <2>5
<1>7. CASE r <= q0 - q1
  <2>1. q0 - r \in Int /\ -cols <= q0 - r /\ q0 - r <= cols
    BY <1>1, <1>2, <1>7
  <2>2. Half(q0 - r) \in Int /\ (2 * Half(q0 - r) = q0 - r \/ 2 * Half(q0 - r) = (q0 - r) + 1)
    BY <2>1, HalfIs
  <2>3. z(r0, q0 - r) \in Int /\ 0 <= z(r0, q0 - r) /\ z(r0, q0 - r) <= r
    BY <1>5, <2>2
  <2>4. (q0 - r) - q0 = -r
    OBVIOUS
  <2> HIDE DEF z
  <2>5. Distant(c, EvenQToCube(r0, q0 - r), r)
    <3>1. /\ -r <= -r /\ -r <= r /\ -r <= -r + z(r0, q0 - r) /\ -r + z(r0, q0 - r) <= r
          /\ -r <= z(r0, q0 - r) /\ z(r0, q0 - r) <= r /\ r = -(-r)
      BY <2>3
    <3>2. QED BY <1>4, <2>1, <2>4, <3>1
  <2>6. QED BY <1>1, <1>3, <2>1, <2>5
<1>8. CASE q1 - q0 < r /\ q0 - q1 < r
  <2> DEFINE x == q1 - q0
             w == z(r1, q1)
  <2>1. Half(q1) \in Int /\ (2 * Half(q1) = q1 \/ 2 * Half(q1) = q1 + 1)
    BY HalfIs
  <2>2. x \in Int /\ w \in Int /\ x < r /\ -x < r
    BY <1>5, <1>8, <2>1
  <2>3. /\ -n <= x /\ x <= n /\ -n <= x + w /\ x + w <= n /\ -n <= w /\ w <= n
        /\ \/ n = x \/ n = -x \/ n = x + w \/ n = -(x + w) \/ n = w \/ n = -w
    BY <1>2, <1>4
  <2>4. \A t \in Int : (r1 + (t - w)) \in Int /\ z(r1 + (t - w), q1) = t
    BY <1>5, <2>1
  <2>5. w = (r1 - Half(q1)) - (r0 - Half(q0))
    OBVIOUS
  <2> HIDE DEF w, z
  \* The hexagon of that column that is t below the first, if it is between the two rows.
  <2>6. ASSUME NEW t \in Int, -rows <= r1 + (t - w), r1 + (t - w) <= rows,
               -r <= x + t, x + t <= r, -r <= t, t <= r,
               r = x + t \/ r = -(x + t) \/ r = t \/ r = -t
        PROVE  \E e \in Grid(rows, cols) : Distant(c, e, r)
    <3>1. Distant(c, EvenQToCube(r1 + (t - w), q1), r)
      <4>1. -r <= x /\ x <= r
        BY <2>2
      <4>2. (r1 + (t - w)) \in Int /\ z(r1 + (t - w), q1) = t
        BY <2>4
      <4>3. /\ -r <= q1 - q0 /\ q1 - q0 <= r /\ -r <= (q1 - q0) + t /\ (q1 - q0) + t <= r
            /\ r = (q1 - q0) + t \/ r = -((q1 - q0) + t) \/ r = t \/ r = -t
        BY <2>6, <4>1, Zenon
      <4> DEFINE row == r1 + (t - w)
      <4>4. row \in Int /\ z(row, q1) = t
        BY <4>2
      <4> HIDE DEF row
      <4>5. Distant(c, EvenQToCube(row, q1), r)
        BY <1>4, <2>6, <4>3, <4>4
      <4>6. QED BY <4>5 DEF row
    <3>2. (r1 + (t - w)) \in Int
      BY <2>4
    <3>3. QED BY <1>2, <1>3, <2>6, <3>1, <3>2
  <2>7. CASE x >= 0 /\ w >= 0
    <3>1. n = x + w
      BY <2>2, <2>3, <2>7
    <3>2. -rows <= r1 + ((r - x) - w) /\ r1 + ((r - x) - w) <= rows
      BY <1>1, <1>2, <1>5, <2>1, <2>2, <2>5, <2>7, <3>1
    <3>3. r - x \in Int /\ -r <= x + (r - x) /\ x + (r - x) <= r /\ -r <= r - x /\ r - x <= r /\ r = x + (r - x)
      BY <2>2, <2>7
    <3>4. QED BY <2>6, <3>2, <3>3
  <2>8. CASE x >= 0 /\ w < 0
    <3>1. n = -w /\ x + w <= 0
      BY <2>2, <2>3, <2>8
    <3>2. -rows <= r1 + ((-r) - w) /\ r1 + ((-r) - w) <= rows
      BY <1>1, <1>2, <1>5, <2>1, <2>2, <2>5, <2>8, <3>1
    <3>3. -r \in Int /\ -r <= x + (-r) /\ x + (-r) <= r /\ -r <= -r /\ -r <= r /\ r = -(-r)
      BY <2>2, <2>8
    <3>4. QED BY <2>6, <3>2, <3>3
  <2>9. CASE x < 0 /\ w <= 0
    <3>1. n = -(x + w)
      BY <2>2, <2>3, <2>9
    <3>2. -rows <= r1 + ((-(r + x)) - w) /\ r1 + ((-(r + x)) - w) <= rows
      BY <1>1, <1>2, <1>5, <2>1, <2>2, <2>5, <2>9, <3>1
    <3>3. /\ -(r + x) \in Int /\ -r <= x + (-(r + x)) /\ x + (-(r + x)) <= r
          /\ -r <= -(r + x) /\ -(r + x) <= r /\ r = -(x + (-(r + x)))
      BY <2>2, <2>9
    <3>4. QED BY <2>6, <3>2, <3>3
  <2>10. CASE x < 0 /\ w > 0
    <3>1. n = w /\ x + w >= 0
      BY <2>2, <2>3, <2>10
    <3>2. -rows <= r1 + (r - w) /\ r1 + (r - w) <= rows
      BY <1>1, <1>2, <1>5, <2>1, <2>2, <2>5, <2>10, <3>1
    <3>3. -r <= x + r /\ x + r <= r /\ -r <= r /\ r <= r /\ r \in Int
      BY <2>2, <2>10
    <3>4. QED BY <2>6, <3>2, <3>3
  <2>11. QED BY <2>2, <2>7, <2>8, <2>9, <2>10
<1>9. QED BY <1>6, <1>7, <1>8

\* No two hexagons are further apart than the last ring that may be asked for.
LEMMA AllInReach ==
    ASSUME NEW rows \in Nat, NEW cols \in Nat, NEW c \in Grid(rows, cols), NEW d \in Grid(rows, cols),
           NEW n \in Nat, Distant(c, d, n)
    PROVE  n <= 2 * (rows + cols)
<1>1. PICK r0 \in Int, q0 \in Int :
         -rows <= r0 /\ r0 <= rows /\ -cols <= q0 /\ q0 <= cols /\ c = EvenQToCube(r0, q0)
  BY InGrid, Zenon
<1>2. PICK r1 \in Int, q1 \in Int :
         -rows <= r1 /\ r1 <= rows /\ -cols <= q1 /\ q1 <= cols /\ d = EvenQToCube(r1, q1)
  BY InGrid, Zenon
<1> DEFINE x == q1 - q0
           z == (r1 - Half(q1)) - (r0 - Half(q0))
<1>3. n = x \/ n = -x \/ n = x + z \/ n = -(x + z) \/ n = z \/ n = -z
  BY <1>1, <1>2, PlacesApart
<1>4. /\ Half(q0) \in Int /\ (2 * Half(q0) = q0 \/ 2 * Half(q0) = q0 + 1)
      /\ Half(q1) \in Int /\ (2 * Half(q1) = q1 \/ 2 * Half(q1) = q1 + 1)
  BY HalfIs
<1>5. QED BY <1>1, <1>2, <1>3, <1>4

GridNow == \E rows \in 0..MaxRows, cols \in 0..MaxCols : hexagons = Grid(rows, cols)

LEMMA GridCubes ==
    ASSUME NEW rows \in Nat, NEW cols \in Nat
    PROVE  Grid(rows, cols) \subseteq Cubes
<1>1. SUFFICES ASSUME NEW c \in Grid(rows, cols) PROVE c \in Cubes
  OBVIOUS
<1>2. PICK row \in Int, col \in Int : c = EvenQToCube(row, col)
  BY InGrid, Zenon
<1>3. QED BY <1>2, CellIs, Zenon

LEMMA DrawableIs ==
    ASSUME GridNow, NEW center \in Cubes, NEW r \in Nat
    PROVE  Drawable(center, r) <=> \E e \in hexagons : Distant(center, e, r)
<1>1. hexagons \subseteq Cubes
  BY GridCubes, HexWaveAssumption DEF GridNow
<1>2. ASSUME Drawable(center, r) PROVE \E e \in hexagons : Distant(center, e, r)
  <2>1. PICK i \in DOMAIN Ring(center, r) : Ring(center, r)[i] \in hexagons
    BY <1>2, Zenon DEF Drawable
  <2>2. Distant(center, Ring(center, r)[i], r)
    BY <1>1, <2>1, RingHas, Zenon
  <2>3. QED BY <2>1, <2>2, Zenon
<1>3. ASSUME NEW e \in hexagons, Distant(center, e, r) PROVE Drawable(center, r)
  <2>1. PICK i \in DOMAIN Ring(center, r) : Ring(center, r)[i] = e
    BY <1>1, <1>3, RingHas, Zenon
  <2>2. QED BY <2>1, Zenon DEF Drawable
<1>4. QED BY <1>2, <1>3, Zenon

LEMMA ActivatedIs ==
    ASSUME GridNow, NEW center \in Cubes
    PROVE  /\ DOMAIN Activated(center) = hexagons
           /\ \A c \in hexagons : Activated(center)[c] = IF center \in hexagons THEN 1 ELSE 0
<1> DEFINE most == 2 * (MaxRows + MaxCols) + 1
           fits(r) == ~Drawable(center, r) /\ \A q \in 0..(r - 1) : Drawable(center, q)
           last == LastRing(center)
<1>1. hexagons \subseteq Cubes /\ most \in Nat
  BY GridCubes, HexWaveAssumption DEF GridNow
<1>2. PICK rows \in 0..MaxRows, cols \in 0..MaxCols : hexagons = Grid(rows, cols)
  BY DEF GridNow
<1>3. rows \in Nat /\ cols \in Nat /\ 2 * (rows + cols) < most
  BY HexWaveAssumption
<1>4. \A n \in Nat : Drawable(center, n) <=> \E e \in hexagons : Distant(center, e, n)
  BY DrawableIs
<1>5. last = CHOOSE r \in 0..most : fits(r)
  BY DEF LastRing
<1> HIDE DEF most
<1>6. Distant(center, center, 0) /\ \A e \in Cubes : Distant(center, e, 0) => e = center
  <2>1. Ring(center, 0) = <<center>>
    BY DEF Ring
  <2>2. DOMAIN Ring(center, 0) = {1} /\ Ring(center, 0)[1] = center
    BY <2>1
  <2>3. 0 \in Nat
    OBVIOUS
  <2>4. Distant(center, center, 0)
    BY <2>2, <2>3, RingHas
  <2>5. ASSUME NEW e \in Cubes, Distant(center, e, 0) PROVE e = center
    <3>1. PICK n \in DOMAIN Ring(center, 0) : Ring(center, 0)[n] = e
      BY <2>3, <2>5, RingHas
    <3>2. QED BY <2>2, <3>1
  <2>6. QED BY <2>4, <2>5
<1>7. fits(last) /\ last \in 0..most
  <2>1. ~Drawable(center, most) \/ ~Drawable(center, 0)
    <3>1. CASE center \in hexagons
      <4>1. ASSUME NEW e \in hexagons, Distant(center, e, most) PROVE FALSE
        <5>1. most <= 2 * (rows + cols)
          BY <1>1, <1>2, <1>3, <3>1, <4>1, AllInReach
        <5>2. QED BY <1>1, <1>3, <5>1
      <4>2. QED BY <1>1, <1>4, <4>1
    <3>2. CASE center \notin hexagons
      BY <1>1, <1>4, <1>6, <3>2
    <3>3. QED BY <3>1, <3>2
  <2> DEFINE T == {r \in Nat : ~Drawable(center, r)}
  <2>2. T \subseteq Nat /\ T # {} /\ (0 \in T \/ most \in T)
    BY <1>1, <2>1
  <2>3. PICK r \in T : \A q \in T : r <= q
    BY <2>2, LeastNat
  <2>4. r \in 0..most
    BY <1>1, <2>2, <2>3
  <2>5. fits(r)
    BY <2>3
  <2> HIDE DEF fits
  <2>6. QED BY <1>5, <2>4, <2>5
<1>8. \A c \in hexagons : Activated(center)[c] = Cardinality(Lightings(center, c))
  BY DEF Activated
<1>9. DOMAIN Activated(center) = hexagons
  BY DEF Activated
<1>10. ASSUME NEW c \in hexagons, center \in hexagons PROVE Cardinality(Lightings(center, c)) = 1
  <2>1. PICK n \in Nat : Distant(center, c, n)
    BY <1>1, IsApart
  <2>2. n < last
    <3>1. \A r \in Nat : r <= n => Drawable(center, r)
      BY <1>2, <1>3, <1>4, <1>10, <2>1, Between
    <3>2. ~Drawable(center, last) /\ last \in Nat
      BY <1>1, <1>7
    <3> HIDE DEF last
    <3>3. QED BY <3>1, <3>2
  <2>3. PICK i \in DOMAIN Ring(center, n) : Ring(center, n)[i] = c
    BY <1>1, <2>1, RingHas
  <2>4. n \in 0..last /\ i \in 1..(6 * last + 1)
    <3>1. last \in Nat
      BY <1>1, <1>7
    <3> HIDE DEF last
    <3>2. DOMAIN Ring(center, n) = IF n = 0 THEN {1} ELSE 1..(6 * n)
      <4>1. CASE n = 0 BY <4>1 DEF Ring
      <4>2. CASE n # 0 BY <2>1, <4>2, RingIs
      <4>3. QED BY <4>1, <4>2
    <3>3. QED BY <2>1, <2>2, <2>3, <3>1, <3>2
  <2>5. <<n, i>> \in Lightings(center, c)
    BY <2>3, <2>4 DEF Lightings
  <2>6. ASSUME NEW p \in Lightings(center, c) PROVE p = <<n, i>>
    <3>1. /\ p = <<p[1], p[2]>> /\ p[1] \in 0..last
          /\ p[2] \in DOMAIN Ring(center, p[1]) /\ Ring(center, p[1])[p[2]] = c
      BY DEF Lightings
    <3>2. p[1] \in Nat
      BY <3>1
    <3>3. Distant(center, c, p[1])
      BY <1>1, <3>1, <3>2, RingHas
    <3>4. p[1] = n
      BY <1>1, <2>1, <3>2, <3>3, IsApart
    <3>5. p[2] = i
      BY <1>1, <2>1, <2>3, <3>1, <3>4, RingHas
    <3>6. QED BY <3>1, <3>4, <3>5
  <2>7. Lightings(center, c) = {<<n, i>>}
    BY <2>5, <2>6
  <2>8. QED BY <2>7, FS_Singleton
<1>11. ASSUME NEW c \in hexagons, center \notin hexagons PROVE Cardinality(Lightings(center, c)) = 0
  <2>1. ~Drawable(center, 0)
    BY <1>1, <1>4, <1>6, <1>11
  <2>2. last = 0
    <3>1. last \in Nat /\ (0 \in 0..(last - 1) => Drawable(center, 0))
      BY <1>1, <1>7
    <3> HIDE DEF last
    <3>2. QED BY <2>1, <3>1
  <2>3. ASSUME NEW p \in Lightings(center, c) PROVE FALSE
    <3>1. /\ p[1] \in 0..last /\ p[2] \in DOMAIN Ring(center, p[1]) /\ Ring(center, p[1])[p[2]] = c
      BY DEF Lightings
    <3>2. p[1] = 0
      BY <2>2, <3>1
    <3>3. QED BY <1>11, <2>1, <3>1, <3>2 DEF Drawable
  <2>4. Lightings(center, c) = {}
    BY <2>3
  <2>5. QED BY <2>4, FS_EmptySet
<1>12. QED BY <1>8, <1>9, <1>10, <1>11

HexInv ==
    /\ GridNow
    /\ played # <<>> => \A c \in hexagons : lit[c] = IF played \in hexagons THEN 1 ELSE 0

LEMMA EverywhereCubes == Everywhere \subseteq Cubes
BY GridCubes, HexWaveAssumption DEF Everywhere


LEMMA WaveKeeps ==
    ASSUME HexInv, NEW center \in Cubes, Wave(center)
    PROVE  HexInv'
<1>1. lit' = Activated(center) /\ played' = center /\ hexagons' = hexagons
  BY DEF Wave
<1>2. GridNow
  BY DEF HexInv
<1>3. \A c \in hexagons : Activated(center)[c] = IF center \in hexagons THEN 1 ELSE 0
  BY <1>2, ActivatedIs, Zenon
<1>4. GridNow'
  BY <1>1, <1>2, Zenon DEF GridNow
<1>5. \A c \in hexagons' : lit'[c] = IF played' \in hexagons' THEN 1 ELSE 0
  BY <1>1, <1>3, Zenon
<1>6. QED BY <1>4, <1>5, Zenon DEF HexInv

LEMMA HexSteps ==
    ASSUME HexInv, [HexNext]_hexVars
    PROVE  HexInv'
<1>1. hexagons \subseteq Cubes
  BY GridCubes, HexWaveAssumption DEF HexInv, GridNow
<1>2. CASE PlayOne BY WaveKeeps, <1>1, <1>2 DEF PlayOne
<1>3. CASE PlayKey
  <2>1. PICK key \in -2..2 : Wave(EvenQToCube(0, key))
    BY <1>3 DEF PlayKey
  <2>2. EvenQToCube(0, key) \in Cubes
    BY CellIs
  <2>3. QED BY WaveKeeps, <2>1, <2>2
<1>4. CASE Playback BY WaveKeeps, <1>4, EverywhereCubes DEF Playback
<1>5. CASE Listen BY <1>5, Zenon DEF Listen, HexInv, GridNow
<1>6. CASE Resize BY <1>6, Zenon DEF Resize, HexInv, GridNow
<1>7. CASE UNCHANGED hexVars BY <1>7, Zenon DEF hexVars, HexInv, GridNow
<1>8. QED BY <1>2, <1>3, <1>4, <1>5, <1>6, <1>7 DEF HexNext

LEMMA HexReaches == HexInv => WaveReachesAll
<1>1. SUFFICES ASSUME HexInv, NEW c \in hexagons
               PROVE  /\ EvenQToCube(RowColumn(c)[1], RowColumn(c)[2]) = c
                      /\ c[1] + c[2] + c[3] = 0 /\ SoundForPos(c) \in 1..5
  BY Zenon DEF HexInv, WaveReachesAll
<1>2. PICK row \in Int, col \in Int : c = EvenQToCube(row, col)
  <2>1. PICK rows \in 0..MaxRows, cols \in 0..MaxCols : hexagons = Grid(rows, cols)
    BY <1>1 DEF HexInv, GridNow
  <2>2. rows \in Nat /\ cols \in Nat
    BY HexWaveAssumption
  <2>3. QED BY <1>1, <2>1, <2>2, InGrid, Zenon
<1>3. c \in Cubes /\ RowColumn(c) = <<row, col>>
  BY <1>2, CellIs
<1>4. RowColumn(c)[1] = row /\ RowColumn(c)[2] = col
  BY <1>3
<1>5. SoundForPos(c) = 5 - (IF col - 2 >= 0 THEN (col - 2) % 5 ELSE (-(col - 2)) % 5)
  BY <1>4 DEF SoundForPos
<1>6. SoundForPos(c) \in 1..5
  BY <1>5
<1>7. QED BY <1>2, <1>3, <1>4, <1>6, CubeIs

-----------------------------------------------------------------------------
(* The strings of the guitar                                               *)

\* Ascending lists each member of a finite set of numbers once.
LEMMA AscendingIs ==
    ASSUME NEW S, S \subseteq Nat, IsFiniteSet(S)
    PROVE  /\ DOMAIN Ascending(S) = 1..Cardinality(S) /\ Cardinality(S) \in Nat
           /\ \A k \in DOMAIN Ascending(S) : Ascending(S)[k] \in S
           /\ \A k, l \in DOMAIN Ascending(S) : Ascending(S)[k] = Ascending(S)[l] => k = l
           /\ \A i \in S : \E k \in DOMAIN Ascending(S) : Ascending(S)[k] = i
<1> DEFINE upto(i) == {j \in S : j <= i}
           rank(i) == Cardinality(upto(i))
           f == Ascending(S)
<1>1. f = [k \in 1..Cardinality(S) |-> CHOOSE i \in S : rank(i) = k]
  BY DEF Ascending
<1>2. Cardinality(S) \in Nat
  BY FS_CardinalityType
<1>3. \A i : /\ IsFiniteSet(upto(i)) /\ rank(i) \in Nat /\ rank(i) <= Cardinality(S)
             /\ upto(i) \subseteq S
  <2>1. ASSUME NEW i
        PROVE  /\ IsFiniteSet(upto(i)) /\ rank(i) \in Nat /\ rank(i) <= Cardinality(S)
               /\ upto(i) \subseteq S
    <3>1. upto(i) \in SUBSET S
      OBVIOUS
    <3> HIDE DEF upto
    <3>2. QED BY <3>1, FS_Subset, FS_CardinalityType
  <2>2. QED BY <2>1
<1> HIDE DEF rank
<1> DEFINE T == {n \in Nat : n = 0 \/ Cardinality(S) < n \/ \E i \in S : rank(i) = n}
<1>4. ASSUME NEW n \in Nat, n \in T PROVE n + 1 \in T
  <2>1. SUFFICES ASSUME n + 1 <= Cardinality(S) PROVE \E i \in S : rank(i) = n + 1
    BY <1>2
  <2>2. PICK U \in SUBSET S : /\ IsFiniteSet(U) /\ Cardinality(U) = n
                              /\ \A u \in U, s \in S \ U : u < s
    <3>1. CASE n = 0
      BY <3>1, FS_EmptySet
    <3>2. CASE n # 0
      <4>1. PICK i \in S : rank(i) = n
        BY <1>2, <1>4, <2>1, <3>2
      <4>2. \A u \in upto(i), s \in S \ upto(i) : u < s
        OBVIOUS
      <4>3. upto(i) \in SUBSET S /\ IsFiniteSet(upto(i)) /\ Cardinality(upto(i)) = n
        BY <1>3, <4>1 DEF rank
      <4> HIDE DEF upto
      <4>4. QED BY <4>2, <4>3
    <3>3. QED BY <3>1, <3>2
  <2>3. S \ U # {}
    <3>1. S = U => FALSE
      BY <1>2, <2>1, <2>2
    <3>2. QED BY <2>2, <3>1
  <2>4. PICK i \in S \ U : \A s \in S \ U : i <= s
    <3>1. S \ U \subseteq Nat
      OBVIOUS
    <3>2. QED BY <2>3, <3>1, LeastNat
  <2>5. upto(i) = U \union {i}
    <3>1. \A j \in S : j <= i <=> j \in U \union {i}
      BY <2>2, <2>4
    <3>2. QED BY <2>2, <2>4, <3>1
  <2>6. Cardinality(U \union {i}) = n + 1
    BY <2>2, <2>4, FS_AddElement
  <2> HIDE DEF upto
  <2>7. QED BY <2>4, <2>5, <2>6 DEF rank
<1>5. \A k \in 1..Cardinality(S) : \E i \in S : rank(i) = k
  <2>1. 0 \in T
    OBVIOUS
  <2>2. Nat \subseteq T
    <3> HIDE DEF T
    <3>1. QED BY <1>4, <2>1, NatInd
  <2>3. QED BY <1>2, <2>2
<1> HIDE DEF f, T
<1>6. DOMAIN f = 1..Cardinality(S)
  BY <1>1
<1>7. \A k \in DOMAIN f : f[k] \in S /\ rank(f[k]) = k
  BY <1>1, <1>5
<1>8. ASSUME NEW i \in S PROVE \E k \in DOMAIN f : f[k] = i
  <2>1. i \in upto(i)
    OBVIOUS
  <2>2. rank(i) # 0
    <3>1. IsFiniteSet(upto(i))
      BY <1>3
    <3> HIDE DEF upto
    <3>2. QED BY <2>1, <3>1, FS_EmptySet DEF rank
  <2>3. rank(i) \in 1..Cardinality(S)
    <3>1. rank(i) \in Nat /\ rank(i) <= Cardinality(S)
      BY <1>3
    <3>2. QED BY <1>2, <2>2, <3>1
  <2>4. f[rank(i)] \in S /\ rank(f[rank(i)]) = rank(i)
    BY <1>6, <1>7, <2>3
  <2>5. ASSUME NEW a \in S, NEW b \in S, rank(a) = rank(b), a < b PROVE FALSE
    <3>1. upto(a) \in SUBSET upto(b) /\ b \in upto(b) /\ b \notin upto(a)
      <4>1. a \in Nat /\ b \in Nat /\ \A j \in S : j \in Nat
        OBVIOUS
      <4>2. \A j \in S : j <= a => j <= b
        BY <2>5, <4>1
      <4>3. b <= b /\ ~(b <= a)
        BY <2>5, <4>1
      <4>4. QED BY <4>2, <4>3
    <3>2. IsFiniteSet(upto(b))
      BY <1>3
    <3> HIDE DEF upto
    <3>3. upto(a) = upto(b)
      BY <2>5, <3>1, <3>2, FS_Subset DEF rank
    <3>4. QED BY <3>1, <3>3
  <2>6. f[rank(i)] = i
    <3>1. \A a, b \in S : a < b \/ b < a \/ a = b
      OBVIOUS
    <3>2. QED BY <2>4, <2>5, <3>1
  <2>7. QED BY <1>6, <2>3, <2>6
<1>9. QED BY <1>2, <1>6, <1>7, <1>8 DEF f

\* What RemoveFromPool leaves of a pool whose gone differ.
LEMMA LeftInPool ==
    ASSUME NEW E, NEW n \in Nat, NEW pool \in [1..n -> E], NEW gone,
           \A i, j \in 1..n : pool[i] = pool[j] => i = j
    PROVE  LET left == RemoveFromPool(pool, gone) IN
           /\ left \in Seq(E)
           /\ \A k \in DOMAIN left : left[k] \in E \ gone /\ \E i \in 1..n : left[k] = pool[i]
           /\ \A k, l \in DOMAIN left : left[k] = left[l] => k = l
           /\ \A i \in 1..n : pool[i] \notin gone => \E k \in DOMAIN left : left[k] = pool[i]
<1> DEFINE isFirst(i) == \A j \in 1..(i - 1) : pool[j] # pool[i]
           S == {i \in DOMAIN pool : ~(pool[i] \in gone /\ isFirst(i))}
           kept == Ascending(S)
           left == [k \in DOMAIN kept |-> pool[kept[k]]]
<1>1. RemoveFromPool(pool, gone) = left
  BY DEF RemoveFromPool
<1>2. \A i \in 1..n : isFirst(i)
  <2>1. ASSUME NEW i \in 1..n, NEW j \in 1..(i - 1) PROVE j \in 1..n /\ j # i
    OBVIOUS
  <2>2. QED BY <2>1
<1> HIDE DEF isFirst
<1>3. \A i : i \in S <=> i \in 1..n /\ pool[i] \notin gone
  BY <1>2
<1> HIDE DEF S
<1>4. S \subseteq Nat /\ IsFiniteSet(S)
  <2>1. S \in SUBSET (1..n)
    BY <1>3
  <2>2. IsFiniteSet(1..n)
    BY FS_Interval
  <2>3. IsFiniteSet(S)
    BY <2>1, <2>2, FS_Subset
  <2>4. QED BY <2>1, <2>3
<1>5. /\ DOMAIN kept = 1..Cardinality(S) /\ Cardinality(S) \in Nat
      /\ \A k \in DOMAIN kept : kept[k] \in S
      /\ \A k, l \in DOMAIN kept : kept[k] = kept[l] => k = l
      /\ \A i \in S : \E k \in DOMAIN kept : kept[k] = i
  BY <1>4, AscendingIs
<1> HIDE DEF kept
<1>6. DOMAIN left = DOMAIN kept /\ \A k \in DOMAIN kept : left[k] = pool[kept[k]] /\ kept[k] \in 1..n /\ left[k] \in E \ gone
  BY <1>3, <1>5
<1>7. left \in [1..Cardinality(S) -> E]
  BY <1>5, <1>6
<1> HIDE DEF left
<1>8. left \in Seq(E)
  BY <1>5, <1>7
<1>9. \A k, l \in DOMAIN left : left[k] = left[l] => k = l
  BY <1>5, <1>6
<1>10. ASSUME NEW i \in 1..n, pool[i] \notin gone PROVE \E k \in DOMAIN left : left[k] = pool[i]
  BY <1>3, <1>5, <1>6, <1>10
<1>11. \A k \in DOMAIN left : left[k] \in E \ gone /\ \E i \in 1..n : left[k] = pool[i]
  BY <1>6
<1>12. QED BY <1>1, <1>8, <1>9, <1>10, <1>11

PoolEntries == [pid : Nat, text : BOOLEAN]

GuitarTypes ==
    /\ {isDrawing, isUndrawing} \subseteq BOOLEAN
    /\ getString \in [GridDots -> Nat \union {NoPid}]
    /\ DOMAIN guitarStrings \subseteq Nat /\ guitarStrings \in [DOMAIN guitarStrings -> Int \X Int]
    /\ pidPool \in Seq(PoolEntries)

BeingDrawn == IF isDrawing \/ isUndrawing THEN {currentDrawingPid} ELSE {}
On(p) == {d \in GridDots : getString[d] = p}

\* Each string is on its dots, and the dots know it.
StringsOnDots ==
    /\ ~clash /\ ~(isDrawing /\ isUndrawing) /\ BeingDrawn \subseteq DOMAIN guitarStrings
    /\ \A p \in DOMAIN guitarStrings :
         LET ends == guitarStrings[p] IN
         ends[1] # ends[2] /\ On(p) = IF p \in BeingDrawn THEN {ends[1]} ELSE {ends[1], ends[2]}
    /\ \A d \in GridDots : ~Free(d) => getString[d] \in DOMAIN guitarStrings

\* The pool has each pid of the grid that no string has, once, and no pid of a string.
PoolIsRest ==
    /\ \A i \in DOMAIN pidPool :
         /\ pidPool[i].pid \notin DOMAIN guitarStrings /\ pidPool[i].text = FALSE
         /\ \A j \in DOMAIN pidPool : pidPool[i] = pidPool[j] => i = j
    /\ \A n \in 0..(MaxStrings - 1) :
         n \in DOMAIN guitarStrings \/ \E i \in DOMAIN pidPool : pidPool[i].pid = n

GuitarInv == reloads \in Nat /\ (reloads = 0 => GuitarTypes /\ StringsOnDots /\ PoolIsRest)

LEMMA GridIs == /\ GridDots \subseteq Nat /\ IsFiniteSet(GridDots) /\ Cardinality(GridDots) = GridCount
                /\ MaxStrings \in Nat /\ GridCount <= 2 * MaxStrings /\ GridCount \in Nat
<1>1. GridCount \in Nat /\ GridCount # 0
  BY GuitarStringsAssumption
<1>2. IsFiniteSet(GridDots) /\ Cardinality(GridDots) = GridCount
  BY <1>1, FS_Interval DEF GridDots
<1>3. MaxStrings \in Nat /\ GridCount <= 2 * MaxStrings
  BY <1>1 DEF MaxStrings
<1>4. QED BY <1>1, <1>2, <1>3 DEF GridDots

LEMMA LoadedPool ==
    LET pool == PoolOfLoad(<<>>) IN
    /\ pool \in Seq(PoolEntries)
    /\ \A i \in DOMAIN pool :
         /\ pool[i].pid \notin StoredPids /\ pool[i].text = FALSE
         /\ \A j \in DOMAIN pool : pool[i] = pool[j] => i = j
    /\ \A n \in 0..(MaxStrings - 1) : n \in StoredPids \/ \E i \in DOMAIN pool : pool[i].pid = n
<1> DEFINE fresh == [i \in 1..MaxStrings |-> Number(i - 1)]
           gone == {Number(p) : p \in StoredPids}
           pool == PoolOfLoad(<<>>)
           Fresh == {e \in PoolEntries : e.text = FALSE}
<1>1. fresh \in Seq(Fresh) /\ fresh \in [1..MaxStrings -> Fresh] /\ MaxStrings \in Nat
  BY GridIs DEF Number, PoolEntries
<1>2. <<>> \o fresh = fresh
  <2> HIDE DEF fresh
  <2>1. QED BY <1>1
<1>3. pool = RemoveFromPool(fresh, gone)
  BY <1>2 DEF PoolOfLoad
<1>4. \A i \in 1..MaxStrings : fresh[i].pid = i - 1
  BY DEF Number
<1>5. \A i, j \in 1..MaxStrings : fresh[i] = fresh[j] => i = j
  <2>1. ASSUME NEW i \in 1..MaxStrings, NEW j \in 1..MaxStrings, i - 1 = j - 1 PROVE i = j
    BY <2>1
  <2> HIDE DEF fresh
  <2>2. QED BY <1>4, <2>1
<1>6. \A e \in Fresh : e \notin gone => e.pid \notin StoredPids
  BY DEF PoolEntries, Number
<1>7. \A i \in 1..MaxStrings : fresh[i].pid \notin StoredPids => fresh[i] \notin gone
  BY DEF Number
<1> HIDE DEF fresh, gone, pool, Fresh
<1>8. /\ pool \in Seq(Fresh)
      /\ \A k \in DOMAIN pool : pool[k] \in Fresh \ gone
      /\ \A k, l \in DOMAIN pool : pool[k] = pool[l] => k = l
      /\ \A i \in 1..MaxStrings : fresh[i] \notin gone => \E k \in DOMAIN pool : pool[k] = fresh[i]
  BY <1>1, <1>3, <1>5, LeftInPool
<1>9. pool \in Seq(PoolEntries)
  <2>1. Fresh \subseteq PoolEntries
    BY DEF Fresh
  <2>2. QED BY <1>8, <2>1
<1>10. ASSUME NEW i \in DOMAIN pool PROVE pool[i].pid \notin StoredPids /\ pool[i].text = FALSE
  <2>1. pool[i].text = FALSE
    BY <1>8 DEF Fresh
  <2>2. QED BY <1>6, <1>8, <2>1
<1>11. ASSUME NEW n \in 0..(MaxStrings - 1), n \notin StoredPids PROVE \E i \in DOMAIN pool : pool[i].pid = n
  <2>1. n + 1 \in 1..MaxStrings /\ (n + 1) - 1 = n
    BY <1>1
  <2>2. fresh[n + 1].pid = n
    BY <1>4, <2>1
  <2>3. QED BY <1>7, <1>8, <1>11, <2>1, <2>2
<1>12. QED BY <1>8, <1>9, <1>10, <1>11 DEF pool

LEMMA GuitarStarts == GuitarInit => GuitarInv
<1> SUFFICES ASSUME GuitarInit PROVE GuitarTypes /\ StringsOnDots /\ PoolIsRest /\ reloads \in Nat
  BY DEF GuitarInv
<1>1. /\ isDrawing = FALSE /\ isUndrawing = FALSE /\ clash = FALSE /\ reloads = 0
      /\ getString = StoredOn /\ guitarStrings = StoredEnds /\ pidPool = PoolOfLoad(<<>>)
  BY DEF GuitarInit
<1>2. /\ \A s \in StoredStrings : s.pid \in Nat /\ s.pointA # s.pointB /\ {s.pointA, s.pointB} \subseteq GridDots
      /\ \A s, t \in StoredStrings : s # t =>
           s.pid # t.pid /\ {s.pointA, s.pointB} \intersect {t.pointA, t.pointB} = {}
  BY GuitarStringsAssumption
<1>3. /\ DOMAIN StoredEnds = StoredPids
      /\ \A s \in StoredStrings : s.pid \in StoredPids /\ StoredEnds[s.pid] = <<s.pointA, s.pointB>>
  <2>1. ASSUME NEW s \in StoredStrings PROVE s.pid \in StoredPids /\ StoredEnds[s.pid] = <<s.pointA, s.pointB>>
    <3>1. s.pid \in StoredPids
      BY DEF StoredPids
    <3>2. (CHOOSE t \in StoredStrings : t.pid = s.pid) = s
      BY <1>2
    <3>3. QED BY <3>1, <3>2 DEF StoredEnds
  <2>2. QED BY <2>1 DEF StoredEnds
<1>4. \A p \in StoredPids : \E s \in StoredStrings : s.pid = p
  BY DEF StoredPids
<1>5. /\ DOMAIN StoredOn = GridDots
      /\ \A d \in GridDots, s \in StoredStrings : d \in {s.pointA, s.pointB} => StoredOn[d] = s.pid
      /\ \A d \in GridDots : StoredOn[d] # NoPid => \E s \in StoredStrings : d \in {s.pointA, s.pointB}
  <2>1. ASSUME NEW d \in GridDots, NEW s \in StoredStrings, d \in {s.pointA, s.pointB} PROVE StoredOn[d] = s.pid
    <3>1. (CHOOSE t \in StoredStrings : d \in {t.pointA, t.pointB}) = s
      BY <1>2, <2>1
    <3>2. QED BY <2>1, <3>1 DEF StoredOn
  <2>2. QED BY <2>1 DEF StoredOn
<1>6. GuitarTypes
  <2>1. ASSUME NEW p \in StoredPids PROVE p \in Nat /\ StoredEnds[p] \in Int \X Int
    <3>1. PICK s \in StoredStrings : s.pid = p
      BY <1>4
    <3>2. s.pointA \in Int /\ s.pointB \in Int
      <4>1. s.pointA \in GridDots /\ s.pointB \in GridDots
        BY <1>2
      <4>2. GridDots \subseteq Nat
        BY GridIs, Zenon
      <4>3. GridDots \subseteq Int
        BY <4>2
      <4>4. QED BY <4>1, <4>3, Zenon
    <3>3. QED BY <1>2, <1>3, <3>1, <3>2
  <2>2. ASSUME NEW d \in GridDots PROVE StoredOn[d] \in Nat \union {NoPid}
    <3>1. CASE StoredOn[d] # NoPid
      <4>1. PICK s \in StoredStrings : d \in {s.pointA, s.pointB}
        BY <1>5, <3>1
      <4>2. QED BY <1>2, <1>5, <4>1
    <3>2. QED BY <3>1
  <2>3. StoredOn \in [GridDots -> Nat \union {NoPid}]
    BY <2>2 DEF StoredOn
  <2>4. StoredEnds \in [StoredPids -> Int \X Int]
    BY <2>1 DEF StoredEnds
  <2>5. PoolOfLoad(<<>>) \in Seq(PoolEntries)
    BY LoadedPool
  <2>6. QED BY <1>1, <1>3, <2>1, <2>3, <2>4, <2>5 DEF GuitarTypes
<1>7. StringsOnDots
  <2>1. BeingDrawn = {}
    BY <1>1 DEF BeingDrawn
  <2>2. ASSUME NEW p \in DOMAIN guitarStrings
        PROVE  /\ guitarStrings[p][1] # guitarStrings[p][2]
               /\ On(p) = {guitarStrings[p][1], guitarStrings[p][2]}
    <3>1. PICK s \in StoredStrings : s.pid = p
      BY <1>1, <1>3, <1>4
    <3>2. guitarStrings[p] = <<s.pointA, s.pointB>> /\ p # NoPid
      BY <1>1, <1>2, <1>3, <3>1 DEF NoPid
    <3>3. \A d \in GridDots : StoredOn[d] = p => d \in {s.pointA, s.pointB}
      BY <1>2, <1>5, <3>1, <3>2
    <3>4. On(p) = {s.pointA, s.pointB}
      BY <1>1, <1>2, <1>5, <3>1, <3>3 DEF On
    <3>5. QED BY <1>2, <3>2, <3>4
  <2>3. ASSUME NEW d \in GridDots, ~Free(d) PROVE getString[d] \in DOMAIN guitarStrings
    BY <1>1, <1>3, <1>5, <2>3 DEF Free
  <2>4. QED BY <1>1, <2>1, <2>2, <2>3 DEF StringsOnDots
<1>8. PoolIsRest
  BY <1>1, <1>3, LoadedPool DEF PoolIsRest
<1>9. QED BY <1>1, <1>6, <1>7, <1>8

\* A pool without its last entry.
LEMMA PoolPops ==
    ASSUME NEW E, NEW pool \in Seq(E), pool # <<>>
    PROVE  LET n == Len(pool)
               rest == SubSeq(pool, 1, n - 1)
           IN  /\ n \in Nat \ {0} /\ DOMAIN pool = 1..n /\ pool[n] \in E
               /\ rest \in Seq(E) /\ DOMAIN rest = 1..(n - 1) /\ \A i \in 1..(n - 1) : rest[i] = pool[i]
<1>1. Len(pool) \in Nat \ {0} /\ DOMAIN pool = 1..Len(pool)
  OBVIOUS
<1>2. pool[Len(pool)] \in E
  BY <1>1
<1>3. SubSeq(pool, 1, Len(pool) - 1) = [i \in 1..(Len(pool) - 1) |-> pool[i]]
  BY <1>1
<1>4. [i \in 1..(Len(pool) - 1) |-> pool[i]] \in Seq(E)
  BY <1>1
<1>5. QED BY <1>1, <1>2, <1>3, <1>4

LEMMA StartKeeps ==
    ASSUME reloads = 0, GuitarTypes, StringsOnDots, PoolIsRest, NEW d \in GridDots, StartString(d)
    PROVE  GuitarTypes' /\ StringsOnDots' /\ PoolIsRest'
<1>a. PICK n, pid : n = Len(pidPool) /\ pid = pidPool[n].pid
  OBVIOUS
<1>1. /\ ~isDrawing /\ ~isUndrawing /\ getString[d] = NoPid /\ pidPool # <<>>
      /\ clash' = (pid \in DOMAIN guitarStrings /\ \E e \in GridDots : getString[e] = pid)
      /\ pidPool' = SubSeq(pidPool, 1, n - 1)
      /\ isDrawing' = TRUE /\ isUndrawing' = isUndrawing /\ currentDrawingPid' = pid
      /\ getString' = [getString EXCEPT ![d] = pid]
      /\ guitarStrings' = [p \in DOMAIN guitarStrings \union {pid} |->
                             IF p = pid THEN <<d, NoDot>> ELSE guitarStrings[p]]
  BY <1>a DEF StartString, Free
<1>2. /\ n \in Nat \ {0} /\ DOMAIN pidPool = 1..n /\ pidPool[n] \in PoolEntries
      /\ pidPool' \in Seq(PoolEntries) /\ DOMAIN pidPool' = 1..(n - 1) /\ \A i \in 1..(n - 1) : pidPool'[i] = pidPool[i]
  BY <1>1, <1>a, PoolPops DEF GuitarTypes
<1>3. pid \in Nat /\ pid \notin DOMAIN guitarStrings
  BY <1>2, <1>a DEF PoolIsRest, PoolEntries
<1>4. /\ getString \in [GridDots -> Nat \union {NoPid}] /\ DOMAIN guitarStrings \subseteq Nat
      /\ guitarStrings \in [DOMAIN guitarStrings -> Int \X Int]
  BY DEF GuitarTypes
<1>5. \A i \in 1..n : pidPool[i].pid = pid => i = n
  <2>1. ASSUME NEW i \in 1..n, pidPool[i].pid = pid PROVE i = n
    <3>1. pidPool[i] \in PoolEntries /\ pidPool[n] \in PoolEntries
      BY <1>2 DEF GuitarTypes
    <3>2. pidPool[i].text = FALSE /\ pidPool[n].text = FALSE
      BY <1>2 DEF PoolIsRest
    <3>3. pidPool[i] = pidPool[n]
      BY <1>a, <2>1, <3>1, <3>2 DEF PoolEntries
    <3>4. i \in DOMAIN pidPool /\ n \in DOMAIN pidPool
      BY <1>2
    <3>5. QED BY <3>3, <3>4, Zenon DEF PoolIsRest
  <2>2. QED BY <2>1
<1>6. /\ DOMAIN guitarStrings' = DOMAIN guitarStrings \union {pid} /\ guitarStrings'[pid] = <<d, NoDot>>
      /\ \A p \in DOMAIN guitarStrings : guitarStrings'[p] = guitarStrings[p]
  BY <1>1, <1>3
<1>7. \A e \in GridDots : getString'[e] = IF e = d THEN pid ELSE getString[e]
  BY <1>1, <1>4
<1>8. d \in Nat
  BY GridIs
<1>9. GuitarTypes'
  <2>1. guitarStrings' \in [DOMAIN guitarStrings' -> Int \X Int]
    <3>1. <<d, NoDot>> \in Int \X Int
      BY <1>8 DEF NoDot
    <3>2. QED BY <1>1, <1>4, <1>6, <3>1
  <2>2. DOMAIN guitarStrings' \subseteq Nat
    BY <1>3, <1>4, <1>6
  <2>3. getString' \in [GridDots -> Nat \union {NoPid}]
    BY <1>1, <1>3, <1>4
  <2>4. QED BY <1>1, <1>2, <2>1, <2>2, <2>3 DEF GuitarTypes
<1>10. StringsOnDots'
  <2>1. BeingDrawn = {} /\ BeingDrawn' = {pid}
    BY <1>1 DEF BeingDrawn
  <2>2. \A e \in GridDots : getString[e] # pid
    BY <1>3, <1>4 DEF StringsOnDots, Free, NoPid
  <2>3. On(pid)' = {d}
    <3>1. \A e \in GridDots : getString'[e] = pid <=> e = d
      BY <1>7, <2>2
    <3>2. QED BY <3>1 DEF On
  <2>4. \A p \in DOMAIN guitarStrings : On(p)' = On(p)
    <3>1. ASSUME NEW p \in DOMAIN guitarStrings PROVE On(p)' = On(p)
      <4>1. p # pid /\ p # NoPid
        BY <1>3, <1>4 DEF NoPid
      <4>2. \A e \in GridDots : getString'[e] = p <=> getString[e] = p
        BY <1>1, <1>7, <4>1
      <4>3. QED BY <4>2 DEF On
    <3>2. QED BY <3>1
  <2>5. d # NoDot
    BY <1>8 DEF NoDot
  <2>6. ASSUME NEW p \in DOMAIN guitarStrings'
        PROVE  /\ guitarStrings'[p][1] # guitarStrings'[p][2]
               /\ On(p)' = IF p \in BeingDrawn' THEN {guitarStrings'[p][1]}
                                            ELSE {guitarStrings'[p][1], guitarStrings'[p][2]}
    <3>1. CASE p = pid
      <4>1. guitarStrings'[p][1] = d /\ guitarStrings'[p][2] = NoDot /\ On(p)' = {d} /\ p \in BeingDrawn'
        BY <1>6, <2>1, <2>3, <3>1
      <4>2. QED BY <2>5, <4>1, Zenon
    <3>2. CASE p # pid
      <4>1. p \in DOMAIN guitarStrings
        BY <1>6, <3>2
      <4>2. QED BY <1>6, <2>1, <2>4, <3>2, <4>1 DEF StringsOnDots
    <3>3. QED BY <3>1, <3>2
  <2>7. ASSUME NEW e \in GridDots, getString'[e] # NoPid PROVE getString'[e] \in DOMAIN guitarStrings'
    BY <1>6, <1>7, <2>7 DEF StringsOnDots, Free
  <2>8. ~clash'
    BY <1>1, <1>3
  <2>9. QED BY <1>1, <1>6, <2>1, <2>6, <2>7, <2>8 DEF StringsOnDots, Free
<1>11. PoolIsRest'
  <2>1. ASSUME NEW i \in DOMAIN pidPool'
        PROVE  /\ pidPool'[i].pid \notin DOMAIN guitarStrings' /\ pidPool'[i].text = FALSE
               /\ \A j \in DOMAIN pidPool' : pidPool'[i] = pidPool'[j] => i = j
    <3>1. i \in 1..n /\ i # n /\ pidPool'[i] = pidPool[i] /\ 1..(n - 1) \subseteq 1..n
      BY <1>2, <2>1
    <3>2. pidPool[i].pid # pid
      BY <1>5, <3>1
    <3>3. QED BY <1>2, <1>6, <3>1, <3>2 DEF PoolIsRest
  <2>2. ASSUME NEW m \in 0..(MaxStrings - 1), m \notin DOMAIN guitarStrings'
        PROVE  \E i \in DOMAIN pidPool' : pidPool'[i].pid = m
    <3>1. PICK i \in DOMAIN pidPool : pidPool[i].pid = m
      BY <1>6, <2>2 DEF PoolIsRest
    <3>2. i # n
      BY <1>6, <1>a, <2>2, <3>1
    <3>3. i \in 1..(n - 1)
      BY <1>2, <3>1, <3>2
    <3>4. QED BY <1>2, <3>1, <3>3
  <2>3. QED BY <2>1, <2>2 DEF PoolIsRest
<1>12. QED BY <1>9, <1>10, <1>11

\* Where the strings are, told of one dot or one string at a time.
OnBoth(p, a, b) ==
    /\ a \in GridDots /\ b \in GridDots /\ a # b
    /\ \A d \in GridDots : (getString[d] = p) <=> (d = a \/ d = b)
OnFirst(p, a) ==
    /\ a \in GridDots
    /\ \A d \in GridDots : (getString[d] = p) <=> (d = a)

LEMMA OnDots ==
    ASSUME GuitarTypes, StringsOnDots
    PROVE  /\ \A p \in DOMAIN guitarStrings :
                /\ p \in Nat /\ p # NoPid /\ guitarStrings[p] = <<guitarStrings[p][1], guitarStrings[p][2]>>
                /\ p \notin BeingDrawn => OnBoth(p, guitarStrings[p][1], guitarStrings[p][2])
                /\ p \in BeingDrawn => OnFirst(p, guitarStrings[p][1])
           /\ \A d \in GridDots : getString[d] # NoPid => getString[d] \in DOMAIN guitarStrings
<1>1. ASSUME NEW p \in DOMAIN guitarStrings
      PROVE  /\ p \in Nat /\ p # NoPid /\ guitarStrings[p] = <<guitarStrings[p][1], guitarStrings[p][2]>>
             /\ p \notin BeingDrawn => OnBoth(p, guitarStrings[p][1], guitarStrings[p][2])
             /\ p \in BeingDrawn => OnFirst(p, guitarStrings[p][1])
  <2>1. p \in Nat /\ guitarStrings[p] \in Int \X Int
    BY DEF GuitarTypes
  <2>2. p # NoPid /\ guitarStrings[p] = <<guitarStrings[p][1], guitarStrings[p][2]>>
    BY <2>1 DEF NoPid
  <2>3. /\ guitarStrings[p][1] # guitarStrings[p][2]
        /\ {d \in GridDots : getString[d] = p} = IF p \in BeingDrawn THEN {guitarStrings[p][1]}
                                                 ELSE {guitarStrings[p][1], guitarStrings[p][2]}
    BY DEF StringsOnDots, On
  <2>4. ASSUME p \notin BeingDrawn PROVE OnBoth(p, guitarStrings[p][1], guitarStrings[p][2])
    BY <2>3, <2>4 DEF OnBoth
  <2>5. ASSUME p \in BeingDrawn PROVE OnFirst(p, guitarStrings[p][1])
    BY <2>3, <2>5 DEF OnFirst
  <2>6. QED BY <2>1, <2>2, <2>4, <2>5
<1>2. QED BY <1>1 DEF StringsOnDots, Free

LEMMA EndKeeps ==
    ASSUME reloads = 0, GuitarTypes, StringsOnDots, PoolIsRest, NEW d \in GridDots, EndString(d)
    PROVE  GuitarTypes' /\ StringsOnDots' /\ PoolIsRest'
<1>a. PICK pid : pid = currentDrawingPid
  OBVIOUS
<1>1. /\ (isDrawing \/ isUndrawing) /\ getString[d] = NoPid
      /\ isDrawing' = FALSE /\ isUndrawing' = FALSE
      /\ getString' = [getString EXCEPT ![d] = pid]
      /\ guitarStrings' = [guitarStrings EXCEPT ![pid][2] = d]
      /\ pidPool' = pidPool /\ currentDrawingPid' = pid /\ clash' = clash
  BY <1>a DEF EndString, Free
<1>2. BeingDrawn = {pid} /\ BeingDrawn' = {} /\ pid \in DOMAIN guitarStrings
  <2>1. BeingDrawn = {pid} /\ BeingDrawn' = {}
    BY <1>1, <1>a DEF EndString, BeingDrawn
  <2>2. QED BY <2>1 DEF StringsOnDots
<1>3. /\ getString \in [GridDots -> Nat \union {NoPid}] /\ DOMAIN guitarStrings \subseteq Nat
      /\ guitarStrings \in [DOMAIN guitarStrings -> Int \X Int]
  BY DEF GuitarTypes
<1>4. d \in Int
  BY GridIs
<1>5. PICK from : guitarStrings[pid] = <<from, guitarStrings[pid][2]>> /\ from = guitarStrings[pid][1]
  BY <1>2, OnDots
<1>6. /\ DOMAIN guitarStrings' = DOMAIN guitarStrings /\ guitarStrings'[pid] = <<from, d>>
      /\ \A p \in DOMAIN guitarStrings : p # pid => guitarStrings'[p] = guitarStrings[p]
  BY <1>1, <1>2, <1>3, <1>5
<1>7. \A e \in GridDots : getString'[e] = IF e = d THEN pid ELSE getString[e]
  BY <1>1, <1>3
<1>8. from \in GridDots /\ from # d /\ from \in Int
  <2>1. from \in GridDots /\ getString[from] = pid /\ pid # NoPid
    BY <1>2, <1>5, OnDots DEF OnFirst
  <2>2. GridDots \subseteq Int
    BY GridIs
  <2>3. QED BY <1>1, <2>1, <2>2
<1>9. GuitarTypes'
  <2>1. \A p \in DOMAIN guitarStrings : guitarStrings'[p] \in Int \X Int
    BY <1>3, <1>4, <1>6, <1>8
  <2>2. guitarStrings' \in [DOMAIN guitarStrings' -> Int \X Int]
    BY <1>1, <1>6, <2>1
  <2>3. getString' \in [GridDots -> Nat \union {NoPid}]
    BY <1>1, <1>2, <1>3
  <2>4. QED BY <1>1, <1>3, <1>6, <2>2, <2>3 DEF GuitarTypes
<1>10. StringsOnDots'
  <2>1. ASSUME NEW p \in DOMAIN guitarStrings
        PROVE  /\ guitarStrings'[p][1] # guitarStrings'[p][2]
               /\ On(p)' = {guitarStrings'[p][1], guitarStrings'[p][2]}
    <3>1. CASE p = pid
      <4>1. guitarStrings'[p][1] = from /\ guitarStrings'[p][2] = d
        BY <1>6, <3>1
      <4>2. \A e \in GridDots : (getString'[e] = p) <=> (e \in {from, d})
        <5>1. OnFirst(pid, from)
          BY <1>2, <1>5, OnDots
        <5>2. \A e \in GridDots : (getString[e] = pid) <=> (e = from)
          BY <5>1 DEF OnFirst
        <5>3. QED BY <1>7, <3>1, <5>2
      <4>3. QED BY <1>8, <4>1, <4>2 DEF On
    <3>2. CASE p # pid
      <4>1. guitarStrings'[p] = guitarStrings[p] /\ p \notin BeingDrawn
        BY <1>2, <1>6, <3>2
      <4>2. /\ guitarStrings[p][1] \in GridDots /\ guitarStrings[p][2] \in GridDots
            /\ guitarStrings[p][1] # guitarStrings[p][2] /\ p # NoPid
            /\ \A e \in GridDots : (getString[e] = p) <=> (e = guitarStrings[p][1] \/ e = guitarStrings[p][2])
        BY <4>1, OnDots DEF OnBoth
      <4>3. \A e \in GridDots : getString'[e] = p <=> getString[e] = p
        BY <1>1, <1>7, <3>2, <4>2
      <4>4. \A e \in GridDots : getString'[e] = p <=> e \in {guitarStrings'[p][1], guitarStrings'[p][2]}
        BY <4>1, <4>2, <4>3
      <4>5. QED BY <4>1, <4>2, <4>4 DEF On
    <3>3. QED BY <3>1, <3>2
  <2>2. ASSUME NEW e \in GridDots, getString'[e] # NoPid PROVE getString'[e] \in DOMAIN guitarStrings'
    BY <1>2, <1>6, <1>7, <2>2, OnDots
  <2>3. ~clash' /\ ~(isDrawing' /\ isUndrawing') /\ BeingDrawn' \subseteq DOMAIN guitarStrings'
    BY <1>1, <1>2 DEF StringsOnDots
  <2>4. QED BY <1>2, <1>6, <2>1, <2>2, <2>3 DEF StringsOnDots, Free
<1>11. PoolIsRest'
  BY <1>1, <1>6 DEF PoolIsRest
<1>12. QED BY <1>9, <1>10, <1>11

LEMMA RestartKeeps ==
    ASSUME reloads = 0, GuitarTypes, StringsOnDots, PoolIsRest, NEW d \in GridDots, RestartString(d)
    PROVE  GuitarTypes' /\ StringsOnDots' /\ PoolIsRest'
<1>a. PICK pid : pid = getString[d]
  OBVIOUS
<1>1. /\ ~isDrawing /\ ~isUndrawing /\ pid # NoPid
      /\ isUndrawing' = TRUE /\ isDrawing' = isDrawing /\ currentDrawingPid' = pid
      /\ guitarStrings' = [guitarStrings EXCEPT ![pid] = <<IF @[1] = d THEN @[2] ELSE @[1], NoDot>>]
      /\ getString' = [getString EXCEPT ![d] = NoPid]
      /\ pidPool' = pidPool /\ clash' = clash
  BY <1>a DEF RestartString, Free
<1>2. BeingDrawn = {} /\ BeingDrawn' = {pid} /\ pid \in DOMAIN guitarStrings
  <2>1. BeingDrawn = {} /\ BeingDrawn' = {pid}
    BY <1>1 DEF BeingDrawn
  <2>2. QED BY <1>1, <1>a, <2>1, OnDots
<1>3. /\ getString \in [GridDots -> Nat \union {NoPid}] /\ DOMAIN guitarStrings \subseteq Nat
      /\ guitarStrings \in [DOMAIN guitarStrings -> Int \X Int]
  BY DEF GuitarTypes
<1>4. PICK other : /\ other = (IF guitarStrings[pid][1] = d THEN guitarStrings[pid][2] ELSE guitarStrings[pid][1])
                   /\ other \in GridDots /\ other # d
                   /\ \A e \in GridDots : (getString[e] = pid) <=> (e = d \/ e = other)
  <2>1. /\ guitarStrings[pid][1] \in GridDots /\ guitarStrings[pid][2] \in GridDots
        /\ guitarStrings[pid][1] # guitarStrings[pid][2]
        /\ \A e \in GridDots : (getString[e] = pid) <=> (e = guitarStrings[pid][1] \/ e = guitarStrings[pid][2])
    BY <1>2, OnDots DEF OnBoth
  <2>2. QED BY <1>a, <2>1
<1>5. other \in Nat
  BY <1>4, GridIs
<1>6. /\ DOMAIN guitarStrings' = DOMAIN guitarStrings /\ guitarStrings'[pid] = <<other, NoDot>>
      /\ \A p \in DOMAIN guitarStrings : p # pid => guitarStrings'[p] = guitarStrings[p]
  BY <1>1, <1>2, <1>3, <1>4
<1>7. \A e \in GridDots : getString'[e] = IF e = d THEN NoPid ELSE getString[e]
  BY <1>1, <1>3
<1>9. GuitarTypes'
  <2>1. \A p \in DOMAIN guitarStrings : guitarStrings'[p] \in Int \X Int
    BY <1>3, <1>5, <1>6 DEF NoDot
  <2>2. guitarStrings' \in [DOMAIN guitarStrings' -> Int \X Int]
    BY <1>1, <1>6, <2>1
  <2>3. getString' \in [GridDots -> Nat \union {NoPid}]
    BY <1>1, <1>3
  <2>4. QED BY <1>1, <1>3, <1>6, <2>2, <2>3 DEF GuitarTypes
<1>10. StringsOnDots'
  <2>1. ASSUME NEW p \in DOMAIN guitarStrings
        PROVE  /\ guitarStrings'[p][1] # guitarStrings'[p][2]
               /\ On(p)' = IF p \in BeingDrawn' THEN {guitarStrings'[p][1]}
                                            ELSE {guitarStrings'[p][1], guitarStrings'[p][2]}
    <3>1. CASE p = pid
      <4>1. guitarStrings'[p][1] = other /\ guitarStrings'[p][2] = NoDot /\ p \in BeingDrawn'
        BY <1>2, <1>6, <3>1
      <4>2. \A e \in GridDots : getString'[e] = p <=> e = other
        BY <1>1, <1>4, <1>7, <3>1
      <4>3. other # NoDot
        BY <1>5 DEF NoDot
      <4>4. On(p)' = {other}
        BY <1>4, <4>2 DEF On
      <4>5. QED BY <4>1, <4>3, <4>4, Zenon
    <3>2. CASE p # pid
      <4>1. guitarStrings'[p] = guitarStrings[p] /\ p \notin BeingDrawn'
        BY <1>2, <1>6, <3>2
      <4>2. /\ guitarStrings[p][1] \in GridDots /\ guitarStrings[p][2] \in GridDots
            /\ guitarStrings[p][1] # guitarStrings[p][2] /\ p # NoPid
            /\ \A e \in GridDots : (getString[e] = p) <=> (e = guitarStrings[p][1] \/ e = guitarStrings[p][2])
        BY <1>2, OnDots DEF OnBoth
      <4>3. \A e \in GridDots : getString'[e] = p <=> getString[e] = p
        BY <1>a, <1>7, <3>2, <4>2
      <4>4. \A e \in GridDots : getString'[e] = p <=> e \in {guitarStrings'[p][1], guitarStrings'[p][2]}
        BY <4>1, <4>2, <4>3
      <4>5. On(p)' = {guitarStrings'[p][1], guitarStrings'[p][2]}
        BY <4>1, <4>2, <4>4 DEF On
      <4>6. QED BY <4>1, <4>2, <4>5
    <3>3. QED BY <3>1, <3>2
  <2>2. ASSUME NEW e \in GridDots, getString'[e] # NoPid PROVE getString'[e] \in DOMAIN guitarStrings'
    BY <1>2, <1>6, <1>7, <2>2, OnDots
  <2>3. ~clash' /\ ~(isDrawing' /\ isUndrawing') /\ BeingDrawn' \subseteq DOMAIN guitarStrings'
    BY <1>1, <1>2, <1>6 DEF StringsOnDots
  <2>4. QED BY <1>6, <2>1, <2>2, <2>3 DEF StringsOnDots, Free
<1>11. PoolIsRest'
  BY <1>1, <1>6 DEF PoolIsRest
<1>12. QED BY <1>9, <1>10, <1>11

LEMMA DestroyKeeps ==
    ASSUME reloads = 0, GuitarTypes, StringsOnDots, PoolIsRest, NEW d \in GridDots, DestroyString(d)
    PROVE  GuitarTypes' /\ StringsOnDots' /\ PoolIsRest'
<1>a. PICK pid, n : pid = currentDrawingPid /\ n = Len(pidPool)
  OBVIOUS
<1>1. /\ (isDrawing \/ isUndrawing) /\ getString[d] # NoPid
      /\ pid \in DOMAIN guitarStrings /\ guitarStrings[pid][1] = d
      /\ isDrawing' = FALSE /\ isUndrawing' = FALSE
      /\ getString' = [getString EXCEPT ![d] = NoPid]
      /\ guitarStrings' = [p \in DOMAIN guitarStrings \ {getString[d]} |-> guitarStrings[p]]
      /\ pidPool' = Append(pidPool, Number(getString[d]))
      /\ clash' = (getString[d] # pid \/ \E e \in GridDots \ {d} : getString[e] = getString[d])
  BY <1>a DEF DestroyString, Free
<1>2. BeingDrawn = {pid} /\ BeingDrawn' = {}
  BY <1>1, <1>a DEF DestroyString, BeingDrawn
<1>3. /\ getString \in [GridDots -> Nat \union {NoPid}] /\ DOMAIN guitarStrings \subseteq Nat
      /\ guitarStrings \in [DOMAIN guitarStrings -> Int \X Int] /\ pidPool \in Seq(PoolEntries)
  BY DEF GuitarTypes
<1>4. pid \in Nat /\ pid # NoPid /\ \A e \in GridDots : getString[e] = pid <=> e = d
  BY <1>1, <1>2, OnDots DEF OnFirst
<1>5. getString[d] = pid /\ ~clash'
  BY <1>1, <1>4
<1>6. /\ DOMAIN guitarStrings' = DOMAIN guitarStrings \ {pid}
      /\ \A p \in DOMAIN guitarStrings' : guitarStrings'[p] = guitarStrings[p]
  BY <1>1, <1>5
<1>7. \A e \in GridDots : getString'[e] = IF e = d THEN NoPid ELSE getString[e]
  BY <1>1, <1>3
<1>8. /\ n \in Nat /\ DOMAIN pidPool = 1..n /\ DOMAIN pidPool' = 1..(n + 1) /\ pidPool' \in Seq(PoolEntries)
      /\ pidPool'[n + 1] = Number(pid) /\ \A i \in 1..n : pidPool'[i] = pidPool[i]
  <2>1. Number(pid) \in PoolEntries
    BY <1>4 DEF Number, PoolEntries
  <2>2. pidPool' = Append(pidPool, Number(pid))
    BY <1>1, <1>5
  <2> HIDE DEF PoolEntries
  <2>3. QED BY <1>a, <1>3, <2>1, <2>2
<1>9. GuitarTypes'
  <2>1. guitarStrings' \in [DOMAIN guitarStrings' -> Int \X Int] /\ DOMAIN guitarStrings' \subseteq Nat
    BY <1>1, <1>3, <1>6
  <2>2. getString' \in [GridDots -> Nat \union {NoPid}]
    BY <1>1, <1>3
  <2>3. QED BY <1>1, <1>8, <2>1, <2>2 DEF GuitarTypes
<1>10. StringsOnDots'
  <2>1. ASSUME NEW p \in DOMAIN guitarStrings'
        PROVE  /\ guitarStrings'[p][1] # guitarStrings'[p][2]
               /\ On(p)' = {guitarStrings'[p][1], guitarStrings'[p][2]}
    <3>1. guitarStrings'[p] = guitarStrings[p] /\ p \notin BeingDrawn /\ p # pid /\ p \in DOMAIN guitarStrings
      BY <1>2, <1>6
    <3>2. /\ guitarStrings[p][1] \in GridDots /\ guitarStrings[p][2] \in GridDots
          /\ guitarStrings[p][1] # guitarStrings[p][2] /\ p # NoPid
          /\ \A e \in GridDots : (getString[e] = p) <=> (e = guitarStrings[p][1] \/ e = guitarStrings[p][2])
      BY <3>1, OnDots DEF OnBoth
    <3>3. \A e \in GridDots : getString'[e] = p <=> getString[e] = p
      BY <1>5, <1>7, <3>1, <3>2
    <3>4. \A e \in GridDots : getString'[e] = p <=> e \in {guitarStrings'[p][1], guitarStrings'[p][2]}
      BY <3>1, <3>2, <3>3
    <3>5. QED BY <3>1, <3>2, <3>4 DEF On
  <2>2. ASSUME NEW e \in GridDots, getString'[e] # NoPid PROVE getString'[e] \in DOMAIN guitarStrings'
    BY <1>4, <1>6, <1>7, <2>2, OnDots
  <2>3. QED BY <1>1, <1>2, <1>5, <2>1, <2>2 DEF StringsOnDots, Free
<1>11. PoolIsRest'
  <2>1. \A i \in 1..n : pidPool[i].pid # pid
    BY <1>1, <1>8 DEF PoolIsRest
  <2>2. Number(pid).pid = pid /\ Number(pid).text = FALSE
    BY DEF Number
  <2>3. ASSUME NEW i \in 1..(n + 1)
        PROVE  /\ pidPool'[i].pid \notin DOMAIN guitarStrings' /\ pidPool'[i].text = FALSE
               /\ \A j \in 1..(n + 1) : pidPool'[i] = pidPool'[j] => i = j
    <3>1. \A j \in 1..(n + 1) : j \in 1..n \/ j = n + 1
      BY <1>8
    <3>2. CASE i \in 1..n
      <4>1. pidPool'[i] = pidPool[i] /\ pidPool[i].pid \notin DOMAIN guitarStrings /\ pidPool[i].text = FALSE
        BY <1>8, <3>2 DEF PoolIsRest
      <4>2. ASSUME NEW j \in 1..(n + 1), pidPool'[i] = pidPool'[j] PROVE i = j
        <5>1. j # n + 1
          <6>1. pidPool'[j].pid # pid
            BY <1>8, <2>1, <3>2, <4>1, <4>2
          <6>2. QED BY <1>8, <2>2, <6>1
        <5>2. j \in 1..n /\ pidPool'[j] = pidPool[j]
          BY <1>8, <3>1, <5>1
        <5>3. pidPool[i] = pidPool[j] /\ i \in DOMAIN pidPool /\ j \in DOMAIN pidPool
          BY <1>8, <3>2, <4>1, <4>2, <5>2
        <5>4. QED BY <5>3, Zenon DEF PoolIsRest
      <4>3. QED BY <1>6, <4>1, <4>2
    <3>3. CASE i = n + 1
      <4>1. pidPool'[i].pid = pid /\ pidPool'[i].text = FALSE
        BY <1>8, <2>2, <3>3
      <4>2. ASSUME NEW j \in 1..(n + 1), pidPool'[i] = pidPool'[j] PROVE i = j
        <5>1. j \notin 1..n
          BY <1>8, <2>1, <4>1, <4>2
        <5>2. QED BY <3>1, <3>3, <5>1
      <4>3. QED BY <1>6, <4>1, <4>2
    <3>4. QED BY <3>1, <3>2, <3>3
  <2>4. ASSUME NEW m \in 0..(MaxStrings - 1), m \notin DOMAIN guitarStrings'
        PROVE  \E i \in 1..(n + 1) : pidPool'[i].pid = m
    <3>1. n + 1 \in 1..(n + 1) /\ 1..n \subseteq 1..(n + 1)
      BY <1>8
    <3>2. CASE m = pid BY <1>8, <2>2, <3>1, <3>2
    <3>3. CASE m # pid
      <4>1. PICK i \in 1..n : pidPool[i].pid = m
        BY <1>6, <1>8, <2>4, <3>3 DEF PoolIsRest
      <4>2. QED BY <1>8, <3>1, <4>1
    <3>4. QED BY <3>2, <3>3
  <2>5. QED BY <1>8, <2>3, <2>4 DEF PoolIsRest
<1>12. QED BY <1>9, <1>10, <1>11

\* Two dots for each string: while a dot is free, the pool has a pid.
LEMMA PoolNotDry ==
    ASSUME GuitarTypes, StringsOnDots, PoolIsRest, BeingDrawn = {}, NEW free \in GridDots, Free(free)
    PROVE  pidPool # <<>>
<1> DEFINE D == DOMAIN guitarStrings
           F == {d \in GridDots : \E p \in D : d = guitarStrings[p][1]}
           G == {d \in GridDots : \E p \in D : d = guitarStrings[p][2]}
           f == [p \in D |-> guitarStrings[p][1]]
           g == [p \in D |-> guitarStrings[p][2]]
<1>1. ASSUME NEW p \in D
      PROVE  /\ guitarStrings[p][1] \in GridDots /\ guitarStrings[p][2] \in GridDots
             /\ guitarStrings[p][1] # guitarStrings[p][2] /\ p # NoPid
             /\ getString[guitarStrings[p][1]] = p /\ getString[guitarStrings[p][2]] = p
  BY OnDots DEF OnBoth
<1>2. f \in Injection(D, F) /\ g \in Injection(D, G)
  BY <1>1 DEF Injection, IsInjective
<1>3. F \in SUBSET GridDots /\ G \in SUBSET GridDots /\ F \cap G = {} /\ F \union G \in SUBSET (GridDots \ {free})
  <2>1. F \cap G = {}
    <3>1. ASSUME NEW d \in F, d \in G PROVE FALSE
      <4>1. PICK p \in D : d = guitarStrings[p][1]
        BY <3>1
      <4>2. PICK q \in D : d = guitarStrings[q][2]
        BY <3>1
      <4>3. p = q
        BY <1>1, <4>1, <4>2
      <4>4. QED BY <1>1, <4>1, <4>2, <4>3
    <3>2. QED BY <3>1
  <2>2. free \notin F /\ free \notin G
    BY <1>1 DEF Free
  <2>3. QED BY <2>1, <2>2
<1> HIDE DEF F, G, f, g
<1>4. IsFiniteSet(F) /\ IsFiniteSet(G) /\ Cardinality(F) \in Nat /\ Cardinality(G) \in Nat
  BY <1>3, GridIs, FS_Subset, FS_CardinalityType
<1>5. /\ IsFiniteSet(D) /\ Cardinality(D) \in Nat
      /\ Cardinality(D) <= Cardinality(F) /\ Cardinality(D) <= Cardinality(G)
  BY <1>2, <1>4, FS_Injection, FS_CardinalityType
<1>6. Cardinality(F) + Cardinality(G) <= GridCount - 1
  <2>1. IsFiniteSet(GridDots \ {free}) /\ Cardinality(GridDots \ {free}) = GridCount - 1
    BY GridIs, FS_RemoveElement
  <2>2. Cardinality(F \union G) = Cardinality(F) + Cardinality(G)
    <3>1. Cardinality(F \cap G) = 0
      BY <1>3, FS_EmptySet
    <3>2. Cardinality(F \union G) = Cardinality(F) + Cardinality(G) - Cardinality(F \cap G)
      BY <1>4, FS_Union
    <3>3. QED BY <1>4, <3>1, <3>2
  <2>3. Cardinality(F \union G) <= Cardinality(GridDots \ {free})
    BY <1>3, <2>1, FS_Subset
  <2>4. QED BY <2>1, <2>2, <2>3
<1>7. ASSUME pidPool = <<>> PROVE FALSE
  <2>1. 0..(MaxStrings - 1) \in SUBSET D
    BY <1>7 DEF PoolIsRest
  <2>2. Cardinality(0..(MaxStrings - 1)) = MaxStrings
    BY GridIs, FS_Interval
  <2>3. MaxStrings <= Cardinality(D)
    <3> HIDE DEF D
    <3>1. Cardinality(0..(MaxStrings - 1)) <= Cardinality(D)
      BY <1>5, <2>1, FS_Subset
    <3>2. QED BY <2>2, <3>1
  <2>4. /\ MaxStrings \in Nat /\ GridCount <= 2 * MaxStrings /\ GridCount \in Nat
    BY GridIs
  <2>5. QED BY <1>4, <1>5, <1>6, <2>3, <2>4
<1>8. QED BY <1>7

LEMMA GuitarSteps == GuitarInv /\ [GuitarNext]_guitarVars => GuitarInv'
<1> SUFFICES ASSUME GuitarInv, [GuitarNext]_guitarVars PROVE GuitarInv'
  OBVIOUS
<1>1. CASE ReloadData
  BY <1>1 DEF ReloadData, GuitarInv
<1>2. CASE UNCHANGED <<strung, drawing, reloads, clash>>
  <2>1. /\ getString' = getString /\ guitarStrings' = guitarStrings /\ pidPool' = pidPool
        /\ isDrawing' = isDrawing /\ isUndrawing' = isUndrawing /\ currentDrawingPid' = currentDrawingPid
        /\ reloads' = reloads /\ clash' = clash
    BY <1>2 DEF strung, drawing
  <2>2. (GuitarTypes <=> GuitarTypes') /\ (PoolIsRest <=> PoolIsRest')
    BY <2>1 DEF GuitarTypes, PoolIsRest
  <2>3. StringsOnDots => StringsOnDots'
    <3>1. BeingDrawn' = BeingDrawn
      BY <2>1 DEF BeingDrawn
    <3>2. \A p : On(p)' = On(p)
      BY <2>1 DEF On
    <3>3. \A d : Free(d)' <=> Free(d)
      BY <2>1 DEF Free
    <3>4. QED BY <2>1, <3>1, <3>2, <3>3 DEF StringsOnDots
  <2>4. QED BY <2>1, <2>2, <2>3 DEF GuitarInv
<1>3. CASE Open \/ Block
  BY <1>2, <1>3 DEF Open, Block
<1>4. CASE UNCHANGED guitarVars
  BY <1>2, <1>4 DEF guitarVars
<1>5. ASSUME NEW d \in GridDots, StartString(d) \/ EndString(d) \/ RestartString(d) \/ DestroyString(d)
      PROVE  GuitarInv'
  <2>1. reloads' = reloads
    BY <1>5 DEF StartString, EndString, RestartString, DestroyString
  <2>2. ASSUME reloads = 0 PROVE GuitarTypes' /\ StringsOnDots' /\ PoolIsRest'
    BY <1>5, <2>2, StartKeeps, EndKeeps, RestartKeeps, DestroyKeeps DEF GuitarInv
  <2>3. QED BY <2>1, <2>2 DEF GuitarInv
<1>6. QED BY <1>1, <1>3, <1>4, <1>5 DEF GuitarNext

LEMMA StringsMatch == GuitarInv => StringsMatchDots
<1> SUFFICES ASSUME GuitarInv, reloads = 0 PROVE StringsMatchDots
  BY DEF StringsMatchDots
<1>1. GuitarTypes /\ StringsOnDots /\ PoolIsRest
  BY DEF GuitarInv
<1>2. ASSUME BeingDrawn = {}, NEW d \in GridDots, Free(d) PROVE pidPool # <<>>
  BY <1>1, <1>2, PoolNotDry
<1>3. QED BY <1>1, <1>2 DEF StringsMatchDots, StringsOnDots, PoolIsRest, BeingDrawn, On

\* StageAgrees holds for any grid of the guitar and data of it, and any size of
\* the window (GuitarView.js and HexagonView.js): strings, dots and pool agree
\* until a reset, and a wave that starts at a hexagon reaches each of them once.
THEOREM StageStaysRight == StageSpec => []StageAgrees
<1>1. HexInit => HexInv
  BY DEF HexInit, HexInv, GridNow
<1>2. HexInv /\ [HexNext]_hexVars => HexInv'
  BY HexSteps
<1>3. HexSpec => []HexInv
  BY <1>1, <1>2, PTL DEF HexSpec
<1>4. GuitarSpec => []GuitarInv
  BY GuitarStarts, GuitarSteps, PTL DEF GuitarSpec
<1>5. HexInv /\ GuitarInv => StageAgrees
  BY HexReaches, StringsMatch DEF StageAgrees
<1>6. QED BY <1>3, <1>4, <1>5, PTL DEF StageSpec

-----------------------------------------------------------------------------
(* The types of My Schedule, with patient users or without.                *)

\* Of any set of sessions finitely many are queued: as many as there were requests.
QueueTyped == TypeOK /\ IsFiniteSet(calls) /\ IsFiniteSet(Queued)

Identities == {c.id : c \in calls}
FreeIds == (1..MaxCalls) \ Identities

(* There are as many identities free as there may be more requests. *)
LEMMA FreeIdsAre ==
  ASSUME QueueTyped
  PROVE  /\ IsFiniteSet(FreeIds) /\ Cardinality(FreeIds) \in Nat
         /\ Cardinality(calls) \in Nat /\ Cardinality(FreeIds) >= MaxCalls - Cardinality(calls)
<1> USE OfflineQueueAssumption
<1>1. IsFiniteSet(calls) /\ calls \subseteq Calls
  BY DEF QueueTyped, TypeOK
<1> DEFINE f == [c \in calls |-> c.id]
<1>2. f \in Surjection(calls, Identities)
  BY DEF Surjection, Identities
<1>3. IsFiniteSet(Identities) /\ Cardinality(Identities) <= Cardinality(calls)
  BY <1>1, <1>2, FS_Surjection
<1>4. Identities \subseteq 1..MaxCalls
  BY <1>1 DEF Identities, Calls
<1>5. IsFiniteSet(1..MaxCalls) /\ Cardinality(1..MaxCalls) = MaxCalls
  BY FS_Interval
<1>6. IsFiniteSet(FreeIds)
  <2>1. FreeIds \subseteq 1..MaxCalls
    BY DEF FreeIds
  <2> QED BY <2>1, <1>5, FS_Subset
<1>7. FreeIds \cup Identities = 1..MaxCalls /\ FreeIds \cap Identities = {}
  BY <1>4 DEF FreeIds
<1>8. Cardinality(1..MaxCalls) = Cardinality(FreeIds) + Cardinality(Identities) - Cardinality({})
  BY <1>3, <1>6, <1>7, FS_Union
<1>9. /\ Cardinality(FreeIds) \in Nat /\ Cardinality(calls) \in Nat
      /\ Cardinality(Identities) \in Nat /\ Cardinality({}) = 0
  BY <1>1, <1>3, <1>6, FS_CardinalityType, FS_EmptySet
<1> QED BY <1>3, <1>5, <1>6, <1>8, <1>9

LEMMA FreeIdIs ==
  ASSUME QueueTyped, Cardinality(calls) < MaxCalls
  PROVE  FreeId \in 1..MaxCalls /\ \A c \in calls : c.id # FreeId
<1>1. Cardinality(FreeIds) > 0
  BY FreeIdsAre, OfflineQueueAssumption
<1>2. FreeIds # {}
  BY <1>1, FS_EmptySet
<1>3. \E i \in 1..MaxCalls : \A c \in calls : c.id # i
  BY <1>2 DEF FreeIds, Identities
<1> QED BY <1>3 DEF FreeId

(* The identities of a replay's requests are new. *)
LEMMA ReplayIds ==
  ASSUME QueueTyped, Cardinality(calls) + Cardinality(Queued) <= MaxCalls
  PROVE  \E f \in [Queued -> 1..MaxCalls] :
            /\ \A s \in Queued : \A c \in calls : c.id # f[s]
            /\ \A s, t \in Queued : f[s] = f[t] => s = t
<1> DEFINE n == Cardinality(Queued)  m == Cardinality(FreeIds)
<1>1. n \in Nat /\ ExistsBijection(1..n, Queued)
  BY FS_CardinalityType DEF QueueTyped
<1>2. m \in Nat /\ ExistsBijection(1..m, FreeIds) /\ n <= m
  BY <1>1, FreeIdsAre, FS_CardinalityType, OfflineQueueAssumption
<1>3. ExistsInjection(Queued, 1..n)
  BY <1>1, Fun_ExistsBijEquiv
<1>4. ExistsInjection(1..m, FreeIds)
  BY <1>2, Fun_ExistsBijEquiv
<1>5. ExistsInjection(1..n, 1..m)
  BY <1>1, <1>2, Fun_NatInjLeq
<1>6. ExistsInjection(Queued, 1..m)
  BY <1>3, <1>5, Fun_ExistsInjTransitive
<1>7. ExistsInjection(Queued, FreeIds)
  BY <1>4, <1>6, Fun_ExistsInjTransitive
<1>8. PICK f \in [Queued -> FreeIds] : \A s, t \in Queued : f[s] = f[t] => s = t
  BY <1>7 DEF ExistsInjection, Injection, IsInjective
<1> QED BY <1>8 DEF FreeIds, Identities

(* A replay has one request for each session that is queued. *)
LEMMA ReplayCallsAre ==
  ASSUME QueueTyped, user \in Users, Cardinality(calls) + Cardinality(Queued) <= MaxCalls
  PROVE  /\ ReplayCalls \subseteq Calls /\ IsFiniteSet(ReplayCalls)
         /\ \A c \in ReplayCalls : \A d \in calls : c.id # d.id
         /\ \A c, d \in ReplayCalls : c.id = d.id => c = d
<1> DEFINE new(f) == /\ \A s \in Queued : \A c \in calls : c.id # f[s]
                     /\ \A s, t \in Queued : f[s] = f[t] => s = t
           id == CHOOSE f \in [Queued -> 1..MaxCalls] : new(f)
           call(s) == [id |-> id[s], kind |-> "replay", phase |-> "sent", session |-> s,
                       method |-> queue[s].method, user |-> user, by |-> queue[s].by]
<1>1. id \in [Queued -> 1..MaxCalls] /\ new(id)
  BY ReplayIds
<1>2. ReplayCalls = {call(s) : s \in Queued}
  BY DEF ReplayCalls
<1> HIDE DEF id
<1>3. \A s \in Queued : s \in Sessions /\ queue[s] \in Entries
  BY DEF QueueTyped, TypeOK, Queued
<1>4. \A s \in Queued : call(s) \in Calls /\ call(s).id = id[s]
  BY <1>1, <1>3 DEF Calls, Entries
<1> DEFINE g == [s \in Queued |-> call(s)]
<1>5. g \in Surjection(Queued, ReplayCalls)
  BY <1>2 DEF Surjection
<1>6. IsFiniteSet(ReplayCalls)
  BY <1>5, FS_Surjection DEF QueueTyped
<1>7. ReplayCalls \subseteq Calls
  BY <1>2, <1>4
<1>8. \A c \in ReplayCalls : \E s \in Queued : c = call(s) /\ c.id = id[s]
  BY <1>2, <1>4
<1> HIDE DEF call, g
<1>9. \A c \in ReplayCalls : \A d \in calls : c.id # d.id
  BY <1>1, <1>8
<1>10. \A c, d \in ReplayCalls : c.id = d.id => c = d
  BY <1>1, <1>8
<1> QED BY <1>6, <1>7, <1>9, <1>10

LEMMA QueueTypedStart == Init => QueueTyped
<1> SUFFICES ASSUME Init PROVE QueueTyped
  OBVIOUS
<1>1. calls = {} /\ Queued = {} /\ IsFiniteSet({})
  BY FS_EmptySet DEF Init, Queued, NoEntries
<1>2. /\ user = None /\ page = "out" /\ saved = {} /\ schedule \in [Users -> SUBSET Sessions]
      /\ loads = {} /\ early = {} /\ clearing = FALSE /\ clicks = 0 /\ faults = 0 /\ visits = 0
  BY DEF Init
<1>3. failing \in Seq([session : Sessions, method : Methods, by : Users])
  <2>1. failing = <<>>
    BY DEF Init
  <2> QED BY <2>1
<1>4. queue \in [Sessions -> Entries \union {None}] /\ owed \in [Sessions -> Promises \union {None}]
  BY DEF Init, NoEntries
<1>5. clicks \in 0..MaxClicks /\ faults \in 0..MaxFaults /\ visits \in 0..MaxVisits
  BY <1>2, OfflineQueueAssumption
<1>6. /\ user \in Users \union {None} /\ (user = None <=> page = "out")
      /\ page \in {"out", "opening", "replaying", "loading", "fetching", "ready"}
      /\ saved \subseteq Sessions /\ loads \subseteq SUBSET Sessions /\ early \subseteq Sessions
      /\ clearing \in BOOLEAN
  BY <1>2
<1>7. calls \subseteq Calls /\ \A c, d \in calls : c.id = d.id => c = d
  BY <1>1
<1>8. TypeOK
  BY <1>2, <1>3, <1>4, <1>5, <1>6, <1>7 DEF TypeOK
<1> QED BY <1>1, <1>8 DEF QueueTyped

Changes == [session : Sessions, method : Methods, by : Users]

\* The bookmarks of a user are sessions, whatever is added or removed.
LEMMA ApplyIs == ASSUME NEW b \in SUBSET Sessions, NEW s \in Sessions, NEW m PROVE Apply(b, s, m) \in SUBSET Sessions
BY DEF Apply

\* The requests that are left, and the entries.
LEMMA FewerCalls ==
  ASSUME QueueTyped, calls' \subseteq calls, queue' = queue \/ (\E s : queue' = [queue EXCEPT ![s] = None])
  PROVE  /\ calls' \subseteq Calls /\ (\A c, d \in calls' : c.id = d.id => c = d)
         /\ IsFiniteSet(calls') /\ IsFiniteSet(Queued')
         /\ queue' \in [Sessions -> Entries \union {None}]
<1>1. queue' \in [Sessions -> Entries \union {None}] /\ Queued' \subseteq Queued
  BY DEF QueueTyped, TypeOK, Queued
<1>2. IsFiniteSet(calls') /\ IsFiniteSet(Queued')
  BY <1>1, FS_Subset DEF QueueTyped
<1> QED BY <1>1, <1>2 DEF QueueTyped, TypeOK

(* A request is answered, or fails. *)
LEMMA AnswerTyped ==
  ASSUME QueueTyped, NEW c \in calls, calls' = calls \ {c}, queue' \in {queue, AfterSuccess(c)},
         failing' \in {failing, Keep(c)}, owed' = owed \/ \E cause \in {"network", "server"} : owed' = Promise(c, cause),
         saved' = saved \/ saved' = Apply(saved, c.session, c.method),
         page' = page \/ (page = "replaying" /\ page' = "loading"),
         early' = early \/ early' = Early(c), faults' \in 0..MaxFaults,
         UNCHANGED <<user, schedule, loads, clearing, clicks, visits>>
  PROVE  QueueTyped'
<1>1. c \in Calls /\ \A d \in calls : d \in Calls
  BY DEF QueueTyped, TypeOK
<1>2. c.session \in Sessions /\ c.method \in Methods /\ c.by \in Users
  BY <1>1 DEF Calls
<1>3. /\ calls' \subseteq Calls /\ (\A d, e \in calls' : d.id = e.id => d = e)
      /\ IsFiniteSet(calls') /\ IsFiniteSet(Queued')
      /\ queue' \in [Sessions -> Entries \union {None}]
  BY FewerCalls DEF AfterSuccess
<1>4. failing' \in Seq(Changes)
  <2>1. [session |-> c.session, method |-> c.method, by |-> c.by] \in Changes
    BY <1>2 DEF Changes
  <2>2. failing \in Seq(Changes)
    BY DEF QueueTyped, TypeOK, Changes
  <2> QED BY <2>1, <2>2 DEF Keep
<1>5. owed' \in [Sessions -> Promises \union {None}]
  BY <1>2 DEF Promise, Promises, QueueTyped, TypeOK
<1>6. saved' \subseteq Sessions
  BY <1>2, ApplyIs DEF QueueTyped, TypeOK
<1>7. early' \subseteq Sessions
  BY <1>1 DEF Early, Replays, Calls, QueueTyped, TypeOK
<1> QED BY <1>3, <1>4, <1>5, <1>6, <1>7 DEF QueueTyped, TypeOK, Changes

(* A request changes what it is, but not its identity. *)
LEMMA RelabelTyped ==
  ASSUME QueueTyped, NEW f \in [calls -> Calls], calls' = {f[c] : c \in calls}, \A c \in calls : f[c].id = c.id
  PROVE  calls' \subseteq Calls /\ (\A c, d \in calls' : c.id = d.id => c = d) /\ IsFiniteSet(calls')
<1>1. calls' \subseteq Calls
  OBVIOUS
<1>2. \A c, d \in calls' : c.id = d.id => c = d
  BY DEF QueueTyped, TypeOK
<1>3. f \in Surjection(calls, calls')
  BY DEF Surjection
<1> QED BY <1>1, <1>2, <1>3, FS_Surjection DEF QueueTyped

(* Every step keeps the types. *)
LEMMA QueueTypedStep == QueueTyped /\ [Next]_vars => QueueTyped'
<1> SUFFICES ASSUME QueueTyped, [Next]_vars PROVE QueueTyped'
  OBVIOUS
<1> USE OfflineQueueAssumption
<1>0. failing \in Seq(Changes) /\ IsFiniteSet(calls) /\ IsFiniteSet(Queued)
  BY DEF QueueTyped, TypeOK, Changes
<1>1. ASSUME NEW s \in Sessions, ToggleSaveSession(s) PROVE QueueTyped'
  <2> DEFINE c == [id |-> FreeId, kind |-> "click", phase |-> "sent", session |-> s,
                   method |-> IF s \in saved THEN "DELETE" ELSE "PUT", user |-> user, by |-> user]
  <2>1. FreeId \in 1..MaxCalls /\ \A d \in calls : d.id # FreeId
    BY <1>1, FreeIdIs DEF ToggleSaveSession
  <2>2. c \in Calls /\ c.id = FreeId
    BY <1>1, <2>1 DEF ToggleSaveSession, Calls, Methods, QueueTyped, TypeOK
  <2>3. calls' = calls \union {c}
    BY <1>1 DEF ToggleSaveSession
  <2> HIDE DEF c
  <2>4. IsFiniteSet(calls')
    BY <1>0, <2>3, FS_AddElement
  <2>5. calls' \subseteq Calls /\ \A d, e \in calls' : d.id = e.id => d = e
    BY <2>1, <2>2, <2>3 DEF QueueTyped, TypeOK
  <2>6. clicks' \in 0..MaxClicks
    BY <1>1 DEF ToggleSaveSession, QueueTyped, TypeOK
  <2> QED BY <1>1, <2>4, <2>5, <2>6 DEF ToggleSaveSession, QueueTyped, TypeOK, Queued
<1>2. ASSUME NEW u \in Users, SignIn(u) PROVE QueueTyped'
  BY <1>2 DEF SignIn, QueueTyped, TypeOK, Queued
<1>3. CASE Reload
  <2> DEFINE f == [c \in calls |-> [c EXCEPT !.kind = "orphan"]]
  <2>1. f \in [calls -> Calls] /\ \A c \in calls : f[c].id = c.id
    BY DEF QueueTyped, TypeOK, Calls
  <2>2. calls' = {f[c] : c \in calls}
    BY <1>3 DEF Reload
  <2> HIDE DEF f
  <2>3. calls' \subseteq Calls /\ (\A c, d \in calls' : c.id = d.id => c = d) /\ IsFiniteSet(calls')
    BY <2>1, <2>2, RelabelTyped
  <2> QED BY <1>3, <2>3 DEF Reload, QueueTyped, TypeOK, Queued
<1>4. CASE SignOut
  BY <1>4 DEF SignOut, QueueTyped, TypeOK, Queued, NoEntries
<1>5. CASE ClearQueuedRequests
  <2>1. Queued' = {} /\ IsFiniteSet({})
    BY <1>5, FS_EmptySet DEF ClearQueuedRequests, Queued, NoEntries
  <2>2. IsFiniteSet(Queued')
    BY <2>1
  <2> QED BY <1>5, <2>2 DEF ClearQueuedRequests, QueueTyped, TypeOK, NoEntries
<1>6. CASE QueueFailedRequest
  <2> DEFINE f == Head(failing)
  <2>1. f \in Changes /\ Tail(failing) \in Seq(Changes)
    BY <1>0, <1>6 DEF QueueFailedRequest
  <2>2. queue' = [queue EXCEPT ![f.session] = [method |-> f.method, by |-> f.by]] /\ failing' = Tail(failing)
    BY <1>6 DEF QueueFailedRequest
  <2> HIDE DEF f
  <2>3. queue' \in [Sessions -> Entries \union {None}] /\ Queued' \subseteq Queued \union {f.session}
    BY <2>1, <2>2 DEF Changes, Entries, QueueTyped, TypeOK, Queued
  <2>4. IsFiniteSet(Queued')
    BY <1>0, <2>3, FS_AddElement, FS_Subset
  <2> QED BY <1>6, <2>1, <2>2, <2>3, <2>4 DEF QueueFailedRequest, QueueTyped, TypeOK, Changes
<1>7. CASE ReplayQueuedRequests
  <2>1. user \in Users /\ Cardinality(calls) + Cardinality(Queued) <= MaxCalls
    BY <1>7 DEF ReplayQueuedRequests, QueueTyped, TypeOK
  <2>2. /\ ReplayCalls \subseteq Calls /\ IsFiniteSet(ReplayCalls)
        /\ \A c \in ReplayCalls : \A d \in calls : c.id # d.id
        /\ \A c, d \in ReplayCalls : c.id = d.id => c = d
    BY <2>1, ReplayCallsAre
  <2>3. calls' = calls \union ReplayCalls
    BY <1>7 DEF ReplayQueuedRequests
  <2>4. IsFiniteSet(calls')
    BY <1>0, <2>2, <2>3, FS_Union
  <2>5. calls' \subseteq Calls /\ \A d, e \in calls' : d.id = e.id => d = e
    BY <2>2, <2>3 DEF QueueTyped, TypeOK
  <2> QED BY <1>7, <2>1, <2>4, <2>5 DEF ReplayQueuedRequests, QueueTyped, TypeOK, Queued
<1>8. ASSUME NEW c \in calls, Serve(c) PROVE QueueTyped'
  <2> DEFINE f == [d \in calls |-> IF d = c THEN [c EXCEPT !.phase = "served"] ELSE d]
  <2>1. f \in [calls -> Calls] /\ \A d \in calls : f[d].id = d.id
    BY DEF QueueTyped, TypeOK, Calls
  <2>2. calls' = {f[d] : d \in calls}
    BY <1>8 DEF Serve
  <2> HIDE DEF f
  <2>3. calls' \subseteq Calls /\ (\A d, e \in calls' : d.id = e.id => d = e) /\ IsFiniteSet(calls')
    BY <2>1, <2>2, RelabelTyped
  <2>4. c.session \in Sessions /\ c.user \in Users
    BY DEF QueueTyped, TypeOK, Calls
  <2>5. schedule' \in [Users -> SUBSET Sessions]
    <3>1. Apply(schedule[c.user], c.session, c.method) \in SUBSET Sessions
      BY <2>4, ApplyIs DEF QueueTyped, TypeOK
    <3> QED BY <1>8, <2>4, <3>1 DEF Serve, QueueTyped, TypeOK
  <2>6. owed' \in [Sessions -> Promises \union {None}]
    BY <1>8, <2>4 DEF Serve, QueueTyped, TypeOK
  <2> QED BY <1>8, <2>3, <2>5, <2>6 DEF Serve, QueueTyped, TypeOK, Queued
<1>20. faults < MaxFaults => faults + 1 \in 0..MaxFaults
  BY DEF QueueTyped, TypeOK
<1>9. ASSUME NEW c \in calls, Succeed(c) PROVE QueueTyped'
  <2>1. page' = page \/ (page = "replaying" /\ page' = "loading")
    BY <1>9 DEF Succeed, AfterReplay
  <2>2. saved' = saved \/ saved' = Apply(saved, c.session, c.method)
    BY <1>9 DEF Succeed
  <2>3. faults' \in 0..MaxFaults
    BY <1>9 DEF Succeed, QueueTyped, TypeOK
  <2> QED BY <1>9, <2>1, <2>2, <2>3, AnswerTyped DEF Succeed
<1>10. ASSUME NEW c \in calls, NetworkError(c) PROVE QueueTyped'
  <2>1. page' = page \/ (page = "replaying" /\ page' = "loading")
    BY <1>10 DEF NetworkError, AfterReplay
  <2> QED BY <1>10, <1>20, <2>1, AnswerTyped DEF NetworkError
<1>11. ASSUME NEW c \in calls, ServerError(c) PROVE QueueTyped'
  <2>1. page' = page \/ (page = "replaying" /\ page' = "loading")
    BY <1>11 DEF ServerError, AfterReplay
  <2> QED BY <1>11, <1>20, <2>1, AnswerTyped DEF ServerError
<1>12. ASSUME NEW c \in calls, ClientError(c) PROVE QueueTyped'
  <2>1. page' = page \/ (page = "replaying" /\ page' = "loading")
    BY <1>12 DEF ClientError, AfterReplay
  <2> QED BY <1>12, <1>20, <2>1, AnswerTyped DEF ClientError
<1>13. CASE LoadUserSchedule
  <2>1. schedule[user] \in SUBSET Sessions
    BY <1>13 DEF LoadUserSchedule, QueueTyped, TypeOK
  <2> QED BY <1>13, <2>1 DEF LoadUserSchedule, QueueTyped, TypeOK, Queued
<1>14. CASE UpdateSavedSessionsUI
  BY <1>14 DEF UpdateSavedSessionsUI, QueueTyped, TypeOK, Queued
<1>15. CASE UNCHANGED vars
  BY <1>15 DEF vars, QueueTyped, TypeOK, Queued
<1> QED BY <1>1, <1>2, <1>3, <1>4, <1>5, <1>6, <1>7, <1>8, <1>9, <1>10, <1>11, <1>12,
           <1>13, <1>14, <1>15 DEF Next

-----------------------------------------------------------------------------
(* The types of the audio engine.                                          *)

\* The bounds that EngineInv does not have.
EngineBounds ==
    /\ mode \in {"off", "playing", "paused", "closing", "closed"} /\ volume \in {"none", "mid", "full"}
    /\ \A i \in DOMAIN tweens : tweens[i].wait <= Delay /\ tweens[i].left <= Fade + Long
    /\ \A i \in DOMAIN timers : timers[i] <= Interval
    /\ ticks \in 0..MaxTicks /\ beat \in 0..(TotalBeats - 1) /\ ahead \in -MaxBehind..(LookAhead + NoteLength)

EngineTyped == EngineInv /\ EngineBounds

LEMMA EngineTypedStart == EngineInit => EngineTyped
<1> SUFFICES ASSUME EngineInit PROVE EngineTyped
  OBVIOUS
<1>1. /\ mode = "off" /\ volume = "full" /\ tweens = <<>> /\ timers = <<>> /\ ticks = 0 /\ beat = 0 /\ ahead = 0
  BY DEF EngineInit
<1>2. DOMAIN tweens = {} /\ DOMAIN timers = {}
  BY <1>1
<1>3. /\ TotalBeats \in Nat \ {0} /\ MaxTicks \in Nat /\ MaxBehind \in Nat /\ LookAhead \in Nat /\ NoteLength \in Nat
  BY AudioEngineAssumption
<1>4. ticks \in 0..MaxTicks /\ beat \in 0..(TotalBeats - 1) /\ ahead \in -MaxBehind..(LookAhead + NoteLength)
  BY <1>1, <1>3
<1>5. EngineBounds
  BY <1>1, <1>2, <1>4 DEF EngineBounds
<1> QED BY <1>5, EngineInitially DEF EngineTyped

\* A fade that begins.
LEMMA TweenBounded ==
  ASSUME EngineTyped, NEW t, t.wait <= Delay, t.left <= Fade + Long, tweens' = Append(tweens, t)
  PROVE  \A i \in DOMAIN tweens' : tweens'[i].wait <= Delay /\ tweens'[i].left <= Fade + Long
<1>1. tweens \in Seq(Fades)
  BY DEF EngineTyped, EngineInv, EngineShape
<1>2. \A i \in DOMAIN tweens' : tweens'[i] = t \/ (i \in DOMAIN tweens /\ tweens'[i] = tweens[i])
  BY <1>1
<1> QED BY <1>2 DEF EngineTyped, EngineBounds

\* The fade-in begins with a start, which may change the sequencer.
LEMMA FadedInBounded ==
  ASSUME EngineTyped, NEW frames \in {Fade, Long}, NEW wait \in {0, Delay}, FadeIn(frames, wait),
         mode' \in {mode, "playing"}, UNCHANGED <<worker, ticks>>
  PROVE  EngineBounds'
<1> DEFINE t == [to |-> "full", wait |-> wait, left |-> frames, then |-> "none"]
<1>1. t.wait <= Delay /\ t.left <= Fade + Long /\ tweens' = Append(tweens, t)
  BY AudioEngineAssumption DEF FadeIn
<1> HIDE DEF t
<1>2. \A i \in DOMAIN tweens' : tweens'[i].wait <= Delay /\ tweens'[i].left <= Fade + Long
  BY <1>1, TweenBounded
<1>3. volume' \in {volume, "none"} /\ ahead' \in {ahead, 0} /\ beat' = beat
  BY DEF FadeIn, Start, sequencer
<1>4. 0 \in -MaxBehind..(LookAhead + NoteLength)
  BY AudioEngineAssumption
<1> QED BY <1>2, <1>3, <1>4 DEF EngineTyped, EngineBounds, worker

LEMMA FadedOutBounded ==
  ASSUME EngineTyped, NEW then, FadeOut(then), mode' \in {"paused", "closing"}, UNCHANGED <<worker, ticks>>
  PROVE  EngineBounds'
<1> DEFINE t == [to |-> "none", wait |-> 0, left |-> Fade, then |-> then]
<1>1. t.wait <= Delay /\ t.left <= Fade + Long /\ tweens' = Append(tweens, t)
  BY AudioEngineAssumption DEF FadeOut
<1> HIDE DEF t
<1>2. \A i \in DOMAIN tweens' : tweens'[i].wait <= Delay /\ tweens'[i].left <= Fade + Long
  BY <1>1, TweenBounded
<1> QED BY <1>2 DEF FadeOut, EngineTyped, EngineBounds, worker, sequencer

LEMMA EngineBoundsStep == ASSUME EngineTyped, [EngineNext]_engineVars PROVE EngineBounds'
<1>0. EngineShape /\ InTurn /\ EngineBounds
  BY DEF EngineTyped, EngineInv
<1>1. CASE Enter
  BY <1>1, FadedInBounded DEF Enter
<1>2. CASE Pause
  BY <1>2, FadedOutBounded DEF Pause
<1>3. CASE Play
  BY <1>3, FadedInBounded DEF Play
<1>4. CASE Exit
  BY <1>4, FadedOutBounded DEF Exit
<1>5. CASE Hide
  BY <1>0, <1>5 DEF Hide, Stop, EngineBounds, worker, sequencer
<1>6. CASE Show
  <2>1. CASE listening
    BY <1>6, <2>1, FadedInBounded DEF Show
  <2>2. CASE ~listening
    BY <1>0, <1>6, <2>2 DEF Show, EngineBounds, worker, sequencer, sound
  <2> QED BY <2>1, <2>2
<1>7. CASE Frame
  <2> DEFINE moved == [i \in DOMAIN tweens |-> Progress(tweens[i])]
             writers == {i \in DOMAIN tweens : tweens[i].wait = 0 /\ ~FadeOver(tweens[i])}
  <2>1. \A i \in DOMAIN tweens : tweens[i] \in Fades
    BY <1>0, ElementOfSeq DEF EngineShape
  <2>2. \A i \in DOMAIN tweens : moved[i] \in Fades /\ moved[i].wait <= Delay /\ moved[i].left <= Fade + Long
    BY <1>0, <2>1, AudioEngineAssumption DEF EngineBounds, Fades, Progress, FadeOver
  <2>3. \/ volume' = volume
        \/ \E last \in writers : volume' = IF FadeOver(moved[last]) THEN moved[last].to ELSE "mid"
    BY <1>7 DEF Frame
  <2>4. volume' \in {"none", "mid", "full"}
    BY <1>0, <2>2, <2>3 DEF EngineBounds, Fades
  <2>5. tweens' = <<>> \/ tweens' = moved
    BY <1>7 DEF Frame
  <2>6. DOMAIN moved = DOMAIN tweens /\ DOMAIN <<>> = {}
    OBVIOUS
  <2> HIDE DEF moved
  <2>7. \A i \in DOMAIN tweens' : tweens'[i].wait <= Delay /\ tweens'[i].left <= Fade + Long
    BY <2>2, <2>5, <2>6
  <2>8. mode' \in {mode, "closed"} /\ UNCHANGED <<timers, ticks, beat, ahead>>
    BY <1>7 DEF Frame, worker, sequencer
  <2> QED BY <1>0, <2>4, <2>7, <2>8 DEF EngineBounds
<1>8. CASE Command
  <2>1. UNCHANGED <<mode, volume, tweens, ticks, beat, ahead>>
    BY <1>8 DEF Command, button, sound, sequencer
  <2>2. \A i \in DOMAIN timers' : timers'[i] <= Interval
    <3>1. CASE Head(mailbox) = "start"
      <4>1. timers' = Append(timers, Interval) /\ timers \in Seq(Nat \ {0}) /\ Interval \in Nat
        BY <1>0, <1>8, <3>1, AudioEngineAssumption DEF Command, EngineShape
      <4>2. \A i \in DOMAIN timers' : timers'[i] = Interval \/ (i \in DOMAIN timers /\ timers'[i] = timers[i])
        BY <4>1
      <4> QED BY <1>0, <4>1, <4>2 DEF EngineBounds
    <3>2. CASE Head(mailbox) # "start"
      <4>1. CASE timerID = 0
        BY <1>0, <1>8, <3>2, <4>1 DEF Command, EngineBounds
      <4>2. CASE timerID # 0
        <5>1. Len(timers) = 1 /\ timers' = [i \in 1..(Len(timers) - 1) |-> timers[IF i < timerID THEN i ELSE i + 1]]
          BY <1>0, <1>8, <3>2, <4>2 DEF Command, InTurn
        <5>2. DOMAIN timers' = {}
          BY <5>1
        <5> QED BY <5>2
      <4> QED BY <4>1, <4>2
    <3> QED BY <3>1, <3>2
  <2> QED BY <1>0, <2>1, <2>2 DEF EngineBounds
<1>9. CASE Clock
  <2> DEFINE fired == {i \in DOMAIN timers : timers[i] = 1}
  <2>1. IsFiniteSet(fired)
    <3>1. DOMAIN timers = 1..Len(timers) /\ Len(timers) \in Nat
      BY <1>0 DEF EngineShape
    <3>2. fired \subseteq 1..Len(timers)
      BY <3>1
    <3>3. IsFiniteSet(1..Len(timers))
      BY <3>1, FS_Interval
    <3> HIDE DEF fired
    <3> QED BY <3>2, <3>3, FS_Subset
  <2>2. Cardinality(fired) \in Nat
    BY <2>1, FS_CardinalityType
  <2>3. ticks' = ticks + Cardinality(fired) /\ ticks + Cardinality(fired) <= MaxTicks
    BY <1>9 DEF Clock
  <2>4. ticks' \in 0..MaxTicks
    BY <1>0, <2>2, <2>3, AudioEngineAssumption DEF EngineBounds
  <2>5. \A i \in DOMAIN timers' : timers'[i] <= Interval
    <3>1. \A i \in DOMAIN timers : timers[i] \in Nat
      BY <1>0, ElementOfSeq DEF EngineShape
    <3> QED BY <1>0, <1>9, <3>1, AudioEngineAssumption DEF Clock, EngineBounds
  <2>6. ahead' \in -MaxBehind..(LookAhead + NoteLength)
    BY <1>0, <1>9, AudioEngineAssumption DEF Clock, EngineBounds
  <2>7. UNCHANGED <<mode, volume, tweens, beat>>
    BY <1>9 DEF Clock, button, sound
  <2> QED BY <1>0, <2>4, <2>5, <2>6, <2>7 DEF EngineBounds
<1>10. CASE OnTick
  <2>1. /\ MaxTicks \in Nat /\ TotalBeats \in Nat \ {0} /\ LookAhead \in Nat /\ NoteLength \in Nat /\ MaxBehind \in Nat
    BY AudioEngineAssumption
  <2>2. ahead \in Int /\ ahead >= -MaxBehind /\ ahead <= LookAhead + NoteLength /\ ticks \in 0..MaxTicks /\ beat \in Nat
    BY <1>0, <2>1 DEF EngineBounds
  <2>3. Upcoming \in Nat /\ ahead + Upcoming * NoteLength >= LookAhead /\ (Upcoming > 0 => ahead + Upcoming * NoteLength < LookAhead + NoteLength)
    BY <2>2, UpcomingReaches
  <2>4. ahead' = ahead + Upcoming * NoteLength /\ beat' = (beat + Upcoming) % TotalBeats /\ ticks' = ticks - 1 /\ ticks > 0
    BY <1>10 DEF OnTick
  <2>5. UNCHANGED <<mode, volume, tweens, timers>>
    BY <1>10 DEF OnTick, button, sound, worker
  <2> DEFINE u == Upcoming  scheduled == u * NoteLength
  <2>6. scheduled \in Nat /\ (u = 0 => scheduled = 0)
    BY <2>1, <2>3
  <2>7. ahead' \in -MaxBehind..(LookAhead + NoteLength)
    <3> HIDE DEF u
    <3>1. ahead' = ahead + scheduled /\ (u > 0 => ahead + scheduled < LookAhead + NoteLength) /\ u \in Nat
      BY <2>3, <2>4 DEF u
    <3> HIDE DEF scheduled
    <3> QED BY <2>1, <2>2, <2>6, <3>1
  <2>8. beat' \in 0..(TotalBeats - 1)
    BY <2>1, <2>2, <2>3, <2>4
  <2>9. ticks' \in 0..MaxTicks
    BY <2>1, <2>2, <2>4
  <2> QED BY <1>0, <2>5, <2>7, <2>8, <2>9 DEF EngineBounds
<1>11. CASE UNCHANGED engineVars
  BY <1>0, <1>11 DEF engineVars, button, sound, worker, sequencer, EngineBounds
<1> QED
  BY <1>1, <1>2, <1>3, <1>4, <1>5, <1>6, <1>7, <1>8, <1>9, <1>10, <1>11 DEF EngineNext

LEMMA EngineIsTyped == EngineTyped => EngineTypeOK
<1> SUFFICES ASSUME EngineTyped PROVE EngineTypeOK
  OBVIOUS
<1>1. EngineShape /\ InTurn /\ EngineBounds
  BY DEF EngineTyped, EngineInv
<1>2. \A i \in DOMAIN tweens : tweens[i] \in Tweens
  <2>1. \A i \in DOMAIN tweens : tweens[i] \in Fades
    BY <1>1, ElementOfSeq DEF EngineShape
  <2> QED BY <1>1, <2>1, AudioEngineAssumption DEF EngineBounds, Fades, Tweens
<1>3. \A i \in DOMAIN mailbox : mailbox[i] \in {"start", "stop"}
  BY <1>1, ElementOfSeq DEF EngineShape, Commands
<1>4. \A i \in DOMAIN timers : timers[i] \in 1..Interval
  <2>1. \A i \in DOMAIN timers : timers[i] \in Nat \ {0}
    BY <1>1, ElementOfSeq DEF EngineShape
  <2> QED BY <1>1, <2>1, AudioEngineAssumption DEF EngineBounds
<1>5. timerID \in 0..Len(timers)
  <2>1. CASE timers = <<>> /\ timerID = 0
    <3>1. Len(timers) = 0
      BY <2>1
    <3> QED BY <2>1, <3>1
  <2>2. CASE Len(timers) = 1 /\ timerID = 1
    BY <2>2
  <2> QED BY <1>1, <2>1, <2>2 DEF InTurn
<1> QED BY <1>1, <1>2, <1>3, <1>4, <1>5 DEF EngineShape, EngineBounds, EngineTypeOK

-----------------------------------------------------------------------------
(* The types of the instruments.                                           *)

\* What a track plays at a beat are notes of the recording it was made from.
LEMMA NotesAtAre == ASSUME NEW notes \in Seq(Notes), NEW b PROVE NotesAt(notes, b) \in Seq(Notes)
<1> DEFINE n == Len(notes)
           after(i, before) == IF notes[i].beat = b THEN Append(before, notes[i]) ELSE before
           Is(g, k) == g = [i \in 0..k |-> IF i = 0 THEN <<>> ELSE after(i, g[i - 1])]
           Has(k) == \E g \in [0..k -> Seq(Notes)] : Is(g, k)
           Found == {k \in Nat : k <= n => Has(k)}
<1>1. n \in Nat /\ \A i \in 1..n : notes[i] \in Notes
  BY ElementOfSeq
<1>2. \A i \in 1..n : \A before \in Seq(Notes) : after(i, before) \in Seq(Notes)
  BY <1>1
<1>3. <<>> \in Seq(Notes)
  OBVIOUS
<1> HIDE DEF n, after
<1>4. 0 \in Found
  <2> DEFINE g == [i \in 0..0 |-> <<>>]
  <2>1. g \in [0..0 -> Seq(Notes)] /\ g[0] = <<>>
    BY <1>3
  <2>2. Is(g, 0)
    BY <2>1
  <2> QED BY <2>1, <2>2
<1>5. ASSUME NEW k \in Nat, k \in Found PROVE k + 1 \in Found
  <2> SUFFICES ASSUME k + 1 <= n PROVE Has(k + 1)
    <3> HIDE DEF Has
    <3> QED OBVIOUS
  <2>0. Has(k)
    <3> HIDE DEF Has
    <3> QED BY <1>1, <1>5
  <2>1. PICK g \in [0..k -> Seq(Notes)] : Is(g, k)
    BY <2>0
  <2> DEFINE h == [i \in 0..(k + 1) |-> IF i = 0 THEN <<>> ELSE after(i, g[i - 1])]
  <2>2. \A i \in 0..k : h[i] = g[i]
    BY <2>1
  <2>3. \A i \in 1..(k + 1) : i - 1 \in 0..k /\ i \in 1..n
    BY <1>1
  <2>4. h \in [0..(k + 1) -> Seq(Notes)]
    <3>1. \A i \in 0..(k + 1) : (IF i = 0 THEN <<>> ELSE after(i, g[i - 1])) \in Seq(Notes)
      <4>1. ASSUME NEW i \in 1..(k + 1) PROVE after(i, g[i - 1]) \in Seq(Notes)
        <5>1. i - 1 \in 0..k /\ i \in 1..n
          BY <2>3
        <5>2. g[i - 1] \in Seq(Notes)
          BY <2>1, <5>1, Zenon
        <5> QED BY <1>2, <5>1, <5>2, Zenon
      <4>2. \A i \in 0..(k + 1) : i = 0 \/ i \in 1..(k + 1)
        OBVIOUS
      <4> HIDE DEF after
      <4> QED BY <1>3, <4>1, <4>2, Zenon
    <3> QED BY <3>1
  <2>5. \A i \in 0..(k + 1) : i # 0 => i - 1 \in 0..k
    OBVIOUS
  <2>6. h = [i \in 0..(k + 1) |-> IF i = 0 THEN <<>> ELSE after(i, h[i - 1])]
    <3>1. \A i \in 0..(k + 1) : (IF i = 0 THEN <<>> ELSE after(i, g[i - 1])) = (IF i = 0 THEN <<>> ELSE after(i, h[i - 1]))
      <4> HIDE DEF h
      <4> QED BY <2>2, <2>5
    <3> QED BY <3>1
  <2> QED BY <2>4, <2>6
<1>6. PICK g \in [0..n -> Seq(Notes)] : Is(g, n)
  <2>1. Nat \subseteq Found
    <3> HIDE DEF Found
    <3> QED BY <1>4, <1>5, NatInd
  <2>2. n \in Found
    BY <1>1, <2>1
  <2>3. Has(n)
    <3> HIDE DEF Has
    <3> QED BY <1>1, <2>2
  <2> QED BY <2>3
<1> DEFINE table == CHOOSE f : Is(f, n)
<1>7. Is(table, n)
  BY <1>6
<1>8. NotesAt(notes, b) = table[n]
  BY DEF NotesAt, n, after
<1> HIDE DEF table
<1> DEFINE Typed == {k \in Nat : k <= n => table[k] \in Seq(Notes)}
<1>9. 0 \in Typed
  BY <1>1, <1>3, <1>7
<1>10. ASSUME NEW k \in Nat, k \in Typed PROVE k + 1 \in Typed
  <2> SUFFICES ASSUME k + 1 <= n PROVE table[k + 1] \in Seq(Notes)
    OBVIOUS
  <2>1. table[k + 1] = after(k + 1, table[k]) /\ k + 1 \in 1..n
    BY <1>1, <1>7
  <2>2. table[k] \in Seq(Notes)
    BY <1>1, <1>10
  <2> QED BY <1>2, <2>1, <2>2
<1>11. Nat \subseteq Typed
  <2> HIDE DEF Typed
  <2> QED BY <1>9, <1>10, NatInd
<1> QED BY <1>1, <1>8, <1>11

\* What each track plays.
LookupTyped == recorded \in Seq(Notes) /\ lookup \in Seq([0..(LoopBeats - 1) -> Seq(Notes)])

InstrumentTyped == InstrumentTypeOK /\ LookupTyped

LEMMA LookupIs == ASSUME NEW notes \in Seq(Notes) PROVE Lookup(notes) \in [0..(LoopBeats - 1) -> Seq(Notes)]
BY NotesAtAre DEF Lookup

LEMMA StoredAre == \A notes \in Stored : notes \in Seq(Notes)
BY InstrumentsAssumption DEF Notes

LEMMA InstrumentTypedStart == InstrumentInit => InstrumentTyped
<1> SUFFICES ASSUME InstrumentInit PROVE InstrumentTyped
  OBVIOUS
<1> DEFINE L == [0..(LoopBeats - 1) -> Seq(Notes)]
<1>1. firstLoadData \in Stored /\ recorded \in Seq(Notes) /\ lookup = <<Lookup(recorded)>>
  BY StoredAre DEF InstrumentInit
<1>2. Lookup(recorded) \in L
  BY <1>1, LookupIs
<1> HIDE DEF L
<1>3. lookup \in Seq(L) /\ Len(lookup) = 1
  BY <1>1, <1>2
<1>4. quadrant \in Voices
  BY InstrumentsAssumption DEF InstrumentInit
<1>5. currentTrack \in 1..Len(lookup) /\ tracks \subseteq 1..Len(lookup) /\ Len(lookup) <= MaxTracks
  <2>1. currentTrack = 1 /\ tracks = {1} /\ MaxTracks \in Nat \ {0}
    BY InstrumentsAssumption DEF InstrumentInit
  <2> QED BY <1>3, <2>1
<1>6. currentBeat \in 0..(LoopBeats - 1)
  BY InstrumentsAssumption DEF InstrumentInit
<1>7. /\ kind \in Kinds /\ state \in {"collapsed", "expand"}
      /\ {recording, countingDown, isDragging, strayed, resetOpen} \subseteq BOOLEAN
      /\ pressed \subseteq Voices /\ handlers \subseteq {"keydown", "keyup"}
  BY DEF InstrumentInit
<1>8. InstrumentTypeOK
  BY <1>1, <1>4, <1>5, <1>6, <1>7 DEF InstrumentTypeOK
<1> QED BY <1>1, <1>3, <1>8 DEF InstrumentTyped, LookupTyped, L

\* A new track plays the notes it was made from.
LEMMA NewTrackTyped ==
  ASSUME InstrumentTyped, NEW notes \in Seq(Notes), NewTrack(notes)
  PROVE  /\ lookup' \in Seq([0..(LoopBeats - 1) -> Seq(Notes)]) /\ Len(lookup') = Len(lookup) + 1
         /\ Len(lookup) \in Nat /\ Len(lookup') <= MaxTracks /\ currentTrack' = Len(lookup')
<1> DEFINE L == [0..(LoopBeats - 1) -> Seq(Notes)]
<1>1. Lookup(notes) \in L /\ lookup \in Seq(L)
  BY LookupIs DEF InstrumentTyped, LookupTyped
<1> HIDE DEF L
<1>2. Len(lookup) \in Nat /\ lookup' \in Seq(L) /\ Len(lookup') = Len(lookup) + 1
  BY <1>1 DEF NewTrack
<1>3. Len(lookup) < MaxTracks /\ currentTrack' = Len(lookup) + 1
  BY DEF NewTrack
<1> QED BY <1>2, <1>3, InstrumentsAssumption DEF L

LEMMA AddedIs ==
  ASSUME recorded \in Seq(Notes), currentBeat' \in 0..(LoopBeats - 1), NEW s \in Voices
  PROVE  Added(s) \in Seq(Notes)
<1> DEFINE note == [beat |-> currentBeat', sound |-> s]
<1>1. note \in Notes
  BY DEF Notes
<1>2. Added(s) = IF kind = "parallelogram" THEN <<note>> \o recorded ELSE Append(recorded, note)
  BY DEF Added
<1> HIDE DEF note
<1> QED BY <1>1, <1>2

LEMMA RecordTyped ==
  ASSUME InstrumentTyped, NEW s \in Voices, currentBeat' = currentBeat, Record(s), pressed' \subseteq Voices
  PROVE  InstrumentTyped'
<1>1. recorded' \in Seq(Notes)
  BY AddedIs DEF Record, InstrumentTyped, InstrumentTypeOK, LookupTyped
<1>2. strayed' \in BOOLEAN
  BY DEF Record, InstrumentTyped, InstrumentTypeOK
<1> QED BY <1>1, <1>2 DEF Record, InstrumentTyped, InstrumentTypeOK, LookupTyped

\* The cursor is at what can be played.
LEMMA CursorTyped ==
  ASSUME InstrumentTyped, NEW q \in Voices, NEW held \in BOOLEAN, Cursor(q, held)
  PROVE  InstrumentTyped'
BY DEF Cursor, InstrumentTyped, InstrumentTypeOK, LookupTyped, history

LEMMA InstrumentTypedStep == InstrumentTyped /\ [InstrumentNext]_instrumentVars => InstrumentTyped'
<1> SUFFICES ASSUME InstrumentTyped, [InstrumentNext]_instrumentVars PROVE InstrumentTyped'
  OBVIOUS
<1>0. InstrumentTypeOK /\ LookupTyped /\ recorded \in Seq(Notes) /\ firstLoadData \in Seq(Notes) /\ Len(lookup) \in Nat
  BY StoredAre DEF InstrumentTyped, InstrumentTypeOK, LookupTyped
<1>1. CASE Expand
  BY <1>1 DEF Expand, InstrumentTyped, InstrumentTypeOK, LookupTyped, history
<1>2. CASE Collapse
  BY <1>2 DEF Collapse, InstrumentTyped, InstrumentTypeOK, LookupTyped, history
<1>3. CASE Reset
  <2>1. /\ lookup' \in Seq([0..(LoopBeats - 1) -> Seq(Notes)]) /\ Len(lookup') = Len(lookup) + 1
        /\ Len(lookup') <= MaxTracks /\ currentTrack' = Len(lookup')
    BY <1>0, <1>3, NewTrackTyped DEF Reset
  <2>2. currentTrack' \in 1..Len(lookup') /\ tracks' \subseteq 1..Len(lookup')
    <3>1. tracks \subseteq 1..Len(lookup) /\ tracks' = (tracks \ {currentTrack}) \union {currentTrack'}
      BY <1>0, <1>3 DEF Reset, InstrumentTypeOK
    <3>2. Len(lookup') \in 1..Len(lookup') /\ 1..Len(lookup) \subseteq 1..Len(lookup')
      BY <1>0, <2>1
    <3> QED BY <2>1, <3>1, <3>2
  <2>3. recorded' \in Seq(Notes) /\ resetOpen' \in BOOLEAN /\ pressed' \subseteq Voices
    BY <1>0, <1>3 DEF Reset, InstrumentTypeOK
  <2> QED BY <1>0, <1>3, <2>1, <2>2, <2>3 DEF Reset, InstrumentTyped, InstrumentTypeOK, LookupTyped
<1>4. CASE StartCountdown
  BY <1>4 DEF StartCountdown, InstrumentTyped, InstrumentTypeOK, LookupTyped, performance, history
<1>5. CASE StopRecording
  <2>1. /\ lookup' \in Seq([0..(LoopBeats - 1) -> Seq(Notes)]) /\ Len(lookup') = Len(lookup) + 1
        /\ Len(lookup') <= MaxTracks /\ currentTrack' = Len(lookup')
    BY <1>0, <1>5, NewTrackTyped DEF StopRecording
  <2>2. currentTrack' \in 1..Len(lookup') /\ tracks' \subseteq 1..Len(lookup')
    BY <1>0, <1>5, <2>1 DEF StopRecording, InstrumentTypeOK
  <2> QED BY <1>0, <1>5, <2>1, <2>2
          DEF StopRecording, InstrumentTyped, InstrumentTypeOK, LookupTyped, performance, history
<1>6. CASE OnBeat
  <2>1. currentBeat' \in 0..(LoopBeats - 1)
    BY <1>0, <1>6, InstrumentsAssumption DEF OnBeat, InstrumentTypeOK
  <2>2. UNCHANGED <<kind, state, firstLoadData, currentTrack, lookup, tracks, performance, history>>
    BY <1>6 DEF OnBeat
  <2>3. Added(quadrant) \in Seq(Notes)
    BY <1>0, <2>1, AddedIs DEF InstrumentTypeOK
  <2>4. recorded' \in {<<>>, Added(quadrant), recorded}
    BY <1>6 DEF OnBeat
  <2>5. <<>> \in Seq(Notes)
    OBVIOUS
  <2>6. recorded' \in Seq(Notes)
    BY <1>0, <2>3, <2>4, <2>5
  <2>7. recording' \in BOOLEAN /\ countingDown' \in BOOLEAN
    BY <1>0, <1>6 DEF OnBeat, InstrumentTypeOK
  <2> QED BY <1>0, <2>1, <2>2, <2>6, <2>7 DEF InstrumentTyped, InstrumentTypeOK, LookupTyped, performance, history
<1>7. ASSUME NEW s \in Voices, Hit(s) \/ PlayHexagon(s) PROVE InstrumentTyped'
  BY <1>0, <1>7, RecordTyped DEF Hit, PlayHexagon, InstrumentTypeOK
<1>8. ASSUME NEW s \in Voices, PressParallelogram(s) PROVE InstrumentTyped'
  BY <1>8 DEF PressParallelogram, InstrumentTyped, InstrumentTypeOK, LookupTyped, history
<1>9. ASSUME NEW s \in Voices, ReleaseParallelogram(s) PROVE InstrumentTyped'
  <2>1. currentBeat' = currentBeat /\ pressed' \subseteq Voices
    BY <1>0, <1>9 DEF ReleaseParallelogram, InstrumentTypeOK
  <2>2. CASE recording
    BY <1>9, <2>1, <2>2, RecordTyped DEF ReleaseParallelogram
  <2>3. CASE ~recording
    BY <1>9, <2>1, <2>3 DEF ReleaseParallelogram, InstrumentTyped, InstrumentTypeOK, LookupTyped, history
  <2> QED BY <2>2, <2>3
<1>10. CASE \E s \in Voices : Drag(s) \/ KeyDown(s)
  BY <1>10, CursorTyped DEF Drag, KeyDown
<1>11. CASE Release \/ KeyUp
  BY <1>0, <1>11, CursorTyped DEF Release, KeyUp, InstrumentTypeOK
<1>12. CASE FollowTrack
  <2>1. PICK heard \in PlayedAt(currentBeat) : \E i \in DOMAIN heard.notes : Cursor(heard.notes[i].sound, isDragging)
    BY <1>12 DEF FollowTrack
  <2>2. PICK i \in DOMAIN heard.notes : Cursor(heard.notes[i].sound, isDragging)
    BY <2>1
  <2>3. PICK t \in tracks : heard.notes = lookup[t][currentBeat]
    BY <2>1 DEF PlayedAt
  <2>4. t \in 1..Len(lookup) /\ currentBeat \in 0..(LoopBeats - 1) /\ isDragging \in BOOLEAN
    BY <1>0 DEF InstrumentTypeOK
  <2> DEFINE L == [0..(LoopBeats - 1) -> Seq(Notes)]
  <2>5. lookup \in Seq(L)
    BY <1>0 DEF LookupTyped
  <2> HIDE DEF L
  <2>6. lookup[t] \in L
    BY <2>4, <2>5, ElementOfSeq
  <2>7. lookup[t][currentBeat] \in Seq(Notes)
    BY <2>4, <2>6 DEF L
  <2>8. heard.notes[i] \in Notes
    BY <2>3, <2>7, ElementOfSeq
  <2>9. heard.notes[i].sound \in Voices
    BY <2>8 DEF Notes
  <2> QED BY <2>2, <2>4, <2>9, CursorTyped
<1>13. CASE UNCHANGED instrumentVars
  BY <1>0, <1>13 DEF instrumentVars, performance, history, InstrumentTyped, InstrumentTypeOK, LookupTyped
<1> QED
  BY <1>1, <1>2, <1>3, <1>4, <1>5, <1>6, <1>7, <1>8, <1>9, <1>10, <1>11, <1>12, <1>13 DEF InstrumentNext

-----------------------------------------------------------------------------
(* The types of the drums.                                                 *)

\* A ball that falls or waits for its end was dropped.
LEMMA KitTypedStart == KitInit => KitTypeOK
<1> SUFFICES ASSUME KitInit PROVE KitTypeOK
  OBVIOUS
<1>1. ballPids \in 0..MaxBalls /\ kitBeat \in 0..(KitBeats - 1)
  BY DrumKitAssumption DEF KitInit
<1>2. lastTarget \in [1..MaxBalls -> Drums \union {NoDrum}] /\ currentlyDraggingDrum \in Drums \union {NoDrum}
  BY DEF KitInit
<1>3. attached = {} /\ fingers = {} /\ dragged = {} /\ dots = {} /\ bodies = {} /\ timeouts = {}
  BY DEF KitInit
<1> QED BY <1>1, <1>2, <1>3 DEF KitInit, KitTypeOK

LEMMA KitTypedStep == KitTypeOK /\ [KitNext]_kitVars => KitTypeOK'
<1> SUFFICES ASSUME KitTypeOK, [KitNext]_kitVars PROVE KitTypeOK'
  OBVIOUS
<1> USE DrumKitAssumption
<1>1. CASE OpenKit
  BY <1>1 DEF OpenKit, KitTypeOK, dragging, balls
<1>2. CASE CloseKit
  BY <1>2 DEF CloseKit, KitTypeOK
<1>3. CASE ReloadKit
  BY <1>3 DEF ReloadKit, KitTypeOK, balls
<1>4. CASE KitOnBeat
  <2>1. kitBeat' \in 0..(KitBeats - 1)
    BY <1>4 DEF KitOnBeat, KitTypeOK
  <2>2. /\ ballPids' \in 0..MaxBalls /\ dots' \subseteq 1..ballPids'
        /\ bodies' \subseteq 1..ballPids' /\ timeouts' \subseteq 1..ballPids'
    BY <1>4 DEF KitOnBeat, KitTypeOK
  <2> QED BY <1>4, <2>1, <2>2 DEF KitOnBeat, KitTypeOK, dragging
<1>5. ASSUME NEW d \in Drums, PressDrum(d) \/ ReleaseDrum(d) PROVE KitTypeOK'
  BY <1>5 DEF PressDrum, ReleaseDrum, KitTypeOK, balls
<1>6. ASSUME NEW b \in 1..MaxBalls, BallOnFloor(b) \/ LifetimeOver(b) PROVE KitTypeOK'
  BY <1>6 DEF BallOnFloor, LifetimeOver, Destroy, KitTypeOK, dragging
<1>7. ASSUME NEW b \in 1..MaxBalls, NEW d \in Drums, BallHits(b, d) PROVE KitTypeOK'
  BY <1>7 DEF BallHits, KitTypeOK, dragging
<1>8. CASE UNCHANGED kitVars
  BY <1>8 DEF kitVars, dragging, balls, KitTypeOK
<1> QED BY <1>1, <1>2, <1>3, <1>4, <1>5, <1>6, <1>7, <1>8 DEF KitNext

-----------------------------------------------------------------------------
(* The types of a composition.                                             *)

CompositionTyped == CompositionInv /\ halfDrawn \in BOOLEAN

LEMMA CompositionIsTyped == CompositionTyped => CompositionTypeOK
<1> SUFFICES ASSUME CompositionTyped PROVE CompositionTypeOK
  OBVIOUS
<1>1. PICK data \in Data : firstLoad = ToURL(data)
  BY DEF CompositionTyped, CompositionInv
<1>2. Len(firstLoad) = Cardinality(Names)
  <2> DEFINE n == Cardinality(Names)
             word(i) == [j \in DOMAIN ToArray(data)[i] |-> Runs(ToArray(data)[i][j])]
  <2>1. DOMAIN ToArray(data) = 1..n /\ n \in Nat
    BY SchemaIs DEF ToArray
  <2>2. firstLoad = [i \in 1..n |-> word(i)]
    BY <1>1, <2>1 DEF ToURL
  <2> HIDE DEF word, n
  <2>3. Len(firstLoad) = n
    BY <2>1, <2>2
  <2> QED BY <2>3 DEF n
<1> QED BY <1>2 DEF CompositionTyped, CompositionInv, CompositionTypeOK, Data

LEMMA CompositionTypedStart == CompositionInit => CompositionTyped
BY CompositionStart DEF CompositionInit, CompositionTyped

LEMMA CompositionTypedStep == CompositionTyped /\ [CompositionNext]_compositionVars => CompositionTyped'
<1> SUFFICES ASSUME CompositionTyped, [CompositionNext]_compositionVars PROVE CompositionTyped'
  OBVIOUS
<1>1. CompositionInv'
  BY CompositionStep DEF CompositionTyped
<1>2. halfDrawn' \in BOOLEAN
  BY DEF CompositionTyped, CompositionNext, Edit, Share, OpenLink, ResetData, compositionVars
<1> QED BY <1>1, <1>2 DEF CompositionTyped

-----------------------------------------------------------------------------
(* The types of the guitar's strings, after a reset as well.               *)

Entry == [pid : StringPids, text : BOOLEAN]
Place == GridDots \union {NoDot, OldDot}

LEMMA PidsAre == StringPids \subseteq Nat /\ IsFiniteSet(StringPids) /\ StoredPids \subseteq StringPids
<1>1. StoredPids \subseteq StringPids
  BY DEF StoredPids, StringPids
<1>2. IsFiniteSet(StoredPids)
  <2> DEFINE f == [s \in StoredStrings |-> s.pid]
  <2>1. f \in Surjection(StoredStrings, StoredPids)
    BY DEF Surjection, StoredPids
  <2> QED BY <2>1, FS_Surjection, GuitarStringsAssumption
<1>3. IsFiniteSet(0..(MaxStrings - 1)) /\ 0..(MaxStrings - 1) \subseteq Nat
  BY GridIs, FS_Interval
<1>4. StringPids = (0..(MaxStrings - 1)) \union StoredPids
  BY DEF StringPids, StoredPids
<1>5. IsFiniteSet(StringPids)
  BY <1>2, <1>3, <1>4, FS_Union
<1>6. StoredPids \subseteq Nat
  BY GuitarStringsAssumption DEF StoredPids
<1> QED BY <1>1, <1>3, <1>4, <1>5, <1>6

\* What is left of a pool are entries of it.
LEMMA LeftTyped ==
  ASSUME NEW E, NEW pool \in Seq(E), NEW gone
  PROVE  RemoveFromPool(pool, gone) \in Seq(E)
<1> DEFINE isFirst(i) == \A j \in 1..(i - 1) : pool[j] # pool[i]
           S == {i \in DOMAIN pool : ~(pool[i] \in gone /\ isFirst(i))}
           kept == Ascending(S)
           n == Len(pool)
<1>1. n \in Nat /\ DOMAIN pool = 1..n
  OBVIOUS
<1>2. S \subseteq 1..n
  BY <1>1
<1>3. RemoveFromPool(pool, gone) = [k \in DOMAIN kept |-> pool[kept[k]]]
  BY DEF RemoveFromPool
<1> HIDE DEF S
<1>4. IsFiniteSet(1..n) /\ 1..n \subseteq Nat
  BY <1>1, FS_Interval
<1>5. S \subseteq Nat /\ IsFiniteSet(S)
  BY <1>2, <1>4, FS_Subset
<1>6. DOMAIN kept = 1..Cardinality(S) /\ Cardinality(S) \in Nat /\ \A k \in DOMAIN kept : kept[k] \in S
  BY <1>5, AscendingIs
<1> HIDE DEF kept
<1>7. \A k \in DOMAIN kept : pool[kept[k]] \in E
  BY <1>1, <1>2, <1>6, ElementOfSeq
<1> HIDE DEF n
<1> QED BY <1>3, <1>6, <1>7

LEMMA PoolTyped == ASSUME NEW pool \in Seq(Entry) PROVE PoolOfLoad(pool) \in Seq(Entry)
<1> DEFINE fresh == [i \in 1..MaxStrings |-> Number(i - 1)]
<1>1. \A i \in 1..MaxStrings : Number(i - 1) \in Entry
  <2>1. \A i \in 1..MaxStrings : i - 1 \in StringPids
    BY GridIs DEF StringPids
  <2> QED BY <2>1 DEF Number, Entry
<1>2. fresh \in Seq(Entry)
  BY <1>1, GridIs
<1> HIDE DEF fresh
<1>3. pool \o fresh \in Seq(Entry)
  BY <1>2, ConcatProperties
<1>4. PoolOfLoad(pool) = RemoveFromPool(pool \o fresh, {Number(p) : p \in StoredPids})
  BY DEF PoolOfLoad, fresh
<1> QED BY <1>3, <1>4, LeftTyped

LEMMA StoredStringsAre ==
    /\ DOMAIN StoredEnds = StoredPids /\ \A p \in StoredPids : StoredEnds[p] \in Place \X Place
    /\ StoredOn \in [GridDots -> StringPids \union {NoPid}]
<1>1. \A p \in StoredPids : StoredEnds[p] \in Place \X Place
  <2> TAKE p \in StoredPids
  <2> DEFINE s == CHOOSE t \in StoredStrings : t.pid = p
  <2>1. s \in StoredStrings
    BY DEF StoredPids
  <2>2. StoredEnds[p] = <<s.pointA, s.pointB>>
    BY DEF StoredEnds
  <2> HIDE DEF s
  <2> QED BY <2>1, <2>2, GuitarStringsAssumption DEF Place
<1>2. \A d \in GridDots : StoredOn[d] \in StringPids \union {NoPid}
  <2> TAKE d \in GridDots
  <2> DEFINE s == CHOOSE t \in StoredStrings : d \in {t.pointA, t.pointB}
  <2>1. CASE \E t \in StoredStrings : d \in {t.pointA, t.pointB}
    <3>1. s \in StoredStrings /\ StoredOn[d] = s.pid
      BY <2>1 DEF StoredOn
    <3> HIDE DEF s
    <3> QED BY <3>1 DEF StringPids
  <2>2. CASE ~ \E t \in StoredStrings : d \in {t.pointA, t.pointB}
    BY <2>2 DEF StoredOn
  <2> QED BY <2>1, <2>2
<1>3. DOMAIN StoredEnds = StoredPids /\ DOMAIN StoredOn = GridDots /\ StoredOn = [d \in GridDots |-> StoredOn[d]]
  BY DEF StoredEnds, StoredOn
<1>4. StoredOn \in [GridDots -> StringPids \union {NoPid}]
  BY <1>2, <1>3
<1> QED BY <1>1, <1>3, <1>4

LEMMA GuitarTypedStart == GuitarInit => GuitarTypeOK
<1> SUFFICES ASSUME GuitarInit PROVE GuitarTypeOK
  OBVIOUS
<1>1. <<>> \in Seq(Entry)
  OBVIOUS
<1>2. pidPool \in Seq(Entry)
  BY <1>1, PoolTyped DEF GuitarInit
<1>3. getString = StoredOn /\ guitarStrings = StoredEnds /\ currentDrawingPid = NoPid /\ reloads = 0
  BY DEF GuitarInit
<1>4. reloads \in 0..MaxReloads
  BY <1>3, GuitarStringsAssumption
<1> QED BY <1>2, <1>3, <1>4, StoredStringsAre, PidsAre DEF GuitarInit, GuitarTypeOK, Entry, Place

\* What a step does to the dots, the strings and the pool.
LEMMA GuitarTypedStep == GuitarTypeOK /\ [GuitarNext]_guitarVars => GuitarTypeOK'
<1> SUFFICES ASSUME GuitarTypeOK, [GuitarNext]_guitarVars PROVE GuitarTypeOK'
  OBVIOUS
<1>0. /\ getString \in [GridDots -> StringPids \union {NoPid}] /\ DOMAIN guitarStrings \subseteq StringPids
      /\ \A p \in DOMAIN guitarStrings : guitarStrings[p] \in Place \X Place
      /\ pidPool \in Seq(Entry) /\ currentDrawingPid \in StringPids \union {NoPid}
  BY DEF GuitarTypeOK, Entry, Place
<1>1. CASE ReloadData
  <2> DEFINE old == Ascending(DOMAIN guitarStrings)
             texts == [i \in DOMAIN old |-> Text(old[i])]
  <2>1. DOMAIN guitarStrings \subseteq Nat /\ IsFiniteSet(DOMAIN guitarStrings)
    BY <1>0, PidsAre, FS_Subset
  <2>2. DOMAIN old = 1..Cardinality(DOMAIN guitarStrings) /\ Cardinality(DOMAIN guitarStrings) \in Nat /\ \A k \in DOMAIN old : old[k] \in DOMAIN guitarStrings
    BY <2>1, AscendingIs
  <2> HIDE DEF old
  <2>3. texts \in Seq(Entry)
    <3>1. \A i \in DOMAIN old : Text(old[i]) \in Entry
      BY <1>0, <2>2 DEF Text, Entry
    <3> QED BY <2>2, <3>1
  <2> HIDE DEF texts
  <2>4. pidPool' = PoolOfLoad(pidPool \o texts)
    BY <1>1 DEF ReloadData, texts, old
  <2>5. pidPool \o texts \in Seq(Entry)
    BY <1>0, <2>3, ConcatProperties
  <2>6. pidPool' \in Seq(Entry)
    BY <2>4, <2>5, PoolTyped
  <2>7. /\ getString' = StoredOn /\ reloads < MaxReloads /\ reloads' = reloads + 1
        /\ guitarStrings' = [p \in DOMAIN guitarStrings \union StoredPids |->
                               IF p \in StoredPids THEN StoredEnds[p] ELSE <<OldDot, OldDot>>]
        /\ UNCHANGED <<guitarState, isDrawing, isUndrawing, currentDrawingPid, blocked, clash>>
    BY <1>1 DEF ReloadData, drawing
  <2>8. reloads' \in 0..MaxReloads
    BY <2>7, GuitarStringsAssumption DEF GuitarTypeOK
  <2>9. DOMAIN guitarStrings' \subseteq StringPids /\ \A p \in DOMAIN guitarStrings' : guitarStrings'[p] \in Place \X Place
    BY <1>0, <2>7, StoredStringsAre, PidsAre DEF Place
  <2> QED BY <2>6, <2>7, <2>8, <2>9, StoredStringsAre DEF GuitarTypeOK, Entry, Place
<1>2. CASE Open
  BY <1>2 DEF Open, strung, drawing, GuitarTypeOK
<1>3. CASE Block
  BY <1>3 DEF Block, strung, drawing, GuitarTypeOK
<1>4. ASSUME NEW d \in GridDots, StartString(d) PROVE GuitarTypeOK'
  <2> DEFINE n == Len(pidPool)  pid == pidPool[n].pid
  <2>1. pidPool # <<>> /\ pidPool[n] \in Entry /\ SubSeq(pidPool, 1, n - 1) \in Seq(Entry)
    BY <1>0, <1>4, PoolPops DEF StartString
  <2>2. pid \in StringPids
    BY <2>1 DEF Entry
  <2>3. /\ clash' = (pid \in DOMAIN guitarStrings /\ \E e \in GridDots : getString[e] = pid)
        /\ pidPool' = SubSeq(pidPool, 1, n - 1)
        /\ isDrawing' = TRUE /\ currentDrawingPid' = pid
        /\ getString' = [getString EXCEPT ![d] = pid]
        /\ guitarStrings' = [p \in DOMAIN guitarStrings \union {pid} |->
                               IF p = pid THEN <<d, NoDot>> ELSE guitarStrings[p]]
        /\ UNCHANGED <<guitarState, isUndrawing, blocked, reloads>>
    BY <1>4 DEF StartString
  <2> HIDE DEF pid
  <2>4. getString' \in [GridDots -> StringPids \union {NoPid}]
    BY <1>0, <2>2, <2>3
  <2>5. DOMAIN guitarStrings' \subseteq StringPids /\ \A p \in DOMAIN guitarStrings' : guitarStrings'[p] \in Place \X Place
    BY <1>0, <2>2, <2>3 DEF Place
  <2>6. clash' \in BOOLEAN
    BY <2>3
  <2> QED BY <2>1, <2>2, <2>3, <2>4, <2>5, <2>6 DEF GuitarTypeOK, Entry, Place
<1>5. ASSUME NEW d \in GridDots, EndString(d) PROVE GuitarTypeOK'
  <2>1. /\ isDrawing' = FALSE /\ isUndrawing' = FALSE
        /\ getString' = [getString EXCEPT ![d] = currentDrawingPid]
        /\ guitarStrings' = [guitarStrings EXCEPT ![currentDrawingPid][2] = d]
        /\ UNCHANGED <<guitarState, pidPool, currentDrawingPid, blocked, reloads, clash>>
    BY <1>5 DEF EndString
  <2>2. getString' \in [GridDots -> StringPids \union {NoPid}]
    BY <1>0, <2>1
  <2>3. DOMAIN guitarStrings' = DOMAIN guitarStrings /\ \A p \in DOMAIN guitarStrings : guitarStrings'[p] \in Place \X Place
    <3>1. d \in Place
      BY DEF Place
    <3> HIDE DEF Place
    <3>2. DOMAIN guitarStrings' = DOMAIN guitarStrings
      BY <2>1
    <3>3. \A p \in DOMAIN guitarStrings : guitarStrings'[p] = IF p = currentDrawingPid THEN [guitarStrings[p] EXCEPT ![2] = d] ELSE guitarStrings[p]
      BY <2>1
    <3>4. \A e \in Place \X Place : [e EXCEPT ![2] = d] \in Place \X Place
      BY <3>1
    <3> QED BY <1>0, <3>2, <3>3, <3>4
  <2> QED BY <1>0, <2>1, <2>2, <2>3 DEF GuitarTypeOK, Entry, Place
<1>6. ASSUME NEW d \in GridDots, RestartString(d) PROVE GuitarTypeOK'
  <2> DEFINE pid == getString[d]
  <2>1. /\ isUndrawing' = TRUE /\ currentDrawingPid' = pid /\ pid # NoPid
        /\ guitarStrings' = [guitarStrings EXCEPT ![pid] = <<IF @[1] = d THEN @[2] ELSE @[1], NoDot>>]
        /\ getString' = [getString EXCEPT ![d] = NoPid]
        /\ UNCHANGED <<guitarState, pidPool, isDrawing, blocked, reloads, clash>>
    BY <1>6 DEF RestartString, Free
  <2>2. pid \in StringPids /\ getString' \in [GridDots -> StringPids \union {NoPid}]
    BY <1>0, <2>1
  <2>3. DOMAIN guitarStrings' = DOMAIN guitarStrings /\ \A p \in DOMAIN guitarStrings : guitarStrings'[p] \in Place \X Place
    BY <1>0, <2>1 DEF Place
  <2> QED BY <1>0, <2>1, <2>2, <2>3 DEF GuitarTypeOK, Entry, Place
<1>7. ASSUME NEW d \in GridDots, DestroyString(d) PROVE GuitarTypeOK'
  <2> DEFINE pid == getString[d]
  <2>1. /\ isDrawing' = FALSE /\ isUndrawing' = FALSE /\ pid # NoPid
        /\ getString' = [getString EXCEPT ![d] = NoPid]
        /\ guitarStrings' = [p \in DOMAIN guitarStrings \ {pid} |-> guitarStrings[p]]
        /\ pidPool' = Append(pidPool, Number(pid))
        /\ clash' = (pid # currentDrawingPid \/ \E e \in GridDots \ {d} : getString[e] = pid)
        /\ UNCHANGED <<guitarState, currentDrawingPid, blocked, reloads>>
    BY <1>7 DEF DestroyString, Free
  <2>2. pid \in StringPids /\ getString' \in [GridDots -> StringPids \union {NoPid}]
    BY <1>0, <2>1
  <2>3. Number(pid) \in Entry
    BY <2>2 DEF Number, Entry
  <2>4. pidPool' \in Seq(Entry)
    BY <1>0, <2>1, <2>3
  <2>5. DOMAIN guitarStrings' \subseteq StringPids /\ \A p \in DOMAIN guitarStrings' : guitarStrings'[p] \in Place \X Place
    BY <1>0, <2>1
  <2>6. clash' \in BOOLEAN
    BY <2>1
  <2> QED BY <1>0, <2>1, <2>2, <2>4, <2>5, <2>6 DEF GuitarTypeOK, Entry, Place
<1>8. CASE UNCHANGED guitarVars
  BY <1>8 DEF guitarVars, strung, drawing, GuitarTypeOK
<1> QED BY <1>1, <1>2, <1>3, <1>4, <1>5, <1>6, <1>7, <1>8 DEF GuitarNext

-----------------------------------------------------------------------------
(* The types of the hexagons.                                              *)

HexTyped ==
    /\ GridNow /\ listens \in BOOLEAN /\ waves \in 0..MaxWaves
    /\ DOMAIN lit = hexagons /\ \A c \in hexagons : lit[c] \in Nat

LEMMA HexTypedStart == HexInit => HexTyped
<1> SUFFICES ASSUME HexInit PROVE HexTyped
  OBVIOUS
<1>1. GridNow
  BY DEF HexInit, GridNow
<1>2. lit = [c \in hexagons |-> 0]
  BY Zenon DEF HexInit
<1>3. waves = 0 /\ listens = FALSE
  BY Zenon DEF HexInit
<1>4. DOMAIN lit = hexagons /\ \A c \in hexagons : lit[c] \in Nat
  BY <1>2
<1>5. waves \in 0..MaxWaves
  BY <1>3, HexWaveAssumption
<1>6. listens \in BOOLEAN
  BY <1>3, Zenon
<1> QED BY <1>1, <1>4, <1>5, <1>6, Zenon DEF HexTyped

LEMMA WaveTyped == ASSUME HexTyped, NEW center \in Cubes, Wave(center) PROVE HexTyped'
<1>1. lit' = Activated(center) /\ UNCHANGED <<hexagons, listens>> /\ waves < MaxWaves /\ waves' = waves + 1
  BY DEF Wave
<1>2. GridNow
  BY DEF HexTyped
<1>3. /\ DOMAIN Activated(center) = hexagons
      /\ \A c \in hexagons : Activated(center)[c] = IF center \in hexagons THEN 1 ELSE 0
  BY <1>2, ActivatedIs, Zenon
<1>4. waves' \in 0..MaxWaves
  BY <1>1, HexWaveAssumption DEF HexTyped
<1>5. 0 \in Nat /\ 1 \in Nat
  OBVIOUS
<1>6. DOMAIN lit' = hexagons' /\ \A c \in hexagons' : lit'[c] \in Nat
  BY <1>1, <1>3, <1>5, Zenon
<1>7. GridNow' /\ listens' \in BOOLEAN
  BY <1>1, <1>2, Zenon DEF GridNow, HexTyped
<1> QED BY <1>4, <1>6, <1>7, Zenon DEF HexTyped

LEMMA HexTypedStep == HexTyped /\ [HexNext]_hexVars => HexTyped'
<1> SUFFICES ASSUME HexTyped, [HexNext]_hexVars PROVE HexTyped'
  OBVIOUS
<1>1. hexagons \subseteq Cubes
  BY GridCubes, HexWaveAssumption DEF HexTyped, GridNow
<1>2. CASE PlayOne
  BY WaveTyped, <1>1, <1>2 DEF PlayOne
<1>3. CASE PlayKey
  <2>1. PICK key \in -2..2 : Wave(EvenQToCube(0, key))
    BY <1>3 DEF PlayKey
  <2>2. EvenQToCube(0, key) \in Cubes
    BY CellIs
  <2> QED BY WaveTyped, <2>1, <2>2
<1>4. CASE Playback
  BY WaveTyped, <1>4, EverywhereCubes DEF Playback
<1>5. CASE Listen
  BY <1>5, Zenon DEF Listen, HexTyped, GridNow
<1>6. CASE Resize
  <2>1. GridNow' /\ lit' = [c \in hexagons' |-> 0] /\ UNCHANGED <<listens, waves>>
    BY <1>6, Zenon DEF Resize, GridNow
  <2>2. DOMAIN lit' = hexagons' /\ \A c \in hexagons' : lit'[c] \in Nat
    BY <2>1
  <2> QED BY <2>1, <2>2, Zenon DEF HexTyped
<1>7. CASE UNCHANGED hexVars
  BY <1>7, Zenon DEF hexVars, HexTyped, GridNow
<1> QED BY <1>2, <1>3, <1>4, <1>5, <1>6, <1>7 DEF HexNext

LEMMA HexIsTyped == HexTyped => HexTypeOK
<1> SUFFICES ASSUME HexTyped PROVE hexagons \subseteq Everywhere
  BY DEF HexTyped, HexTypeOK
<1>1. PICK rows \in 0..MaxRows, cols \in 0..MaxCols : hexagons = Grid(rows, cols)
  BY DEF HexTyped, GridNow
<1>2. ASSUME NEW c \in hexagons PROVE c \in Everywhere
  <2>1. rows \in Nat /\ cols \in Nat /\ MaxRows \in Nat /\ MaxCols \in Nat /\ rows <= MaxRows /\ cols <= MaxCols
    BY HexWaveAssumption
  <2>2. PICK row \in Int, col \in Int :
            -rows <= row /\ row <= rows /\ -cols <= col /\ col <= cols /\ c = EvenQToCube(row, col)
    BY <1>1, <1>2, <2>1, InGrid, Zenon
  <2>3. -MaxRows <= row /\ row <= MaxRows /\ -MaxCols <= col /\ col <= MaxCols
    BY <2>1, <2>2
  <2> QED BY <2>1, <2>2, <2>3, InGrid, Zenon DEF Everywhere
<1> QED BY <1>2, Zenon

-----------------------------------------------------------------------------
(* The types of the page router.                                           *)

RouterTyped ==
    /\ RouterInv
    /\ stamped \subseteq Pages /\ broken \subseteq Pages /\ loaded \subseteq Pages
    /\ pageTransitionDone \in BOOLEAN /\ navigations \in 0..MaxNavigations

LEMMA RouterTypedStart == RouterInit => RouterTyped
<1> SUFFICES ASSUME RouterInit PROVE RouterTyped
  OBVIOUS
<1>1. PICK place \in Places : stamped = {place.page} /\ loaded = {place.page}
  BY DEF RouterInit
<1>2. place.page \in Pages
  BY PlaceParts
<1>3. broken = {} /\ pageTransitionDone = TRUE /\ navigations = 0 /\ 0 \in 0..MaxNavigations
  BY RouterAssumption DEF RouterInit
<1> QED BY <1>1, <1>2, <1>3, RouterStart DEF RouterTyped

LEMMA RouterTypedStep == RouterTyped /\ [RouterNext]_routerVars => RouterTyped'
<1> SUFFICES ASSUME RouterTyped, [RouterNext]_routerVars PROVE RouterTyped'
  OBVIOUS
<1>1. RouterInv' /\ end.page \in Pages /\ chains \subseteq Chains
  BY RouterStep, ChainsShape DEF RouterTyped, RouterInv
<1>2. SUFFICES /\ stamped' \subseteq Pages /\ broken' \subseteq Pages /\ loaded' \subseteq Pages
               /\ pageTransitionDone' \in BOOLEAN /\ navigations' \in 0..MaxNavigations
  BY <1>1 DEF RouterTyped
<1>3. ASSUME NEW place, Navigate(place)
      PROVE  /\ stamped' = stamped /\ broken' = broken /\ loaded' = loaded
             /\ pageTransitionDone' \in BOOLEAN /\ navigations' \in 0..MaxNavigations
  <2>1. navigations' \in 0..MaxNavigations
    BY <1>3, RouterAssumption DEF Navigate, RouterTyped
  <2>2. pageTransitionDone' \in {pageTransitionDone, FALSE}
    BY <1>3 DEF Navigate, RunPageTransition, RunSubpageTransition
  <2> QED BY <1>3, <2>1, <2>2 DEF Navigate, RouterTyped
<1>4. CASE \E place \in Places : ClickLink(place)
  BY <1>3, <1>4 DEF ClickLink, RouterTyped
<1>5. CASE \E i \in DOMAIN entries : PopState(i)
  BY <1>3, <1>5 DEF PopState, RouterTyped
<1>6. ASSUME NEW c \in chains,
             Exited(c) \/ Imported(c) \/ ImportFails(c) \/ Rendered(c) \/ Entered(c) \/ SlidOut(c) \/ SlidIn(c)
      PROVE  /\ stamped' \subseteq Pages /\ broken' \subseteq Pages /\ loaded' \subseteq Pages
             /\ pageTransitionDone' \in BOOLEAN /\ navigations' = navigations
  <2>1. c.page \in Pages
    BY <1>1 DEF Chains
  <2>2. CASE Exited(c)
    BY <2>2 DEF Exited, RouterTyped
  <2>3. CASE Imported(c)
    BY <1>1, <2>1, <2>3 DEF Imported, RouterTyped
  <2>4. CASE ImportFails(c)
    BY <2>1, <2>4 DEF ImportFails, RouterTyped
  <2>5. CASE Rendered(c) \/ SlidOut(c) \/ SlidIn(c)
    BY <2>5 DEF Rendered, SlidOut, SlidIn, pageHandlers, RouterTyped
  <2>6. CASE Entered(c)
    BY <2>6 DEF Entered, RouterTyped
  <2> QED BY <1>6, <2>2, <2>3, <2>4, <2>5, <2>6
<1>7. CASE UNCHANGED routerVars
  BY <1>7 DEF routerVars, pageHandlers, RouterTyped
<1> QED BY <1>4, <1>5, <1>6, <1>7 DEF RouterNext, RouterTyped

LEMMA RouterIsTyped == RouterTyped => RouterTypeOK
<1> SUFFICES ASSUME RouterTyped PROVE RouterTypeOK
  OBVIOUS
<1>1. RouterShape /\ masthead \in Pages
  BY ChainsShape DEF RouterTyped, RouterInv, MastheadFollows
<1>2. entries \in Seq(Places) /\ at \in 1..Len(entries)
  BY <1>1 DEF RouterShape
<1>3. at \in DOMAIN entries /\ \A i \in DOMAIN entries : entries[i] \in Places
  BY <1>2, LenProperties, ElementOfSeq
<1>4. \A c \in chains : /\ c.kind \in {"page", "subpage"}
                        /\ c.step \in {"exit", "import", "render", "enter"} /\ c.page \in Pages
  BY <1>1 DEF RouterShape, Chains
<1> QED BY <1>1, <1>3, <1>4 DEF RouterTyped, RouterTypeOK, RouterShape

-----------------------------------------------------------------------------
(* The types of the countdown.                                             *)

OnCanvas(c) == c = Blank \/ Len(c.units) \in 1..4

CountdownTyped ==
    /\ now \in Nat /\ targetDate \in Nat /\ startTime \in Nat
    /\ {running, needToFreeze, told, ended, inDocument, dated} \subseteq BOOLEAN
    /\ FourUnits(currentValue) /\ FourUnits(lastDrawn) /\ FourUnits(next)
    /\ freezeCount \in 0..99 /\ unitCount \in 1..4 /\ resizes \in 0..MaxResizes /\ gaps \in 0..MaxGaps
    /\ colour \in 0..11 /\ background \in 0..11 /\ spent \subseteq 1..11
    /\ ripples \in Seq(RippleSet) /\ OnCanvas(canvas)

LEMMA LargestIs ==
    ASSUME NEW n \in Nat, NEW S \in SUBSET (0..n), S # {}
    PROVE  Max(S) \in S
<1>1. IsFiniteSet(0..n)
  BY FS_Interval
<1>2. IsFiniteSet(S)
  BY <1>1, FS_Subset
<1>3. PICK x \in S : \A y \in S : y <= x
  <2>1. S \subseteq Nat
    OBVIOUS
  <2> QED BY <1>2, <2>1, LargestNat
<1>4. \A y \in S : x >= y
  <2>1. S \subseteq Nat
    OBVIOUS
  <2> QED BY <1>3, <2>1
<1> QED BY <1>4 DEF Max

LEMMA FourAre == ASSUME NEW v, FourUnits(v) PROVE v \in Seq(Nat) /\ Len(v) = 4
<1>1. v = <<v[1], v[2], v[3], v[4]>> /\ v[1] \in Nat /\ v[2] \in Nat /\ v[3] \in Nat /\ v[4] \in Nat
  BY DEF FourUnits
<1>2. <<v[1], v[2], v[3], v[4]>> \in Seq(Nat) /\ Len(<<v[1], v[2], v[3], v[4]>>) = 4
  BY <1>1
<1> QED BY <1>1, <1>2

\* So many units are drawn as there is room for.
LEMMA UnitsAre ==
    ASSUME NEW v, FourUnits(v), NEW room \in 1..4
    PROVE  Skipped(v, room) \in 0..(4 - room) /\ Len(Units(v, room)) \in 1..4
<1> DEFINE S == {n \in 0..(4 - room) : \A i \in 1..n : v[i] = 0}
<1>1. 4 - room \in Nat /\ S \in SUBSET (0..(4 - room))
  OBVIOUS
<1>2. 0 \in S
  OBVIOUS
<1>3. Skipped(v, room) = Max(S)
  BY DEF Skipped
<1> HIDE DEF S
<1>4. Skipped(v, room) \in 0..(4 - room)
  BY <1>1, <1>2, <1>3, LargestIs
<1>5. v \in Seq(Nat) /\ Len(v) = 4
  BY FourAre
<1>6. Len(Units(v, room)) = room
  BY <1>4, <1>5, SubSeqProperties DEF Units
<1> QED BY <1>4, <1>6

\* There are at most 15 characters.
LEMMA CharactersFew == ASSUME NEW v, FourUnits(v) PROVE Len(Characters(v)) \in 7..15
<1>1. ASSUME NEW n \in Nat PROVE Padded(n) \in Seq(Nat) /\ Len(Padded(n)) \in 2..3
  <2>1. n \div 10 \in Nat /\ n % 10 \in Nat /\ n \div 100 \in Nat
    BY Divided
  <2>2. (n \div 10) % 10 \in Nat
    BY <2>1, Divided
  <2> QED BY <2>1, <2>2 DEF Padded
<1>2. v[1] \in Nat /\ v[2] \in Nat /\ v[3] \in Nat /\ v[4] \in Nat
  BY DEF FourUnits
<1> DEFINE a == Padded(v[1])
           b == Padded(v[2])
           c == Padded(v[3])
           d == Padded(v[4])
<1>3. /\ a \in Seq(Nat) /\ b \in Seq(Nat) /\ c \in Seq(Nat) /\ d \in Seq(Nat)
      /\ Len(a) \in 2..3 /\ Len(b) \in 2..3 /\ Len(c) \in 2..3 /\ Len(d) \in 2..3
  BY <1>1, <1>2
<1> DEFINE bar == <<10>>
<1>4. Characters(v) = a \o bar \o b \o bar \o c \o bar \o d
  BY DEF Characters
<1>5. bar \in Seq(Nat) /\ Len(bar) = 1
  OBVIOUS
<1> HIDE DEF a, b, c, d, bar
<1>6. \A s, t \in Seq(Nat) : s \o t \in Seq(Nat) /\ Len(s \o t) = Len(s) + Len(t)
  BY ConcatProperties
<1>7. /\ a \o bar \in Seq(Nat) /\ Len(a \o bar) = Len(a) + Len(bar)
      /\ (a \o bar) \o b \in Seq(Nat) /\ Len((a \o bar) \o b) = Len(a \o bar) + Len(b)
  BY <1>3, <1>5, <1>6, Zenon
<1> DEFINE e == (a \o bar) \o b
<1>8. /\ e \o bar \in Seq(Nat) /\ Len(e \o bar) = Len(e) + Len(bar)
      /\ (e \o bar) \o c \in Seq(Nat) /\ Len((e \o bar) \o c) = Len(e \o bar) + Len(c)
  BY <1>3, <1>5, <1>6, <1>7, Zenon
<1> DEFINE f == (e \o bar) \o c
<1>9. /\ f \o bar \in Seq(Nat) /\ Len(f \o bar) = Len(f) + Len(bar)
      /\ Len((f \o bar) \o d) = Len(f \o bar) + Len(d)
  BY <1>3, <1>5, <1>6, <1>8, Zenon
<1>10. Characters(v) = (f \o bar) \o d
  BY <1>4, Zenon
<1> DEFINE ln(s) == Len(s)
<1>11. /\ ln(a \o bar) = ln(a) + 1 /\ ln(e) = ln(a \o bar) + ln(b) /\ ln(e \o bar) = ln(e) + 1
       /\ ln(f) = ln(e \o bar) + ln(c) /\ ln(f \o bar) = ln(f) + 1 /\ ln(Characters(v)) = ln(f \o bar) + ln(d)
  BY <1>5, <1>7, <1>8, <1>9, <1>10, Zenon
<1>12. ln(a) \in 2..3 /\ ln(b) \in 2..3 /\ ln(c) \in 2..3 /\ ln(d) \in 2..3
  BY <1>3
<1>13. ln(Characters(v)) \in 7..15
  <2> HIDE DEF ln, e, f
  <2> QED BY <1>11, <1>12
<1> QED BY <1>13

LEMMA FreezeIs == ASSUME NEW v, NEW w, FourUnits(v) PROVE Freeze(v, w) \in 0..99
<1> DEFINE a == Characters(v)
           diff == {i \in DOMAIN a : i > Len(Characters(w)) \/ a[i] # Characters(w)[i]}
<1>1. a \in Seq(Nat) /\ Len(a) \in 7..15
  BY CharactersAre, CharactersFew
<1>2. Freeze(v, w) = IF v = Nought THEN 99 ELSE IF diff = {} THEN Len(a) - 1 ELSE Min(diff) - 1
  BY DEF Freeze
<1>3. diff \subseteq DOMAIN a
  OBVIOUS
<1> HIDE DEF a, diff
<1>4. DOMAIN a = 1..Len(a)
  BY <1>1, LenProperties
<1>5. diff \subseteq 1..15
  BY <1>1, <1>3, <1>4
<1>6. diff # {} => Min(diff) \in 1..15
  <2>1. diff \subseteq Nat
    BY <1>5
  <2>2. diff # {} => Min(diff) \in diff
    BY <2>1, MinIs
  <2> QED BY <1>5, <2>2
<1> DEFINE k == Freeze(v, w)
<1> HIDE DEF k
<1>7. k = 99 \/ k = Len(a) - 1 \/ (diff # {} /\ k = Min(diff) - 1)
  BY <1>2, Zenon DEF k
<1>8. k \in 0..99
  <2>1. CASE k = 99
    BY <2>1
  <2>2. CASE k = Len(a) - 1
    <3> DEFINE n == Len(a)
    <3>1. n \in 7..15 /\ k = n - 1
      BY <1>1, <2>2, Zenon
    <3> HIDE DEF n
    <3> QED BY <3>1
  <2>3. CASE diff # {} /\ k = Min(diff) - 1
    BY <1>6, <2>3
  <2> QED BY <1>7, <2>1, <2>2, <2>3
<1> QED BY <1>8 DEF k

\* A change asks for one ripple at most.
LEMMA RippleColour == ASSUME NEW v, NEW w PROVE Ripples(v, w) = {} \/ \E c \in 0..11 : Ripples(v, w) = {c}
<1> DEFINE crossed == {i \in DOMAIN Thresholds : crossedThreshold(v, w, Thresholds[i])}
<1>1. crossed \subseteq 1..9
  <2>1. DOMAIN Thresholds = 1..9
    BY DEF Thresholds
  <2> QED BY <2>1
<1>2. Ripples(v, w) \in {{}, {0}, {1}, {11}} \/ (crossed # {} /\ Ripples(v, w) = {Min(crossed) + 1})
  BY DEF Ripples
<1> HIDE DEF crossed
<1>3. crossed # {} => Min(crossed) + 1 \in 0..11
  <2>1. crossed \subseteq Nat
    BY <1>1
  <2>2. crossed # {} => Min(crossed) \in 1..9
    BY <1>1, <2>1, MinIs
  <2> QED BY <2>2
<1> QED BY <1>2, <1>3

LEMMA RippledIs ==
    ASSUME NEW rs \in Seq(RippleSet), NEW t \in Nat, NEW colours,
           colours = {} \/ \E c \in 0..11 : colours = {c}
    PROVE  Rippled(rs, colours, t) \in Seq(RippleSet)
<1>1. CASE colours = {}
  BY <1>1 DEF Rippled
<1>2. ASSUME NEW c \in 0..11, colours = {c} PROVE Rippled(rs, colours, t) \in Seq(RippleSet)
  <2>1. Min(colours) = c
    BY <1>2 DEF Min
  <2>2. t + RippleTime \in Nat
    BY CountdownAssumption
  <2>3. [colour |-> c, end |-> t + RippleTime] \in RippleSet
    BY <2>2 DEF RippleSet
  <2>4. Rippled(rs, colours, t) = Append(rs, [colour |-> c, end |-> t + RippleTime])
    BY <1>2, <2>1 DEF Rippled
  <2> QED BY <2>3, <2>4, AppendProperties
<1> QED BY <1>1, <1>2

LEMMA LastColourIs ==
    ASSUME ripples \in Seq(RippleSet), NEW some \in SUBSET DOMAIN ripples, NEW old \in 0..11
    PROVE  LastColour(some, old) \in 0..11
<1>1. some # {} => Max(some) \in DOMAIN ripples
  BY SeqIs, MaxIs
<1> QED BY <1>1, SeqIs DEF LastColour

LEMMA DrawTyped ==
    ASSUME ripples \in Seq(RippleSet), colour \in 0..11, background \in 0..11, spent \subseteq 1..11,
           NEW v, FourUnits(v), NEW t \in Nat, NEW room \in 1..4, NEW count, NEW colours,
           colours = {} \/ \E c \in 0..11 : colours = {c}, Draw(v, t, room, count, colours)
    PROVE  /\ ripples' \in Seq(RippleSet) /\ colour' \in 0..11 /\ background' \in 0..11 /\ spent' \subseteq 1..11
           /\ OnCanvas(canvas')
<1> DEFINE over == {i \in DOMAIN ripples : t > ripples[i].end}
           aims == {i \in DOMAIN ripples : ripples[i].colour \notin spent \union {0}}
           ended_ == {i \in over : ripples[i].colour # 0}
           I == DOMAIN ripples \ over
<1>1. /\ ripples' = Rippled(Picked(ripples, I), colours, t)
      /\ background' = LastColour(ended_, background)
      /\ colour' = LastColour(aims, colour)
      /\ spent' = spent \union {ripples[i].colour : i \in aims}
  BY DEF Draw
<1>2. canvas'.units = Units(v, room)
  BY DEF Draw
<1>3. I \in SUBSET DOMAIN ripples /\ ended_ \in SUBSET DOMAIN ripples /\ aims \in SUBSET DOMAIN ripples
  OBVIOUS
<1>4. \A i \in aims : ripples[i].colour \in 1..11
  BY SeqIs
<1> HIDE DEF I, ended_, aims
<1>5. ripples' \in Seq(RippleSet)
  <2>1. Picked(ripples, I) \in Seq(RippleSet)
    BY <1>3, PickedIs
  <2> QED BY <1>1, <2>1, RippledIs
<1>6. background' \in 0..11 /\ colour' \in 0..11
  BY <1>1, <1>3, LastColourIs
<1>7. spent' \subseteq 1..11
  BY <1>1, <1>4
<1>8. OnCanvas(canvas')
  BY <1>2, UnitsAre DEF OnCanvas
<1> QED BY <1>5, <1>6, <1>7, <1>8

LEMMA CountdownTypedStart == CountdownInit => CountdownTyped
<1> SUFFICES ASSUME CountdownInit PROVE CountdownTyped
  OBVIOUS
<1>1. /\ now = 0 /\ targetDate \in Nat /\ startTime = 0 /\ currentValue = Value(targetDate, 0)
      /\ lastDrawn = Nought /\ next = Nought /\ unitCount \in 1..4
  BY CountdownAssumption DEF CountdownInit
<1>2. {running, needToFreeze, told, ended, inDocument, dated} \subseteq BOOLEAN
  BY DEF CountdownInit
<1>3. /\ freezeCount \in 0..99 /\ resizes \in 0..MaxResizes /\ gaps \in 0..MaxGaps
      /\ colour \in 0..11 /\ background \in 0..11 /\ spent \subseteq 1..11
  BY CountdownAssumption DEF CountdownInit
<1>4. FourUnits(currentValue) /\ FourUnits(Nought)
  BY <1>1, FourIs DEF FourUnits, Nought
<1>5. ripples \in Seq(RippleSet)
  <2>1. ripples = Rippled(<<>>, Ripples(Nought, currentValue), 0)
    BY DEF CountdownInit
  <2>2. <<>> \in Seq(RippleSet)
    BY EmptySeq
  <2> QED BY <2>1, <2>2, RippleColour, RippledIs
<1>6. OnCanvas(canvas)
  <2>1. canvas = IF running THEN Blank ELSE [units |-> Units(currentValue, unitCount), still |-> 0]
    BY DEF CountdownInit
  <2> QED BY <1>1, <1>4, <2>1, UnitsAre DEF OnCanvas
<1> QED BY <1>1, <1>2, <1>3, <1>4, <1>5, <1>6 DEF CountdownTyped

LEMMA CountdownFrameTyped == ASSUME CountdownTyped, NEW elapsed \in Nat, Update(elapsed), gaps' \in 0..MaxGaps PROVE CountdownTyped'
<1> DEFINE t == now + elapsed
           done == t >= outEnd
           again == done /\ targetDate >= t
           freezes == t > waitStart /\ needToFreeze
           foreseen == IF freezes THEN Value(targetDate, t + EaseOutTime + WaitTime) ELSE next
           count == IF freezes THEN Freeze(currentValue, foreseen) ELSE freezeCount
           colours == IF again THEN Ripples(currentValue, Value(targetDate, t)) ELSE {}
<1>1. /\ now' = t /\ next' = foreseen /\ freezeCount' = count
      /\ told' = (told \/ Tells(t)) /\ ended' = (ended \/ (Tells(t) /\ targetDate <= t))
      /\ needToFreeze' = (again \/ (needToFreeze /\ ~freezes))
      /\ running' = (again \/ ~done)
      /\ IF again THEN SetValues(targetDate, t) ELSE UNCHANGED <<lastDrawn, currentValue, startTime>>
      /\ UNCHANGED <<targetDate, inDocument, dated, unitCount, resizes>>
  BY DEF Update
<1>2. \/ Draw(currentValue, t, unitCount, count, colours)
      \/ ripples' = Rippled(ripples, colours, t) /\ UNCHANGED <<spent, colour, background, canvas>>
  BY DEF Update
<1>3. t \in Nat /\ t + EaseOutTime + WaitTime \in Nat
  <2>1. now \in Nat /\ EaseOutTime \in Nat /\ WaitTime \in Nat
    BY CountdownAssumption DEF CountdownTyped
  <2> QED BY <2>1
<1>4. /\ targetDate \in Nat /\ FourUnits(currentValue) /\ FourUnits(next) /\ FourUnits(lastDrawn)
      /\ freezeCount \in 0..99
  BY DEF CountdownTyped
<1>5. FourUnits(foreseen) /\ count \in 0..99
  <2>1. FourUnits(Value(targetDate, t + EaseOutTime + WaitTime))
    BY <1>3, <1>4, FourIs
  <2>2. FourUnits(foreseen)
    BY <1>4, <2>1
  <2> QED BY <1>4, <2>2, FreezeIs
<1>6. colours = {} \/ \E c \in 0..11 : colours = {c}
  BY RippleColour
<1>7. FourUnits(currentValue') /\ FourUnits(lastDrawn') /\ startTime' \in Nat
  <2>1. FourUnits(Value(targetDate, t))
    BY <1>3, <1>4, FourIs
  <2>2. startTime \in Nat
    BY DEF CountdownTyped
  <2>3. \/ lastDrawn' = currentValue /\ currentValue' = Value(targetDate, t) /\ startTime' = t
        \/ UNCHANGED <<lastDrawn, currentValue, startTime>>
    BY <1>1 DEF SetValues
  <2> QED BY <1>3, <1>4, <2>1, <2>2, <2>3
<1>8. {running', needToFreeze', told', ended', inDocument', dated'} \subseteq BOOLEAN
  <2>1. inDocument \in BOOLEAN /\ dated \in BOOLEAN
    BY DEF CountdownTyped
  <2>2. running' \in BOOLEAN /\ needToFreeze' \in BOOLEAN
    BY <1>1, Zenon
  <2>3. told' \in BOOLEAN /\ ended' \in BOOLEAN
    BY <1>1, Zenon
  <2> QED BY <1>1, <2>1, <2>2, <2>3
<1>9. /\ ripples' \in Seq(RippleSet) /\ colour' \in 0..11 /\ background' \in 0..11 /\ spent' \subseteq 1..11
      /\ OnCanvas(canvas')
  <2>1. /\ ripples \in Seq(RippleSet) /\ colour \in 0..11 /\ background \in 0..11 /\ spent \subseteq 1..11
        /\ OnCanvas(canvas) /\ unitCount \in 1..4
    BY DEF CountdownTyped
  <2> HIDE DEF colours, t, count
  <2>2. CASE Draw(currentValue, t, unitCount, count, colours)
    BY <1>3, <1>4, <1>6, <2>1, <2>2, DrawTyped
  <2>3. CASE ripples' = Rippled(ripples, colours, t) /\ UNCHANGED <<spent, colour, background, canvas>>
    BY <1>3, <1>6, <2>1, <2>3, RippledIs DEF OnCanvas
  <2> QED BY <1>2, <2>2, <2>3
<1>10. now' \in Nat /\ targetDate' \in Nat /\ FourUnits(next') /\ freezeCount' \in 0..99
  BY <1>1, <1>3, <1>4, <1>5
<1>11. unitCount' \in 1..4 /\ resizes' \in 0..MaxResizes
  BY <1>1 DEF CountdownTyped
<1> QED BY <1>7, <1>8, <1>9, <1>10, <1>11 DEF CountdownTyped

LEMMA CountdownTypedStep == CountdownTyped /\ [CountdownNext]_countdownVars => CountdownTyped'
<1> SUFFICES ASSUME CountdownTyped, [CountdownNext]_countdownVars PROVE CountdownTyped'
  OBVIOUS
<1>1. /\ now \in Nat /\ targetDate \in Nat /\ startTime \in Nat
      /\ {running, needToFreeze, told, ended, inDocument, dated} \subseteq BOOLEAN
      /\ FourUnits(currentValue) /\ FourUnits(lastDrawn) /\ FourUnits(next)
      /\ freezeCount \in 0..99 /\ unitCount \in 1..4 /\ resizes \in 0..MaxResizes /\ gaps \in 0..MaxGaps
      /\ colour \in 0..11 /\ background \in 0..11 /\ spent \subseteq 1..11
      /\ ripples \in Seq(RippleSet) /\ OnCanvas(canvas)
  BY DEF CountdownTyped
<1>2. CASE UpdateSoon
  <2>1. PICK elapsed \in 1..MaxFrame : Update(elapsed) /\ gaps' = gaps
    BY <1>2 DEF UpdateSoon
  <2>2. elapsed \in Nat
    BY <2>1, CountdownAssumption
  <2> QED BY <1>1, <2>1, <2>2, CountdownFrameTyped
<1>3. CASE UpdateLate
  <2>1. MaxGap \in Nat /\ gaps' \in 0..MaxGaps /\ Update(MaxGap)
    BY <1>1, <1>3, CountdownAssumption DEF UpdateLate
  <2> QED BY <2>1, CountdownFrameTyped
<1>4. CASE Pass
  <2>1. now' \in Nat /\ UNCHANGED <<targetDate, inDocument, dated, gaps>>
    BY <1>1, <1>4, CountdownAssumption DEF Pass
  <2>2. UNCHANGED <<currentValue, lastDrawn, next, startTime, running, needToFreeze, freezeCount, told, ended>>
    BY <1>4 DEF Pass, cycle
  <2>3. UNCHANGED <<unitCount, ripples, spent, colour, background, canvas, resizes>>
    BY <1>4 DEF Pass, painted
  <2> QED BY <1>1, <2>1, <2>2, <2>3, Zenon DEF CountdownTyped, OnCanvas
<1>5. CASE StartTimer \/ Detach
  <2>1. UNCHANGED <<now, targetDate, dated, gaps>> /\ inDocument' \in BOOLEAN /\ running' \in BOOLEAN
    BY <1>1, <1>5 DEF StartTimer, Detach, clock
  <2>2. UNCHANGED <<currentValue, lastDrawn, next, startTime, needToFreeze, freezeCount, told, ended>>
    BY <1>5 DEF StartTimer, Detach
  <2>3. UNCHANGED <<unitCount, ripples, spent, colour, background, canvas, resizes>>
    BY <1>5 DEF StartTimer, Detach, painted
  <2>4. {running', needToFreeze', told', ended', inDocument', dated'} \subseteq BOOLEAN
    BY <1>1, <2>1, <2>2
  <2> QED BY <1>1, <2>1, <2>2, <2>3, <2>4, Zenon DEF CountdownTyped, OnCanvas
<1>6. ASSUME NEW date \in Dates, DateChanged(date) PROVE CountdownTyped'
  <2>1. date \in Nat /\ targetDate' = date
    BY <1>6, CountdownAssumption DEF DateChanged
  <2>2. lastDrawn' = currentValue /\ currentValue' = Value(date, now) /\ startTime' = now
    BY <1>6 DEF DateChanged, SetValues
  <2>3. UNCHANGED <<now, inDocument, gaps, next, running, needToFreeze, freezeCount, told, ended,
                    unitCount, spent, colour, background, resizes>>
    BY <1>6 DEF DateChanged
  <2>4. FourUnits(currentValue')
    BY <1>1, <2>1, <2>2, FourIs
  <2>5. ripples' \in Seq(RippleSet)
    <3>1. ripples' = Rippled(ripples, Ripples(currentValue, Value(date, now)), now)
      BY <1>6 DEF DateChanged
    <3> QED BY <1>1, <3>1, RippleColour, RippledIs
  <2>6. OnCanvas(canvas')
    <3>1. canvas' = IF running THEN canvas ELSE [units |-> Units(currentValue', unitCount), still |-> 0]
      BY <1>6 DEF DateChanged
    <3> QED BY <1>1, <2>4, <3>1, UnitsAre DEF OnCanvas
  <2>7. {running', needToFreeze', told', ended', inDocument', dated'} \subseteq BOOLEAN
    <3>1. dated' = TRUE
      BY <1>6 DEF DateChanged
    <3> QED BY <1>1, <2>3, <3>1
  <2>8. now' \in Nat /\ targetDate' \in Nat /\ startTime' \in Nat /\ FourUnits(lastDrawn') /\ FourUnits(next')
    BY <1>1, <2>1, <2>2, <2>3, Zenon
  <2> QED BY <1>1, <2>3, <2>4, <2>5, <2>6, <2>7, <2>8, Zenon DEF CountdownTyped
<1>7. ASSUME NEW room \in Rooms, ResizeCanvas(room) PROVE CountdownTyped'
  <2>1. room \in 1..4 /\ unitCount' = room
    BY <1>7, CountdownAssumption DEF ResizeCanvas
  <2>2. resizes' \in 0..MaxResizes
    BY <1>1, <1>7, CountdownAssumption DEF ResizeCanvas
  <2>3. /\ UNCHANGED <<now, targetDate, inDocument, dated, gaps>>
        /\ UNCHANGED <<currentValue, lastDrawn, next, startTime, running, needToFreeze, freezeCount, told, ended>>
    BY <1>7 DEF ResizeCanvas, clock, cycle
  <2>4. /\ ripples' \in Seq(RippleSet) /\ colour' \in 0..11 /\ background' \in 0..11 /\ spent' \subseteq 1..11
        /\ OnCanvas(canvas')
    <3>1. CASE running
      BY <1>1, <1>7, <3>1 DEF ResizeCanvas, OnCanvas
    <3>2. CASE ~running
      <4>1. Draw(currentValue, now, room, freezeCount, {})
        BY <1>7, <3>2 DEF ResizeCanvas
      <4> QED BY <1>1, <2>1, <4>1, DrawTyped
    <3> QED BY <3>1, <3>2
  <2> QED BY <1>1, <2>1, <2>2, <2>3, <2>4, Zenon DEF CountdownTyped
<1>8. CASE UNCHANGED countdownVars
  <2>1. /\ UNCHANGED <<now, targetDate, inDocument, dated, gaps>>
        /\ UNCHANGED <<currentValue, lastDrawn, next, startTime, running, needToFreeze, freezeCount, told, ended>>
        /\ UNCHANGED <<unitCount, ripples, spent, colour, background, canvas, resizes>>
    BY <1>8 DEF countdownVars, clock, cycle, painted
  <2> QED BY <1>1, <2>1, Zenon DEF CountdownTyped, OnCanvas
<1> QED BY <1>2, <1>3, <1>4, <1>5, <1>6, <1>7, <1>8 DEF CountdownNext

LEMMA CountdownIsTyped == CountdownTyped => CountdownTypeOK
<1> SUFFICES ASSUME CountdownTyped PROVE CountdownTypeOK
  OBVIOUS
<1>1. \A v \in {currentValue, lastDrawn, next} : v \in Seq(Nat) /\ Len(v) = 4
  BY FourAre DEF CountdownTyped
<1>2. \A i \in DOMAIN ripples : ripples[i].colour \in 0..11 /\ ripples[i].end \in Nat
  BY SeqIs DEF CountdownTyped
<1> QED BY <1>1, <1>2 DEF CountdownTyped, CountdownTypeOK, OnCanvas

-----------------------------------------------------------------------------
(* The part that takes steps                                               *)

\* The inductive invariant: each part's types, with what they rest on.
BrowserTyped ==
    /\ part \in Parts
    /\ part = "queue" => QueueTyped
    /\ part = "engine" => EngineTyped
    /\ part = "instrument" => InstrumentTyped
    /\ part = "guitar" => GuitarTypeOK
    /\ part = "drums" => KitTypeOK
    /\ part = "hexagons" => HexTyped
    /\ part = "composition" => CompositionTyped
    /\ part = "router" => RouterTyped
    /\ part = "countdown" => CountdownTyped

LEMMA BrowserTypedStart == BrowserInit => BrowserTyped
<1>1. BrowserInit => /\ part \in Parts /\ Init /\ EngineInit /\ InstrumentInit /\ GuitarInit /\ KitInit /\ HexInit
                     /\ CompositionInit /\ RouterInit /\ CountdownInit
  BY Zenon DEF BrowserInit
<1> QED BY <1>1, QueueTypedStart, EngineTypedStart, InstrumentTypedStart, GuitarTypedStart, KitTypedStart, HexTypedStart,
           CompositionTypedStart, RouterTypedStart, CountdownTypedStart, Zenon DEF BrowserTyped

LEMMA BrowserTypedStep ==
    BrowserTyped /\ [BrowserNext]_<<theQueue, theEngine, theStage, thePages, part>> => BrowserTyped'
<1> SUFFICES ASSUME BrowserTyped, [BrowserNext]_<<theQueue, theEngine, theStage, thePages, part>> PROVE BrowserTyped'
  OBVIOUS
<1>1. part' = part
  BY DEF BrowserNext
<1>2. CASE part = "queue"
  <2>1. [Next]_vars
    BY <1>2 DEF BrowserNext, theQueue
  <2> QED BY <1>1, <1>2, <2>1, QueueTypedStep DEF BrowserTyped
<1>3. CASE part = "engine"
  <2>1. [EngineNext]_engineVars
    BY <1>3 DEF BrowserNext, theEngine
  <2>2. EngineTyped
    BY <1>3 DEF BrowserTyped
  <2>3. EngineTyped'
    BY <2>1, <2>2, EngineStep, EngineBoundsStep DEF EngineTyped
  <2> QED BY <1>1, <1>3, <2>3 DEF BrowserTyped
<1>4. CASE part = "instrument"
  <2>1. [InstrumentNext]_instrumentVars
    BY <1>4 DEF BrowserNext, theStage
  <2> QED BY <1>1, <1>4, <2>1, InstrumentTypedStep DEF BrowserTyped
<1>5. CASE part = "guitar"
  <2>1. [GuitarNext]_guitarVars
    BY <1>5 DEF BrowserNext, theStage
  <2> QED BY <1>1, <1>5, <2>1, GuitarTypedStep DEF BrowserTyped
<1>6. CASE part = "drums"
  <2>1. [KitNext]_kitVars
    BY <1>6 DEF BrowserNext, theStage
  <2> QED BY <1>1, <1>6, <2>1, KitTypedStep DEF BrowserTyped
<1>7. CASE part = "hexagons"
  <2>1. [HexNext]_hexVars
    BY <1>7 DEF BrowserNext, theStage
  <2> QED BY <1>1, <1>7, <2>1, HexTypedStep DEF BrowserTyped
<1>8. CASE part = "composition"
  <2>1. [CompositionNext]_compositionVars
    BY <1>8 DEF BrowserNext, theStage
  <2> QED BY <1>1, <1>8, <2>1, CompositionTypedStep DEF BrowserTyped
<1>9. CASE part = "router"
  <2>1. [RouterNext]_routerVars
    BY <1>9 DEF BrowserNext, thePages
  <2> QED BY <1>1, <1>9, <2>1, RouterTypedStep DEF BrowserTyped
<1>10. CASE part = "countdown"
  <2>1. [CountdownNext]_countdownVars
    BY <1>10 DEF BrowserNext, thePages
  <2> QED BY <1>1, <1>10, <2>1, CountdownTypedStep DEF BrowserTyped
<1>11. CASE part = "globe"
  BY <1>1, <1>11 DEF BrowserTyped
<1> QED BY <1>2, <1>3, <1>4, <1>5, <1>6, <1>7, <1>8, <1>9, <1>10, <1>11 DEF BrowserTyped, Parts

(***************************************************************************)
(* Every variable of My Schedule, the router, the countdown and the parts  *)
(* of the experiment keeps to its type, for any values of the constants:   *)
(* the bounds of the pools, the loop and the last minute's colours are     *)
(* never left, and what is drawn, played or under way is what there is.    *)
(***************************************************************************)
THEOREM TypesHold == BrowserSpec => []BrowserTypeOK
<1>1. BrowserTyped => BrowserTypeOK
  <2>1. QueueTyped => TypeOK
    BY Zenon DEF QueueTyped
  <2>2. InstrumentTyped => InstrumentTypeOK
    BY Zenon DEF InstrumentTyped
  <2> QED BY <2>1, <2>2, EngineIsTyped, HexIsTyped, CompositionIsTyped, RouterIsTyped, CountdownIsTyped, Zenon
          DEF BrowserTyped, BrowserTypeOK
<1> QED BY <1>1, BrowserTypedStart, BrowserTypedStep, PTL DEF BrowserSpec
=============================================================================
