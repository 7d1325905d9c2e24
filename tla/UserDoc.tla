------------------------------ MODULE UserDoc ------------------------------
(***************************************************************************)
(* What the user-data part of the backend promises, whatever stands behind *)
(* it: every user has ONE document (bookmarked sessions, sessions rated,   *)
(* the key of the Android app), and every request changes or reads it at   *)
(* one instant between its arrival and its answer.  A request that is      *)
(* answered "ok" took effect exactly once; one that failed took effect at  *)
(* most once; a rating of an already rated session is refused.             *)
(*                                                                         *)
(* AppFolder.tla is the detailed design that implements this module.       *)
(***************************************************************************)
CONSTANTS Requests,     \* the HTTP requests of one user
          Sessions,     \* session IDs
          Batches,      \* the sets of session IDs that one request names
          Default       \* bookmarks of a user who has no file yet, some Sessions

Doc == [bks : SUBSET Sessions, survey : SUBSET Sessions, ext : BOOLEAN]

DefaultDoc == [bks |-> Default, survey |-> {}, ext |-> FALSE]

\* The requests: bookmark / unbookmark a batch, rate one session, list.
Tasks == [op : {"put", "delete"}, ids : Batches]
           \cup [op : {"survey"}, ids : {{s} : s \in Sessions}]
           \cup [op : {"get"}, ids : {{}}]

NoTask == [op |-> "none", ids |-> {}]

\* The document d after task t took effect.
Effect(t, d) ==
    CASE t.op = "put"    -> [d EXCEPT !.bks = @ \cup t.ids]
      [] t.op = "delete" -> [d EXCEPT !.bks = @ \ t.ids]
      [] t.op = "survey" -> [d EXCEPT !.survey = @ \cup t.ids]
      [] OTHER           -> d

\* The rating t is refused on document d: it is there already.
Refused(t, d) == t.op = "survey" /\ t.ids \subseteq d.survey

\* The other party, the Android app, changes bookmarks and leaves its key.
ExternalDocs(d) ==
    {[d EXCEPT !.bks = b, !.ext = TRUE] : b \in SUBSET Sessions}

VARIABLES doc,      \* the document
          task,     \* task of each request, NoTask before it arrives
          phase,    \* "new" | "open" | "ok" | "bad" | "error"
          applied,  \* requests that took effect
          answer    \* the bookmarks a request read or left behind

vars == <<doc, task, phase, applied, answer>>

TypeOK ==
    /\ doc \in Doc
    /\ task \in [Requests -> Tasks \cup {NoTask}]
    /\ phase \in [Requests -> {"new", "open", "ok", "bad", "error"}]
    /\ applied \subseteq Requests
    /\ answer \in [Requests -> SUBSET Sessions]

Init ==
    /\ doc \in Doc
    /\ task = [r \in Requests |-> NoTask]
    /\ phase = [r \in Requests |-> "new"]
    /\ applied = {}
    /\ answer = [r \in Requests |-> {}]

Arrive(r) ==
    /\ phase[r] = "new"
    /\ task' \in {[task EXCEPT ![r] = t] : t \in Tasks}
    /\ phase' = [phase EXCEPT ![r] = "open"]
    /\ UNCHANGED <<doc, applied, answer>>

\* The instant at which a modification happens; the request stays open, or
\* fails in the same instant when nobody learns that it took effect.
Apply(r) ==
    /\ phase[r] = "open"
    /\ r \notin applied
    /\ task[r].op # "get"
    /\ ~Refused(task[r], doc)
    /\ doc' = Effect(task[r], doc)
    /\ applied' = applied \cup {r}
    /\ answer' = [answer EXCEPT ![r] = doc'.bks]
    /\ phase' \in {phase, [phase EXCEPT ![r] = "error"]}
    /\ UNCHANGED task

Acknowledge(r) ==
    /\ phase[r] = "open"
    /\ r \in applied
    /\ phase' = [phase EXCEPT ![r] = "ok"]
    /\ UNCHANGED <<doc, task, applied, answer>>

Read(r) ==
    /\ phase[r] = "open"
    /\ task[r].op = "get"
    /\ answer' = [answer EXCEPT ![r] = doc.bks]
    /\ phase' = [phase EXCEPT ![r] = "ok"]
    /\ UNCHANGED <<doc, task, applied>>

Refuse(r) ==
    /\ phase[r] = "open"
    /\ r \notin applied
    /\ Refused(task[r], doc)
    /\ phase' = [phase EXCEPT ![r] = "bad"]
    /\ UNCHANGED <<doc, task, applied, answer>>

Fail(r) ==
    /\ phase[r] = "open"
    /\ phase' = [phase EXCEPT ![r] = "error"]
    /\ UNCHANGED <<doc, task, applied, answer>>

External ==
    /\ doc' \in ExternalDocs(doc)
    /\ UNCHANGED <<task, phase, applied, answer>>

Next ==
    \/ \E r \in Requests :
          Arrive(r) \/ Apply(r) \/ Acknowledge(r) \/ Read(r) \/ Refuse(r) \/ Fail(r)
    \/ External

Spec == Init /\ [][Next]_vars
=============================================================================
