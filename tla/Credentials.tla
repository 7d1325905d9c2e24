----------------------------- MODULE Credentials -----------------------------
(***************************************************************************)
(* The OAuth2 credentials of one user (backend/auth.go, db_gae.go and      *)
(* handleAuth).  A sign-in exchanges a one-time code in a transaction,     *)
(* which the datastore runs again when it conflicts; a request whose       *)
(* access token has expired refreshes it and writes all three fields back. *)
(* tokenRefresher locks the copy that its own request has read: requests   *)
(* do not exclude each other.  The page disconnects at a 498               *)
(* (elements/google-signin.html), which revokes the grant at Google.       *)
(***************************************************************************)
EXTENDS Naturals

CONSTANTS
    SignIns,        \* devices on which the user signs in
    Uses,           \* requests that need the user's Drive
    CommitTries,    \* attempts of a datastore transaction
    MaxRevokes,     \* bound: how often the user revokes the grant at Google
    MaxFailures     \* bound: calls that fail, and instances that end

ASSUME CredentialsAssumption ==
    CommitTries \in Nat \ {0} /\ {MaxRevokes, MaxFailures} \subseteq Nat

\* A token is of the grant in force, of one that was revoked, or not there.
Tokens == {"", "current", "revoked"}
NoCredentials == [access |-> "", refresh |-> "", expired |-> TRUE]
AllCredentials == [access : Tokens, refresh : Tokens, expired : BOOLEAN]

VARIABLES
    cred,       \* the Credentials entity
    granted,    \* Google: the user's grant is in force
    step,       \* where each sign-in and each request is
    copy,       \* the credentials it works on
    code,       \* what a sign-in's code is worth: "refresh", "access", "used"
    attempt,    \* attempts its transaction has made
    changed,    \* the entity was written since that transaction began
    revokes, failures

credVars == <<cred, granted, step, copy, code, attempt, changed, revokes, failures>>

CredentialsInit ==
    /\ cred = NoCredentials /\ granted = FALSE
    /\ step = [p \in SignIns \union Uses |-> "idle"]
    /\ copy = [p \in SignIns \union Uses |-> NoCredentials]
    /\ code = [s \in SignIns |-> "used"] /\ attempt = [s \in SignIns |-> 0]
    /\ changed = [s \in SignIns |-> FALSE]
    /\ revokes = 0 /\ failures = 0

\* A revocation makes every token of the grant worthless, wherever it is.
Outdated(c) ==
    [c EXCEPT !.access = IF @ = "current" THEN "revoked" ELSE @,
              !.refresh = IF @ = "current" THEN "revoked" ELSE @]
Revoked ==
    /\ granted' = FALSE /\ cred' = Outdated(cred)
    /\ copy' = [p \in DOMAIN copy |-> Outdated(copy[p])]
    /\ code' = [s \in SignIns |-> "used"]

\* storeCredentials: the other transactions that have read the entity will conflict.
Stored(c) == cred' = c /\ changed' = [s \in SignIns |-> TRUE]

At(p, from, to) == step[p] = from /\ step' = [step EXCEPT ![p] = to]

-----------------------------------------------------------------------------
(* POST /api/v1/auth.                                                      *)

\* signIn of the page: Google asks for consent unless it has it, and may then give a code
\* that is worth no refresh token.
GrantOfflineAccess(s) ==
    /\ At(s, "idle", "get") /\ granted' = TRUE
    /\ \E worth \in {"refresh", "access"} :
         /\ granted \/ worth = "refresh"
         /\ code' = [code EXCEPT ![s] = worth]
    /\ attempt' = [attempt EXCEPT ![s] = 1]
    /\ UNCHANGED <<cred, copy, changed, revokes, failures>>

\* getCredentials: whatever the error, none are assumed.
GetCredentials(s) ==
    /\ At(s, "get", "exchange")
    /\ changed' = [changed EXCEPT ![s] = FALSE]
    /\ \/ copy' = [copy EXCEPT ![s] = cred] /\ UNCHANGED failures
       \/ /\ failures < MaxFailures /\ failures' = failures + 1
          /\ copy' = [copy EXCEPT ![s] = NoCredentials]
    /\ UNCHANGED <<cred, granted, code, attempt, revokes>>

\* The page is told to start from scratch: signOut and disconnect.
Disconnect(s) ==
    /\ At(s, "exchange", "idle") /\ Revoked
    /\ UNCHANGED <<attempt, changed, revokes, failures>>

\* fetchCredentials: a code is good for one exchange.
FetchCredentials(s) ==
    LET refresh == IF code[s] = "refresh" THEN "current" ELSE copy[s].refresh
    IN  \/ /\ code[s] = "used" /\ At(s, "exchange", "idle")
           /\ UNCHANGED <<cred, granted, copy, code, attempt, changed, revokes, failures>>
        \/ code[s] # "used" /\ refresh = "" /\ Disconnect(s)
        \/ /\ code[s] # "used" /\ refresh # "" /\ At(s, "exchange", "commit")
           /\ code' = [code EXCEPT ![s] = "used"]
           /\ copy' = [copy EXCEPT ![s] = [access |-> "current", refresh |-> refresh, expired |-> FALSE]]
           /\ UNCHANGED <<cred, granted, attempt, changed, revokes, failures>>

\* The transaction commits, is run again, or is given up.
CommitSignIn(s) ==
    /\ UNCHANGED <<granted, copy, code, revokes, failures>>
    /\ \/ ~changed[s] /\ At(s, "commit", "idle") /\ Stored(copy[s]) /\ UNCHANGED attempt
       \/ /\ changed[s] /\ attempt[s] < CommitTries /\ At(s, "commit", "get")
          /\ attempt' = [attempt EXCEPT ![s] = @ + 1]
          /\ UNCHANGED <<cred, changed>>
       \/ /\ changed[s] /\ attempt[s] = CommitTries /\ At(s, "commit", "idle")
          /\ UNCHANGED <<cred, attempt, changed>>

-----------------------------------------------------------------------------
(* A request of the user, and tokenRefresher.Token.                        *)

\* The stored access token will not do, and there is something to refresh it with.
ReadExpired(u) ==
    /\ cred.expired /\ cred.refresh # "" /\ At(u, "idle", "refresh")
    /\ copy' = [copy EXCEPT ![u] = cred]
    /\ UNCHANGED <<cred, granted, code, attempt, changed, revokes, failures>>

\* Variant: a token that Google refuses is tried again at the next request.
RefreshKeepsRefused(u) ==
    /\ At(u, "refresh", IF copy[u].refresh = "current" THEN "update" ELSE "idle")
    /\ copy' = IF copy[u].refresh = "current"
               THEN [copy EXCEPT ![u].access = "current", ![u].expired = FALSE] ELSE copy
    /\ UNCHANGED <<cred, granted, code, attempt, changed, revokes, failures>>

\* Google gives a new access token, or answers invalid_grant.
Refresh(u) ==
    /\ At(u, "refresh", "update")
    /\ copy' = IF copy[u].refresh = "current"
               THEN [copy EXCEPT ![u].access = "current", ![u].expired = FALSE]
               ELSE [copy EXCEPT ![u].refresh = ""]
    /\ UNCHANGED <<cred, granted, code, attempt, changed, revokes, failures>>

\* updateCredentials: a transaction of its own, which writes what this request has in hand.
UpdateCredentials(u) ==
    /\ At(u, "update", "idle") /\ Stored(copy[u])
    /\ UNCHANGED <<granted, copy, code, attempt, revokes, failures>>

-----------------------------------------------------------------------------
\* A call fails, or the instance ends: nothing is stored.
GiveUp(p) ==
    /\ step[p] # "idle" /\ failures < MaxFailures /\ failures' = failures + 1
    /\ step' = [step EXCEPT ![p] = "idle"]
    /\ UNCHANGED <<cred, granted, copy, code, attempt, changed, revokes>>

\* The access token's hour is over.
ExpireToken ==
    /\ ~cred.expired /\ cred' = [cred EXCEPT !.expired = TRUE]
    /\ UNCHANGED <<granted, step, copy, code, attempt, changed, revokes, failures>>

\* The user revokes the grant on Google's page.
Revoke ==
    /\ granted /\ revokes < MaxRevokes /\ revokes' = revokes + 1 /\ Revoked
    /\ UNCHANGED <<step, attempt, changed, failures>>

SignIn(s) == GetCredentials(s) \/ FetchCredentials(s) \/ CommitSignIn(s)
Serve(u) == Refresh(u) \/ UpdateCredentials(u)

CredentialsNext ==
    \/ \E s \in SignIns : GrantOfflineAccess(s) \/ SignIn(s)
    \/ \E u \in Uses : ReadExpired(u) \/ Serve(u)
    \/ \E p \in SignIns \union Uses : GiveUp(p)
    \/ ExpireToken \/ Revoke

\* Handlers go on, and an hour passes.
CredentialsFairness ==
    /\ \A s \in SignIns : WF_credVars(SignIn(s))
    /\ \A u \in Uses : WF_credVars(Serve(u))
    /\ WF_credVars(ExpireToken)

CredentialsSpec == CredentialsInit /\ [][CredentialsNext]_credVars /\ CredentialsFairness

-----------------------------------------------------------------------------
CredentialsTypeOK ==
    /\ cred \in AllCredentials /\ granted \in BOOLEAN
    /\ step \in [SignIns \union Uses -> {"idle", "get", "exchange", "commit", "refresh", "update"}]
    /\ copy \in [SignIns \union Uses -> AllCredentials]
    /\ code \in [SignIns -> {"refresh", "access", "used"}]
    /\ attempt \in [SignIns -> 0..CommitTries] /\ changed \in [SignIns -> BOOLEAN]
    /\ revokes \in 0..MaxRevokes /\ failures \in 0..MaxFailures

\* The backend can act for the user, also when the hour is over.
Usable == granted /\ cred.refresh = "current"

(***************************************************************************)
(* However sign-ins, refreshes, revocations and failures fall together, a  *)
(* user who signs in as long as the backend cannot act for her, and goes   *)
(* on using the page, is not locked out: what a late refresh has           *)
(* overwritten, or Google has revoked, is found out, erased and asked for  *)
(* again (tokenRefresher, errAuthTokenType and status 498).                *)
(***************************************************************************)
CredentialsHeal ==
    (/\ \A s \in SignIns : WF_credVars(~Usable /\ GrantOfflineAccess(s))
     /\ \A u \in Uses : SF_credVars(ReadExpired(u))) => []<>Usable
=============================================================================
