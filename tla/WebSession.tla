----------------------------- MODULE WebSession -----------------------------
(***************************************************************************)
(* One tab of the web client (ledgercore-web/src): the access token of     *)
(* lib/session.ts, the user AuthProvider shows, the rows TanStack Query    *)
(* keeps, and the calls of lib/api.ts under way, whose answers arrive in   *)
(* any order and however late.  The login page is shown exactly while      *)
(* there is no user (RequireAuth, LoginPage).                              *)
(***************************************************************************)
EXTENDS Naturals, FiniteSets

CONSTANTS
    User, NoUser,
    MaxLogins,       \* access tokens the server can issue (a bound)
    Slot, NoSlot     \* calls that can be under way at once (a bound)

MaxRetries == 2      \* failureCount < 2 in shouldRetry

\* What a query has that has no rows of anybody.
NoRows == "none"
Failed == "error"

ASSUME WebConstants ==
    /\ NoUser \notin User /\ NoSlot \notin Slot
    /\ NoRows \notin User /\ Failed \notin User
    /\ MaxLogins \in Nat

AccessToken == 1..MaxLogins  \* in the order in which the server issues them
NoAccess    == 0

VARIABLES
    accessToken,  \* of session.ts
    user,       \* the user of AuthProvider, null on the login page
    rows,       \* a query of the shell: not asked, failed, or whose rows it has
    call,       \* [Slot -> a call under way or NoCall]
    busy,       \* the sign-in the mounted form waits for (isSubmitting)
    visited,    \* the tab has a page to go back to
    owner,      \* the server: whose token it is
    dead,       \* the server: tokens expired, or of an account changed since
    overlapped  \* two sign-ins were under way at once (history)

client == <<accessToken, user, rows, busy, visited>>
tab    == <<client, call, owner, dead, overlapped>>

Kind    == {"login", "me", "query"}
Outcome == {"ok", "unauthorized", "failed"}

\* as: the bearer token a call carries, or the one a login was answered with.
\* kept: the query has not been dropped from the cache.
CallType == [kind : Kind, who : User \cup {NoUser}, as : AccessToken \cup {NoAccess},
             answer : Outcome \cup {"none", "delay"}, kept : BOOLEAN,
             tries : 0..MaxRetries]
NoCall   == [kind |-> "none"]

Sent(kind, who, as) == [kind |-> kind, who |-> who, as |-> as, answer |-> "none",
                        kept |-> kind = "query", tries |-> 0]

SigningIn == {s \in Slot : call[s].kind \in {"login", "me"}}
Querying  == {s \in Slot : call[s].kind = "query" /\ call[s].kept}

----------------------------------------------------------------------------
(* Parts the handlers share                                                *)

\* Mutant: a failed query goes on trying after the cache is cleared.
Undropped(c) == c

\* A call whose query the cache no longer holds: its data goes nowhere, and it
\* is not retried, but the call itself is not aborted.
Dropped(c) == IF c.kind = "query" THEN [c EXCEPT !.kept = FALSE] ELSE c

\* reset of AuthProvider, which notifyUnauthorized runs as well: session.clear,
\* setUser(null), queryClient.clear.  calls is what is under way otherwise.
Reset(calls) ==
    /\ accessToken' = NoAccess /\ user' = NoUser /\ rows' = NoRows
    /\ call' = [s \in Slot |-> Dropped(calls[s])]

Done(s) == [call EXCEPT ![s] = NoCall]

----------------------------------------------------------------------------
(* The person at the tab                                                   *)

\* Submit of the login form, which is disabled while a submit is pending.
SignIn(s, u) ==
    /\ user = NoUser /\ busy = NoSlot /\ call[s] = NoCall
    /\ call' = [call EXCEPT ![s] = Sent("login", u, NoAccess)]
    /\ busy' = s
    /\ overlapped' = (overlapped \/ SigningIn # {})
    /\ UNCHANGED <<accessToken, user, rows, visited, owner, dead>>

SignOut ==
    /\ user # NoUser
    /\ Reset(call)
    /\ UNCHANGED <<busy, visited, owner, dead, overlapped>>

\* The browser's Back while a sign-in is pending: RequireAuth comes straight
\* back to a login page, but to a new one, whose form is free.
Back ==
    /\ user = NoUser /\ busy # NoSlot /\ visited
    /\ busy' = NoSlot
    /\ UNCHANGED <<accessToken, user, rows, visited, call, owner, dead, overlapped>>

\* A reload: all of it is in memory only, and nobody hears the answers.
Reload ==
    /\ accessToken' = NoAccess /\ user' = NoUser /\ rows' = NoRows /\ busy' = NoSlot
    /\ call' = [s \in Slot |-> NoCall]
    /\ UNCHANGED <<visited, owner, dead, overlapped>>

----------------------------------------------------------------------------
(* Queries                                                                 *)

\* Mutant: a query is not enabled without a token.
FetchIfToken(s) ==
    /\ user # NoUser /\ accessToken # NoAccess /\ Querying = {} /\ call[s] = NoCall
    /\ call' = [call EXCEPT ![s] = Sent("query", NoUser, accessToken)]
    /\ UNCHANGED <<client, owner, dead, overlapped>>

\* The shell mounts a query, or mounts it again when its rows are stale; one
\* key is fetched by one call at a time.
Fetch(s) ==
    /\ user # NoUser /\ Querying = {} /\ call[s] = NoCall
    /\ call' = [call EXCEPT ![s] = Sent("query", NoUser, accessToken)]
    /\ UNCHANGED <<client, owner, dead, overlapped>>

FirstFetch(s) == rows = NoRows /\ Fetch(s)

\* The retry after the back-off, with the token of the session by then.
Retry(s) ==
    /\ call[s].kind = "query" /\ call[s].answer = "delay" /\ call[s].kept
    /\ call' = [call EXCEPT ![s].as = accessToken, ![s].answer = "none"]
    /\ UNCHANGED <<client, owner, dead, overlapped>>

----------------------------------------------------------------------------
(* The server, and the network                                             *)

\* An access token runs out, or its account is locked, disabled or changed.
Expire(t) ==
    /\ owner[t] # NoUser
    /\ dead' = dead \cup {t}
    /\ UNCHANGED <<client, call, owner, overlapped>>

Valid(t) == t # NoAccess /\ t \notin dead

\* The server decides on a call; the answer is on its way from here.
Answer(s) ==
    /\ call[s].kind # "none" /\ call[s].answer = "none"
    /\ UNCHANGED <<client, dead, overlapped>>
    /\ \/ /\ call' = [call EXCEPT ![s].answer = "failed"]  \* lost, 20 s of axios, 5xx
          /\ UNCHANGED owner
       \/ /\ call[s].kind = "login"
          /\ \/ \E t \in AccessToken :
                   /\ \A x \in AccessToken : owner[x] = NoUser <=> x >= t
                   /\ owner' = [owner EXCEPT ![t] = call[s].who]
                   /\ call' = [call EXCEPT ![s].answer = "ok", ![s].as = t]
             \/ /\ call' = [call EXCEPT ![s].answer = "unauthorized"]
                /\ UNCHANGED owner
       \/ /\ call[s].kind # "login"
          /\ call' = [call EXCEPT ![s].answer = IF Valid(call[s].as) THEN "ok"
                                                ELSE "unauthorized"]
          /\ UNCHANGED owner

----------------------------------------------------------------------------
(* Answers arrive                                                          *)

\* signIn after authApi.login: start the session and ask who it is, before any
\* other answer is looked at.
SignedIn(s) ==
    /\ call[s].kind = "login" /\ call[s].answer = "ok"
    /\ accessToken' = call[s].as
    /\ call' = [call EXCEPT ![s] = Sent("me", NoUser, call[s].as)]
    /\ UNCHANGED <<user, rows, busy, visited, owner, dead, overlapped>>

\* signIn after fetchMe; the form goes, or a form mounted since is redirected.
Identified(s) ==
    /\ call[s].kind = "me" /\ call[s].answer = "ok"
    /\ user' = owner[call[s].as]
    /\ visited' = TRUE
    /\ busy' = NoSlot
    /\ call' = Done(s)
    /\ UNCHANGED <<accessToken, rows, owner, dead, overlapped>>

\* A sign-in fails with the form, whose page may have gone; a token that
\* session.start took stays.
SignInFails(s) ==
    /\ \/ call[s].kind = "login" /\ call[s].answer \in {"unauthorized", "failed"}
       \/ call[s].kind = "me" /\ call[s].answer = "failed"
    /\ busy' = IF busy = s THEN NoSlot ELSE busy
    /\ call' = Done(s)
    /\ UNCHANGED <<accessToken, user, rows, visited, owner, dead, overlapped>>

\* Rows arrive: those the owner of the token may see.
GetRows(s) ==
    /\ call[s].kind = "query" /\ call[s].answer = "ok"
    /\ rows' = IF call[s].kept THEN owner[call[s].as] ELSE rows
    /\ call' = Done(s)
    /\ UNCHANGED <<accessToken, user, busy, visited, owner, dead, overlapped>>

\* shouldRetry: transport errors, 5xx and 429, twice.
ShouldRetry(c) == c.kept /\ c.tries < MaxRetries

QueryFails(s) ==
    /\ call[s].kind = "query" /\ call[s].answer = "failed"
    /\ \/ /\ ShouldRetry(call[s])
          /\ call' = [call EXCEPT ![s].answer = "delay", ![s].tries = call[s].tries + 1]
          /\ UNCHANGED rows
       \/ /\ ~ShouldRetry(call[s])
          /\ rows' = IF call[s].kept /\ rows = NoRows THEN Failed ELSE rows
          /\ call' = Done(s)
    /\ UNCHANGED <<accessToken, user, busy, visited, owner, dead, overlapped>>

\* A retry that was waiting when its query was dropped does not come.
GiveUp(s) ==
    /\ call[s].kind = "query" /\ ~call[s].kept /\ call[s].answer = "delay"
    /\ call' = Done(s)
    /\ UNCHANGED <<client, owner, dead, overlapped>>

\* The response interceptor on a 401 to anything but a login: notifyUnauthorized,
\* whichever session the call belonged to.
Unauthorized(s) ==
    /\ call[s].kind \in {"me", "query"} /\ call[s].answer = "unauthorized"
    /\ Reset(Done(s))
    /\ busy' = IF busy = s THEN NoSlot ELSE busy
    /\ UNCHANGED <<visited, owner, dead, overlapped>>

----------------------------------------------------------------------------

ClientInit ==
    /\ accessToken = NoAccess /\ user = NoUser /\ rows = NoRows /\ busy = NoSlot
    /\ visited = FALSE /\ overlapped = FALSE
    /\ call = [s \in Slot |-> NoCall]
    /\ owner = [t \in AccessToken |-> NoUser]
    /\ dead = {}

Arrive(s) == \/ SignedIn(s) \/ Identified(s) \/ SignInFails(s) \/ GetRows(s)
             \/ QueryFails(s) \/ GiveUp(s) \/ Unauthorized(s)

ClientNext ==
    \/ \E s \in Slot : \/ \E u \in User : SignIn(s, u)
                       \/ Fetch(s) \/ Retry(s) \/ Answer(s) \/ Arrive(s)
    \/ \E t \in AccessToken : Expire(t)
    \/ SignOut \/ Back \/ Reload

ClientSpec == ClientInit /\ [][ClientNext]_tab

\* Calls end (axios gives up after 20 s), back-offs elapse, and a mounted query
\* with nothing to show is asked.
FairClientSpec ==
    /\ ClientSpec
    /\ \A s \in Slot : WF_tab(Answer(s)) /\ WF_tab(Arrive(s)) /\ WF_tab(Retry(s))
    /\ WF_tab(\E s \in Slot : FirstFetch(s))

----------------------------------------------------------------------------
(* Properties                                                              *)

ClientTypes ==
    /\ accessToken \in AccessToken \cup {NoAccess}
    /\ user \in User \cup {NoUser}
    /\ rows \in User \cup {NoRows, Failed}
    /\ call \in [Slot -> CallType \cup {NoCall}]
    /\ busy \in Slot \cup {NoSlot}
    /\ owner \in [AccessToken -> User \cup {NoUser}]
    /\ dead \subseteq AccessToken
    /\ visited \in BOOLEAN /\ overlapped \in BOOLEAN

\* Unless two sign-ins overlapped, which takes Back during the first, the tab is
\* one person's: the token is that of the user shown, and no row stays or
\* arrives that was read for somebody else (AuthProvider.tsx:31).
NoMixing ==
    ~overlapped =>
        /\ user # NoUser /\ accessToken # NoAccess => owner[accessToken] = user
        /\ rows \in User => rows = user

\* What late answers and reloads keep: the types, and that the tab is one
\* person's.
WebInv == ClientTypes /\ NoMixing

\* A late 401 of an earlier session can leave a user shown without a token.  That
\* does not last: the first query is refused and shows the login page, or its
\* failure is on the screen.
Heals == (user # NoUser /\ accessToken = NoAccess)
            ~> (user = NoUser \/ accessToken # NoAccess \/ rows = Failed)
=============================================================================
