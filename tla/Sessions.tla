------------------------------ MODULE Sessions ------------------------------
(***************************************************************************)
(* The sessions of one user: refresh tokens that rotate, families of them  *)
(* that are revoked, and the password they were opened with                *)
(* (modules/identity/refreshToken.service.ts, refreshToken.repository.ts   *)
(* and identity.service.ts).  Transactions run at READ COMMITTED: an       *)
(* UPDATE of many rows finds the rows its statement can see when it        *)
(* starts, and then locks and looks at them again one at a time.           *)
(*                                                                         *)
(* A family is named by its first token.  Access tokens are left out.      *)
(***************************************************************************)
EXTENDS Integers, FiniteSets, FiniteSetsExt

CONSTANTS
    Token,      \* refresh tokens (the bound on their number)
    NoToken,
    Request,    \* HTTP requests
    Initial,    \* the password before any change
    Lifetime,   \* config.auth.refreshTokenTtlSeconds
    MaxTime     \* bound: the clock

ASSUME SessionConstants ==
    /\ IsFiniteSet(Token) /\ NoToken \notin Token
    /\ Initial \notin Request
    /\ Lifetime \in Nat /\ MaxTime \in Nat

VARIABLES
    token,      \* committed rows of refresh_token
    req,        \* where the code of a request is, and what it has read
    held,       \* [Request -> SUBSET Token], the row locks it holds
    password,   \* user.password_hash: what password, and is the hash weak
    now

vars == <<token, req, held, password, now>>

\* A password is named by the request that set it.
Password == Request \cup {Initial}

Unissued == [state |-> "unissued"]
Purged   == [state |-> "purged"]
Row == [state : {"stored"}, family : Token, from : Token \cup {NoToken},
        used : BOOLEAN, revoked : BOOLEAN, expires : Nat, password : Password]

\* scope is what a revocation is for: one family, or (NoToken) all of the user.
Work == [op : {"none", "login", "refresh", "logout", "logoutAll", "change"},
         phase : {"idle", "rehash", "issue", "lock", "rotate", "store", "revoke", "revoking",
                  "over"},
         token : Token \cup {NoToken}, next : Token \cup {NoToken},
         scope : Token \cup {NoToken}, expires : Nat, todo : SUBSET Token,
         marked : SUBSET Token, knows : Password]

NoWork == [op |-> "none", phase |-> "idle", token |-> NoToken, next |-> NoToken,
           scope |-> NoToken, expires |-> 0, todo |-> {}, marked |-> {},
           knows |-> Initial]

Stored(t)  == token[t].state = "stored"
Live(t)    == Stored(t) /\ ~token[t].revoked
Family(f)  == {t \in Token : Stored(t) /\ token[t].family = f}
In(r, phase) == req[r].phase = phase

\* Tokens come out of a random generator, so no two requests draw the same.
Drawn == {req[r].next : r \in Request}
Fresh == {t \in Token : token[t] = Unissued /\ t \notin Drawn}

Free(r, t) == \A s \in Request \ {r} : t \notin held[s]

Goto(r, w) == req' = [req EXCEPT ![r] = w]
End(r)     == [req[r] EXCEPT !.phase = "over", !.next = NoToken, !.todo = {}, !.marked = {}]
Release(r) == held' = [held EXCEPT ![r] = {}]

----------------------------------------------------------------------------
(* Logging in                                                              *)

\* login, up to the check of the password the user typed.
Login(r) ==
    /\ In(r, "idle")
    /\ Goto(r, [NoWork EXCEPT !.op = "login", !.knows = password.is,
                              !.phase = IF password.weak THEN "rehash" ELSE "issue"])
    /\ UNCHANGED <<token, held, password, now>>

\* A weak hash is replaced by a strong one of the password that was checked.
Rehash(r) ==
    /\ In(r, "rehash")
    /\ password' = [is |-> req[r].knows, weak |-> FALSE]
    /\ Goto(r, [req[r] EXCEPT !.phase = "issue"])
    /\ UNCHANGED <<token, held, now>>

\* issueForNewSession opens a family.
Issue(r) ==
    /\ In(r, "issue")
    /\ \E t \in Fresh :
          token' = [token EXCEPT ![t] =
             [state |-> "stored", family |-> t, from |-> NoToken, used |-> FALSE,
              revoked |-> FALSE, expires |-> now + Lifetime, password |-> req[r].knows]]
    /\ Goto(r, End(r))
    /\ UNCHANGED <<held, password, now>>

----------------------------------------------------------------------------
(* Rotation                                                                *)

\* A client presents a token it was given, whatever has become of it since.
Refresh(r, t) ==
    /\ In(r, "idle")
    /\ token[t] # Unissued
    /\ Goto(r, [NoWork EXCEPT !.op = "refresh", !.token = t, !.phase = "lock"])
    /\ UNCHANGED <<token, held, password, now>>

\* Mutant: whether the token was revoked is not asked.
UsableIfUnused(t) == ~token[t].used /\ token[t].expires > now

Usable(t) == ~token[t].used /\ ~token[t].revoked /\ token[t].expires > now

\* Mutant: the successor gets a lifetime of its own.
RenewedExpiry(t) == now + Lifetime

\* The lesser of a new lifetime and the MIN(expires_at) of the family.
SuccessorExpiry(t) ==
    Min({now + Lifetime} \cup {token[s].expires : s \in Family(token[t].family)})

\* Mutant: the token is read without FOR UPDATE.
ReadToken(r) ==
    LET t == req[r].token
    IN  /\ In(r, "lock") /\ Stored(t)
        /\ UNCHANGED held
        /\ \/ /\ Usable(t)
              /\ \E s \in Fresh :
                    Goto(r, [req[r] EXCEPT !.phase = "rotate", !.next = s,
                                           !.expires = SuccessorExpiry(t)])
           \/ ~Usable(t) /\ Goto(r, End(r))
        /\ UNCHANGED <<token, password, now>>

\* findByHashForUpdate, and what the row says: replaced by a successor, replayed
\* (then its whole family is to be revoked), or simply not good any more.
LockToken(r) ==
    LET t == req[r].token
    IN  /\ In(r, "lock")
        /\ Free(r, t)
        /\ \/ /\ Stored(t) /\ Usable(t)
              /\ held' = [held EXCEPT ![r] = {t}]
              /\ \E s \in Fresh :
                    Goto(r, [req[r] EXCEPT !.phase = "rotate", !.next = s,
                                           !.expires = SuccessorExpiry(t)])
           \/ /\ Stored(t) /\ token[t].used
              /\ held' = [held EXCEPT ![r] = {t}]
              /\ Goto(r, [req[r] EXCEPT !.phase = "revoke", !.scope = token[t].family])
           \/ /\ Stored(t) => ~token[t].used /\ ~Usable(t)
              /\ UNCHANGED held
              /\ Goto(r, End(r))
        /\ UNCHANGED <<token, password, now>>

\* COMMIT of the successor and of markRotated.
CommitRotation(r) ==
    LET t == req[r].token
        row == token[t]
    IN  /\ In(r, "rotate")
        /\ token' = [token EXCEPT
              ![t] = [row EXCEPT !.used = TRUE, !.revoked = TRUE],
              ![req[r].next] = [row EXCEPT !.from = t, !.used = FALSE, !.revoked = FALSE,
                                           !.expires = req[r].expires]]
        /\ Release(r)
        /\ Goto(r, End(r))
        /\ UNCHANGED <<password, now>>

----------------------------------------------------------------------------
(* Revocation                                                              *)

\* revokeSession looks the token up without a lock.
Logout(r, t) ==
    /\ In(r, "idle")
    /\ Stored(t)
    /\ Goto(r, [NoWork EXCEPT !.op = "logout", !.token = t, !.scope = token[t].family,
                              !.phase = "revoke"])
    /\ UNCHANGED <<token, held, password, now>>

LogoutAll(r) ==
    /\ In(r, "idle")
    /\ Goto(r, [NoWork EXCEPT !.op = "logoutAll", !.phase = "revoke"])
    /\ UNCHANGED <<token, held, password, now>>

InScope(r, t) == req[r].scope = NoToken \/ token[t].family = req[r].scope

\* UPDATE ... WHERE revoked_at IS NULL: the rows the statement sees.
RevokeSees(r) ==
    /\ In(r, "revoke")
    /\ Goto(r, [req[r] EXCEPT !.phase = "revoking",
                              !.todo = {t \in Token : Live(t) /\ InScope(r, t)}])
    /\ UNCHANGED <<token, held, password, now>>

\* Each of them is locked, and updated if it is still not revoked.
RevokeRow(r, t) ==
    /\ In(r, "revoking")
    /\ t \in req[r].todo
    /\ Free(r, t)
    /\ held' = [held EXCEPT ![r] = @ \cup {t}]
    /\ Goto(r, [req[r] EXCEPT !.todo = @ \ {t},
                              !.marked = IF Live(t) THEN @ \cup {t} ELSE @])
    /\ UNCHANGED <<token, password, now>>

CommitRevocation(r) ==
    /\ In(r, "revoking") /\ req[r].todo = {}
    /\ token' = [t \in Token |-> IF t \in req[r].marked
                                 THEN [token[t] EXCEPT !.revoked = TRUE] ELSE token[t]]
    /\ Release(r)
    /\ Goto(r, End(r))
    /\ UNCHANGED <<password, now>>

----------------------------------------------------------------------------
(* Changing the password                                                   *)

\* changePassword, up to the check of the current password.
ChangePassword(r) ==
    /\ In(r, "idle")
    /\ Goto(r, [NoWork EXCEPT !.op = "change", !.knows = password.is, !.phase = "store"])
    /\ UNCHANGED <<token, held, password, now>>

\* updatePasswordHash, a transaction of its own.
StorePassword(r) ==
    /\ In(r, "store")
    /\ password' = [is |-> r, weak |-> FALSE]
    /\ Goto(r, [req[r] EXCEPT !.phase = "revoke"])
    /\ UNCHANGED <<token, held, now>>

----------------------------------------------------------------------------

\* The process, its connection or a statement fails; a transaction rolls back.
Fail(r) ==
    /\ ~In(r, "idle") /\ ~In(r, "over")
    /\ Release(r)
    /\ Goto(r, End(r))
    /\ UNCHANGED <<token, password, now>>

\* purgeExpired: DELETE waits for row locks.
Purge(t) ==
    /\ Stored(t) /\ token[t].expires < now
    /\ \A r \in Request : t \notin held[r]
    /\ token' = [token EXCEPT ![t] = Purged]
    /\ UNCHANGED <<req, held, password, now>>

Tick == now < MaxTime /\ now' = now + 1 /\ UNCHANGED <<token, req, held, password>>

Init ==
    /\ token = [t \in Token |-> Unissued]
    /\ req = [r \in Request |-> NoWork]
    /\ held = [r \in Request |-> {}]
    /\ password \in [is : {Initial}, weak : BOOLEAN]
    /\ now = 0

Next ==
    \/ \E r \in Request :
          \/ Login(r) \/ Rehash(r) \/ Issue(r)
          \/ LockToken(r) \/ CommitRotation(r)
          \/ LogoutAll(r) \/ RevokeSees(r) \/ CommitRevocation(r)
          \/ ChangePassword(r) \/ StorePassword(r)
          \/ Fail(r)
          \/ \E t \in Token : Refresh(r, t) \/ Logout(r, t) \/ RevokeRow(r, t)
    \/ \E t \in Token : Purge(t)
    \/ Tick

Spec == Init /\ [][Next]_vars

----------------------------------------------------------------------------
(* Properties                                                              *)

TypeOK ==
    /\ token \in [Token -> Row \cup {Unissued, Purged}]
    /\ req \in [Request -> Work]
    /\ held \in [Request -> SUBSET Token]
    /\ password \in [is : Password, weak : BOOLEAN]
    /\ now \in 0..MaxTime

\* A family never forks: of the tokens descended from one login at most one can
\* be exchanged, and each has been exchanged for one successor at most.
NoFork ==
    \A t \in Token : Stored(t) =>
        /\ Cardinality({s \in Family(token[t].family) : Live(s)}) <= 1
        /\ Cardinality({s \in Family(token[t].family) : token[s].from = t}) <= 1

\* What logins, refreshes and revocations keep: the types, and that no family
\* of tokens forks.
SessionsInv == TypeOK /\ NoFork

\* However often a session is refreshed, it ends when the first of its tokens
\* would have: no successor outlives it, not even when that row is purged.
SessionEnds ==
    \A t \in Token : Stored(t) =>
        LET first == token[t].family
        IN  IF Stored(first) THEN token[t].expires <= token[first].expires
            ELSE token[t].expires < now

\* A session that is over stays over: once no token of a family is live, none
\* ever is again, so no refresh that was on its way when the family was revoked
\* brings it back.  Only a login opens another.
Over(f)    == Family(f) # {} /\ \A t \in Family(f) : ~Live(t)
OverIsOver == [][\A f \in Token : Over(f) => \A t \in Family(f)' : ~Live(t)']_vars

=============================================================================
