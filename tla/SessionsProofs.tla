--------------------------- MODULE SessionsProofs ---------------------------
(***************************************************************************)
(* Theorems about sessions on both sides: the families of refresh tokens,  *)
(* for any number of tokens and of requests that rotate and revoke them at *)
(* the same time, and a tab of the web client, for any number of people,   *)
(* access tokens and calls under way.                                      *)
(***************************************************************************)
EXTENDS Sessions, WebSession, FiniteSetTheorems, WellFoundedInduction, TLAPS

----------------------------------------------------------------------------
(* The invariant                                                           *)

\* What the rows of refresh_token say of each other: a family is named by a
\* token that was issued and is of it, one of it is live, and a token that has a
\* successor has one, is used and stays known.
Rows ==
    /\ \A t \in Token : Stored(t) =>
          LET f == token[t].family
          IN  token[f] # Unissued /\ (Stored(f) => token[f].family = f)
    /\ \A s, t \in Token :
          Live(s) /\ Live(t) /\ token[s].family = token[t].family => s = t
    /\ \A s, t \in Token :
          Stored(s) /\ Stored(t) /\ token[s].from = token[t].from /\ token[s].from # NoToken
            => s = t
    /\ \A s \in Token :
          Stored(s) /\ token[s].from # NoToken
            => /\ token[token[s].from] # Unissued
               /\ Stored(token[s].from) => token[token[s].from].used

\* A rotation under way has locked a token that is live and was not used, has a
\* successor to store that nobody else knows, and an expiry its session allows.
Rotates(r) ==
    LET t == req[r].token
        s == req[r].next
        f == token[t].family
    IN  /\ t \in Token /\ held[r] = {t} /\ Live(t) /\ ~token[t].used
        /\ s \in Token /\ token[s] = Unissued
        /\ IF Stored(f) THEN req[r].expires <= token[f].expires ELSE req[r].expires < now

\* What is so of one request: what it has come to lock, its rotation, and the
\* rows it has marked.
At(r) ==
    /\ In(r, "lock") => req[r].token \in Token
    /\ In(r, "rotate") => Rotates(r)
    /\ req[r].marked \subseteq held[r]
    /\ \A t \in req[r].marked : Live(t)
    /\ ~In(r, "revoking") => req[r].marked = {}

\* What is so of two: they hold different rows and store different successors.
Apart ==
    \A r, s \in Request : r # s =>
        /\ held[r] \cap held[s] = {}
        /\ In(r, "rotate") /\ In(s, "rotate") => req[r].next # req[s].next

SessionsIInv ==
    /\ TypeOK
    /\ Rows
    /\ SessionEnds
    /\ \A r \in Request : At(r)
    /\ Apart

----------------------------------------------------------------------------
(* The expiry of a successor                                               *)

\* Of finitely many times one is earliest.
LEMMA EarliestTime ==
    ASSUME NEW S, S \subseteq Nat, IsFiniteSet(S), S # {}
    PROVE  \E x \in S : \A y \in S : x <= y
  <1> DEFINE below(x) == {y \in S : y < x}
             T == {below(x) : x \in S}
  <1>1. \A x \in S : below(x) \in SUBSET S /\ IsFiniteSet(below(x))
    BY FS_Subset
  <1>2. T \in SUBSET SUBSET S /\ T # {}
    OBVIOUS
  <1>3. IsWellFoundedOn(StrictSubsetOrdering(S), SUBSET S)
    BY FS_StrictSubsetOrderingWellFounded, FS_FiniteSubsetsOfFinite
  <1>4. PICK B \in T : \A C \in T : ~(<<C, B>> \in StrictSubsetOrdering(S))
    BY <1>2, <1>3, WFMin
  <1>5. PICK x \in S : B = below(x)
    OBVIOUS
  <1>6. ASSUME NEW y \in S, y < x PROVE FALSE
    <2>1. below(y) \in T /\ below(y) \subseteq B /\ y \in B /\ y \notin below(y)
      <3>1. x \in Nat /\ y \in Nat /\ \A z \in S : z \in Nat
        BY <1>5
      <3>2. \A z \in S : z < y => z < x
        BY <1>6, <3>1
      <3>3. y \in B /\ below(y) \subseteq B
        BY <1>5, <1>6, <3>2
      <3>4. below(y) \in T
        OBVIOUS
      <3>5. y \notin below(y)
        BY <3>1
      <3> QED
        BY <3>3, <3>4, <3>5
    <2>2. <<below(y), B>> \in StrictSubsetOrdering(S)
      BY <2>1, <1>4 DEF StrictSubsetOrdering
    <2> QED
      BY <1>4, <2>1, <2>2
  <1> QED
    BY <1>6

\* The successor of a token that is still good expires at some time, and within
\* its session: not after the first token of the family, if that is there.
LEMMA ExpiryKept ==
    ASSUME TypeOK, NEW t \in Token, Stored(t)
    PROVE  /\ SuccessorExpiry(t) \in Nat
           /\ \A s \in Family(token[t].family) : SuccessorExpiry(t) <= token[s].expires
  <1> DEFINE F == Family(token[t].family)
             S == {now + Lifetime} \cup {token[s].expires : s \in F}
  <1>1. \A s \in F : token[s].expires \in Nat
    BY DEF Family, Stored, TypeOK, Row, Unissued, Purged
  <1>2. now + Lifetime \in Nat
    BY SessionConstants DEF TypeOK
  <1>3. S \subseteq Nat /\ S # {}
    BY <1>1, <1>2
  <1>4. IsFiniteSet(S)
    <2>1. IsFiniteSet(F)
      BY FS_Subset, SessionConstants DEF Family
    <2>2. IsFiniteSet({token[s].expires : s \in F})
      <3> DEFINE g == [s \in F |-> token[s].expires]
                 R == {token[s].expires : s \in F}
      <3>1. g \in Surjection(F, R)
        BY DEF Surjection, Range
      <3> HIDE DEF F, g, R
      <3>2. IsFiniteSet(R)
        BY <2>1, <3>1, FS_Surjection
      <3> QED
        BY <3>2 DEF R
    <2> QED
      BY <2>2, FS_AddElement
  <1>5. Min(S) \in S /\ \A y \in S : Min(S) <= y
    BY <1>3, <1>4, EarliestTime DEF Min
  <1> QED
    BY <1>3, <1>5 DEF SuccessorExpiry

----------------------------------------------------------------------------
(* Steps of one request                                                    *)

\* A step that leaves the rows alone keeps the invariant if what it makes of its
\* own request is right, and apart from the others.
LEMMA OwnStep ==
    ASSUME SessionsIInv, TypeOK', NEW r \in Request, token' = token, now' = now,
           \A s \in Request \ {r} : req'[s] = req[s] /\ held'[s] = held[s],
           At(r)',
           \A s \in Request \ {r} : held'[r] \cap held[s] = {},
           req'[r].phase = "rotate" => \A s \in Request : req'[r].next # req[s].next
    PROVE  SessionsIInv'
  <1>1. Rows' /\ SessionEnds'
    BY DEF SessionsIInv, Rows, SessionEnds, Live, Stored
  <1>2. ASSUME NEW s \in Request PROVE At(s)'
    <2>1. CASE s = r
      BY <2>1
    <2>2. CASE s # r
      BY <2>2 DEF SessionsIInv, At, In, Rotates, Live, Stored
    <2> QED
      BY <2>1, <2>2
  <1>3. Apart'
    <2> SUFFICES ASSUME NEW s \in Request, NEW u \in Request, s # u
                 PROVE  /\ held'[s] \cap held'[u] = {}
                        /\ req'[s].phase = "rotate" /\ req'[u].phase = "rotate"
                             => req'[s].next # req'[u].next
      BY DEF Apart, In
    <2>1. CASE s # r /\ u # r
      BY <2>1 DEF SessionsIInv, Apart, In
    <2>2. CASE s = r
      BY <2>2
    <2>3. CASE u = r
      BY <2>3
    <2> QED
      BY <2>1, <2>2, <2>3
  <1> QED
    BY <1>1, <1>2, <1>3 DEF SessionsIInv

\* A step that ends a request, or takes it on where it holds no more rows and
\* rotates nothing, keeps what is so of requests.
LEMMA PlainStep ==
    ASSUME SessionsIInv, TypeOK', NEW r \in Request, token' = token, now' = now,
           \A s \in Request \ {r} : req'[s] = req[s],
           held' = held \/ held' = [held EXCEPT ![r] = {}],
           req'[r].phase # "rotate", req'[r].marked = {},
           req'[r].phase = "lock" => req'[r].token \in Token
    PROVE  SessionsIInv'
  <1>1. \A s \in Request : held'[s] \subseteq held[s]
    BY DEF SessionsIInv, TypeOK
  <1>2. \A s \in Request \ {r} : held'[s] = held[s]
    BY DEF SessionsIInv, TypeOK
  <1>3. At(r)'
    BY DEF At, In
  <1>4. \A s \in Request \ {r} : held'[r] \cap held[s] = {}
    BY <1>1 DEF SessionsIInv, Apart
  <1> QED
    BY <1>2, <1>3, <1>4, OwnStep

\* Steps that only take a request on, or end it without a COMMIT.
LEMMA PlainSteps ==
    ASSUME SessionsIInv, TypeOK', NEW r \in Request,
           \/ Login(r) \/ Rehash(r) \/ LogoutAll(r) \/ RevokeSees(r)
           \/ ChangePassword(r) \/ StorePassword(r) \/ Fail(r)
           \/ \E t \in Token : Refresh(r, t) \/ Logout(r, t)
    PROVE  SessionsIInv'
  <1>0. req \in [Request -> Work] /\ held \in [Request -> SUBSET Token]
    BY DEF SessionsIInv, TypeOK
  <1>1. /\ token' = token /\ now' = now
        /\ held' = held \/ held' = [held EXCEPT ![r] = {}]
    BY DEF Login, Rehash, LogoutAll, RevokeSees, ChangePassword, StorePassword, Fail,
           Refresh, Logout, Release
  <1>2. ~In(r, "revoking") => req[r].marked = {}
    BY DEF SessionsIInv, At
  <1>3. /\ req'[r].phase # "rotate" /\ req'[r].marked = {}
        /\ req'[r].phase = "lock" => req'[r].token \in Token
        /\ \A s \in Request \ {r} : req'[s] = req[s]
    <2>1. CASE Login(r)
      BY <1>0, <2>1 DEF Login, Goto, NoWork
    <2>2. CASE LogoutAll(r) \/ ChangePassword(r)
      BY <1>0, <2>2 DEF LogoutAll, ChangePassword, Goto, NoWork
    <2>3. CASE \E t \in Token : Refresh(r, t) \/ Logout(r, t)
      <3>1. PICK t \in Token : Refresh(r, t) \/ Logout(r, t)
        BY <2>3
      <3>2. CASE Refresh(r, t)
        BY <1>0, <3>2 DEF Refresh, Goto, NoWork
      <3>3. CASE Logout(r, t)
        BY <1>0, <3>3 DEF Logout, Goto, NoWork
      <3> QED
        BY <3>1, <3>2, <3>3
    <2>4. CASE Fail(r)
      BY <1>0, <2>4 DEF Fail, Goto, End, Work
    <2>5. CASE Rehash(r) \/ RevokeSees(r) \/ StorePassword(r)
      <3>0. PICK q : q = req[r] /\ q \in Work /\ \A s \in Request : s # r => req'[s] = req[s]
        BY <1>0, <2>5 DEF Rehash, RevokeSees, StorePassword, Goto
      <3>1. \/ req'[r] = [q EXCEPT !.phase = "issue"]
            \/ req'[r] = [q EXCEPT !.phase = "revoke"]
            \/ \E T : req'[r] = [q EXCEPT !.phase = "revoking", !.todo = T]
        BY <1>0, <2>5, <3>0 DEF Rehash, RevokeSees, StorePassword, Goto
      <3>2. req[r].marked = {}
        BY <1>2, <2>5 DEF Rehash, RevokeSees, StorePassword, In
      <3> QED
        BY <3>0, <3>1, <3>2 DEF Work
    <2> QED
      BY <2>1, <2>2, <2>3, <2>4, <2>5
  <1> QED
    BY <1>1, <1>3, PlainStep

\* A refresh that finds its token good draws a successor nobody else has drawn,
\* with an expiry its session allows; one that does not find it good, ends.
LEMMA LockTokenStep ==
    ASSUME SessionsIInv, TypeOK', NEW r \in Request, LockToken(r)
    PROVE  SessionsIInv'
  <1> DEFINE t == req[r].token
  <1>0. req \in [Request -> Work] /\ held \in [Request -> SUBSET Token] /\ TypeOK
    BY DEF SessionsIInv, TypeOK
  <1>1. token' = token /\ now' = now /\ Free(r, t) /\ In(r, "lock") /\ req[r].marked = {}
    BY DEF LockToken, SessionsIInv, At, In
  <1>2. CASE /\ Stored(t) /\ Usable(t)
             /\ held' = [held EXCEPT ![r] = {t}]
             /\ \E s \in Fresh :
                   Goto(r, [req[r] EXCEPT !.phase = "rotate", !.next = s,
                                          !.expires = SuccessorExpiry(t)])
    <2>1. PICK s \in Fresh :
             Goto(r, [req[r] EXCEPT !.phase = "rotate", !.next = s,
                                    !.expires = SuccessorExpiry(t)])
      BY <1>2
    <2>2. /\ req'[r].phase = "rotate" /\ req'[r].next = s /\ req'[r].token = t
          /\ req'[r].expires = SuccessorExpiry(t) /\ req'[r].marked = {}
          /\ \A u \in Request \ {r} : req'[u] = req[u]
      BY <1>0, <1>1, <2>1 DEF Goto, Work
    <2>3. s \in Token /\ token[s] = Unissued /\ \A u \in Request : s # req[u].next
      BY DEF Fresh, Drawn
    <2>4. held'[r] = {t} /\ \A u \in Request \ {r} : held'[u] = held[u]
      BY <1>0, <1>2
    <2>5. t \in Token
      BY <1>1 DEF SessionsIInv, At
    <2>6. Stored(token[t].family) /\ SuccessorExpiry(t) <= token[token[t].family].expires
      <3> DEFINE f == token[t].family
      <3>1. token[t] \in Row
        BY <1>0, <1>2, <2>5 DEF TypeOK, Stored, Unissued, Purged
      <3>2. f \in Token /\ token[t].expires \in Nat /\ now \in Nat
        BY <1>0, <3>1, SessionConstants DEF Row, TypeOK
      <3>3. token[t].expires > now
        BY <1>2 DEF Usable
      <3>4. Stored(f)
        BY <1>2, <2>5, <3>2, <3>3 DEF SessionsIInv, SessionEnds
      <3>5. token[f].family = f
        BY <1>2, <2>5, <3>4 DEF SessionsIInv, Rows
      <3>6. f \in Family(f)
        BY <3>2, <3>4, <3>5 DEF Family
      <3> QED
        BY <1>0, <1>2, <2>5, <3>4, <3>6, ExpiryKept
    <2>7. At(r)'
      BY <1>1, <1>2, <2>2, <2>3, <2>4, <2>5, <2>6 DEF At, In, Rotates, Live, Stored, Usable
    <2>8. \A u \in Request \ {r} : held'[r] \cap held[u] = {}
      BY <1>1, <2>4 DEF Free
    <2> QED
      BY <1>1, <2>2, <2>3, <2>4, <2>7, <2>8, OwnStep
  <1>3. CASE /\ Stored(t) /\ token[t].used
             /\ held' = [held EXCEPT ![r] = {t}]
             /\ Goto(r, [req[r] EXCEPT !.phase = "revoke", !.scope = token[t].family])
    <2>1. /\ req'[r].phase = "revoke" /\ req'[r].marked = {}
          /\ \A u \in Request \ {r} : req'[u] = req[u]
      BY <1>0, <1>1, <1>3 DEF Goto, Work
    <2>2. held'[r] = {t} /\ \A u \in Request \ {r} : held'[u] = held[u]
      BY <1>0, <1>3
    <2>3. At(r)'
      BY <2>1 DEF At, In
    <2>4. \A u \in Request \ {r} : held'[r] \cap held[u] = {}
      BY <1>1, <2>2 DEF Free
    <2> QED
      BY <1>1, <2>1, <2>2, <2>3, <2>4, OwnStep
  <1>4. CASE UNCHANGED held /\ Goto(r, End(r))
    <2>1. /\ req'[r].phase = "over" /\ req'[r].marked = {}
          /\ \A u \in Request \ {r} : req'[u] = req[u]
      BY <1>0, <1>4 DEF Goto, End, Work
    <2> QED
      BY <1>1, <1>4, <2>1, PlainStep
  <1> QED
    BY <1>2, <1>3, <1>4 DEF LockToken

\* A revocation locks a row nobody else holds, and marks it if it is live.
LEMMA RevokeRowStep ==
    ASSUME SessionsIInv, TypeOK', NEW r \in Request, NEW t \in Token, RevokeRow(r, t)
    PROVE  SessionsIInv'
  <1>0. req \in [Request -> Work] /\ held \in [Request -> SUBSET Token]
    BY DEF SessionsIInv, TypeOK
  <1>1. /\ token' = token /\ now' = now /\ Free(r, t) /\ In(r, "revoking")
        /\ held' = [held EXCEPT ![r] = held[r] \cup {t}]
    BY DEF RevokeRow
  <1>2. /\ req'[r].phase = "revoking"
        /\ req'[r].marked = IF Live(t) THEN req[r].marked \cup {t} ELSE req[r].marked
        /\ \A u \in Request \ {r} : req'[u] = req[u]
    BY <1>0 DEF RevokeRow, Goto, In, Work
  <1>3. held'[r] = held[r] \cup {t} /\ \A u \in Request \ {r} : held'[u] = held[u]
    BY <1>0, <1>1
  <1>4. At(r)'
    BY <1>1, <1>2, <1>3 DEF SessionsIInv, At, In, Live, Stored
  <1>5. \A u \in Request \ {r} : held'[r] \cap held[u] = {}
    BY <1>1, <1>3 DEF Free, SessionsIInv, Apart
  <1> QED
    BY <1>1, <1>2, <1>3, <1>4, <1>5, OwnStep

----------------------------------------------------------------------------
(* Steps that change the rows                                              *)

\* A request is not disturbed by a step that leaves alone the rows it holds and
\* the successor it drew, and purges only what has expired.
LEMMA Undisturbed ==
    ASSUME SessionsIInv, NEW s \in Request, req'[s] = req[s], held'[s] = held[s],
           now' \in Nat, now <= now',
           \A t \in held[s] : Stored(t) => token'[t] = token[t],
           In(s, "rotate") => token'[req[s].next] = token[req[s].next],
           \A f \in Token : Stored(f) =>
              IF Stored(f)' THEN token'[f].expires = token[f].expires
              ELSE token[f].expires < now',
           \A f \in Token : Stored(f)' => Stored(f) \/ token[f] = Unissued
    PROVE  At(s)'
  <1>0. TypeOK /\ Rows /\ At(s)
    BY DEF SessionsIInv
  <1>1. CASE In(s, "rotate")
    <2> DEFINE t == req[s].token
               f == token[t].family
    <2>1. /\ t \in Token /\ held[s] = {t} /\ Live(t) /\ ~token[t].used
          /\ req[s].next \in Token /\ token[req[s].next] = Unissued
          /\ IF Stored(f) THEN req[s].expires <= token[f].expires ELSE req[s].expires < now
      BY <1>0, <1>1 DEF At, Rotates
    <2>2. f \in Token
      BY <1>0, <2>1 DEF TypeOK, Live, Stored, Row, Unissued, Purged
    <2>3. token'[t] = token[t]
      BY <2>1 DEF Live
    <2>4. IF token'[f].state = "stored" THEN req[s].expires <= token'[f].expires ELSE req[s].expires < now'
      <3>1. req[s].expires \in Nat /\ now \in Nat
        BY <1>0, SessionConstants DEF TypeOK, Work
      <3>2. Stored(f) => token[f].expires \in Nat
        BY <1>0, <2>2 DEF TypeOK, Stored, Row, Unissued, Purged
      <3>3. token[f] # Unissued
        BY <1>0, <2>1, <2>2 DEF Rows, Live
      <3>4. CASE Stored(f)
        BY <2>1, <2>2, <3>1, <3>2, <3>4 DEF Stored
      <3>5. CASE ~Stored(f)
        BY <2>1, <2>2, <3>1, <3>3, <3>5 DEF Stored
      <3> QED
        BY <3>4, <3>5
    <2>5. Rotates(s)'
      BY <1>1, <2>1, <2>3, <2>4 DEF Rotates, Live, Stored
    <2> QED
      BY <1>0, <1>1, <2>5 DEF At, In, Live, Stored
  <1>2. CASE ~In(s, "rotate")
    BY <1>0, <1>2 DEF At, In, Live, Stored
  <1> QED
    BY <1>1, <1>2

\* A request that ends lets go of its rows and leaves the others apart.
LEMMA EndsApart ==
    ASSUME SessionsIInv, NEW r \in Request, Goto(r, End(r)), Release(r) \/ held' = held
    PROVE  /\ Apart'
           /\ held'[r] \in {{}, held[r]}
           /\ req'[r].phase = "over" /\ req'[r].marked = {}
           /\ \A s \in Request \ {r} : req'[s] = req[s] /\ held'[s] = held[s]
  <1>0. req \in [Request -> Work] /\ held \in [Request -> SUBSET Token]
    BY DEF SessionsIInv, TypeOK
  <1>1. /\ req'[r].phase = "over" /\ req'[r].marked = {}
        /\ \A s \in Request \ {r} : req'[s] = req[s]
    BY <1>0 DEF Goto, End, Work
  <1>2. /\ held'[r] \in {{}, held[r]}
        /\ \A s \in Request \ {r} : held'[s] = held[s]
    BY <1>0 DEF Release
  <1>3. Apart'
    <2> SUFFICES ASSUME NEW s \in Request, NEW u \in Request, s # u
                 PROVE  /\ held'[s] \cap held'[u] = {}
                        /\ req'[s].phase = "rotate" /\ req'[u].phase = "rotate"
                             => req'[s].next # req'[u].next
      BY DEF Apart, In
    <2>1. held'[s] \subseteq held[s] /\ held'[u] \subseteq held[u]
      BY <1>2
    <2>2. held[s] \cap held[u] = {}
      BY DEF SessionsIInv, Apart
    <2>3. CASE s # r /\ u # r
      BY <1>1, <2>1, <2>2, <2>3 DEF SessionsIInv, Apart, In
    <2>4. CASE s = r \/ u = r
      BY <1>1, <2>1, <2>2, <2>4
    <2> QED
      BY <2>3, <2>4
  <1> QED
    BY <1>1, <1>2, <1>3

\* A login opens a family with a token that nobody knows of.
LEMMA IssueStep ==
    ASSUME SessionsIInv, TypeOK', NEW r \in Request, Issue(r)
    PROVE  SessionsIInv'
  <1>0. TypeOK /\ Rows /\ SessionEnds
    BY DEF SessionsIInv
  <1>1. PICK t \in Fresh :
           token' = [token EXCEPT ![t] =
             [state |-> "stored", family |-> t, from |-> NoToken, used |-> FALSE,
              revoked |-> FALSE, expires |-> now + Lifetime, password |-> req[r].knows]]
    BY DEF Issue
  <1>2. t \in Token /\ token[t] = Unissued /\ \A s \in Request : req[s].next # t
    BY DEF Fresh, Drawn
  <1>3. /\ token'[t].state = "stored" /\ token'[t].family = t /\ token'[t].from = NoToken
        /\ \A u \in Token \ {t} : token'[u] = token[u]
    BY <1>0, <1>1, <1>2 DEF TypeOK
  <1>4. ~Stored(t) /\ now' = now /\ now \in Nat /\ held' = held
    BY <1>0, <1>2, SessionConstants DEF Stored, Unissued, Issue, TypeOK
  <1>5. \A u \in Token : Stored(u) => /\ token[u].family \in Token \ {t}
                                      /\ token[u].from \in (Token \cup {NoToken}) \ {t}
    <2>1. t # NoToken
      BY <1>2, SessionConstants
    <2> SUFFICES ASSUME NEW u \in Token, Stored(u)
                 PROVE  /\ token[u].family \in Token /\ token[token[u].family] # Unissued
                        /\ token[u].from \in Token \cup {NoToken}
                        /\ token[u].from # NoToken => token[token[u].from] # Unissued
      BY <1>2, <2>1
    <2>2. token[u] \in Row
      BY <1>0 DEF TypeOK, Stored, Unissued, Purged
    <2> QED
      BY <1>0, <2>2 DEF Rows, Row
  <1>6. Rows'
    BY <1>0, <1>2, <1>3, <1>4, <1>5, SessionConstants DEF Rows, Live, Stored, Unissued
  <1>7. SessionEnds'
    <2> SUFFICES ASSUME NEW u \in Token, Stored(u)'
                 PROVE  IF token'[token'[u].family].state = "stored"
                        THEN token'[u].expires <= token'[token'[u].family].expires
                        ELSE token'[u].expires < now'
      BY DEF SessionEnds, Stored
    <2>1. CASE u = t
      <3>1. token'[t].expires \in Nat
        BY <1>1, <1>2, <1>4, SessionConstants, <1>0 DEF TypeOK
      <3> QED
        BY <1>2, <1>3, <2>1, <3>1 DEF Stored
    <2>2. CASE u # t
      BY <1>0, <1>3, <1>4, <1>5, <2>2 DEF SessionEnds, Stored
    <2> QED
      BY <2>1, <2>2
  <1>8. /\ Apart' /\ held'[r] \in {{}, held[r]}
        /\ req'[r].phase = "over" /\ req'[r].marked = {}
        /\ \A s \in Request \ {r} : req'[s] = req[s] /\ held'[s] = held[s]
    BY EndsApart DEF Issue
  <1>9. ASSUME NEW s \in Request PROVE At(s)'
    <2>1. CASE s = r
      BY <1>8, <2>1 DEF At, In
    <2>2. CASE s # r
      <3>1. \A u \in held[s] : Stored(u) => token'[u] = token[u]
        BY <1>0, <1>3, <1>4 DEF TypeOK
      <3>2. In(s, "rotate") => token'[req[s].next] = token[req[s].next]
        BY <1>2, <1>3 DEF SessionsIInv, At, Rotates
      <3>3. \A f \in Token :
               /\ Stored(f) => Stored(f)' /\ token'[f].expires = token[f].expires
               /\ Stored(f)' => Stored(f) \/ token[f] = Unissued
        BY <1>2, <1>3, <1>4 DEF Stored
      <3> QED
        BY <1>4, <1>8, <2>2, <3>1, <3>2, <3>3, Undisturbed
    <2> QED
      BY <2>1, <2>2
  <1> QED
    BY <1>6, <1>7, <1>8, <1>9 DEF SessionsIInv

\* A rotation stores the successor that it drew of a live token that it holds.
LEMMA CommitRotationStep ==
    ASSUME SessionsIInv, TypeOK', NEW r \in Request, CommitRotation(r)
    PROVE  SessionsIInv'
  <1>p. PICK t, n, g : t = req[r].token /\ n = req[r].next /\ g = token[t].family
    OBVIOUS
  <1>0. TypeOK /\ Rows /\ SessionEnds /\ now' = now /\ now \in Nat
    BY SessionConstants DEF SessionsIInv, CommitRotation, TypeOK
  <1>1. /\ t \in Token /\ held[r] = {t} /\ Live(t) /\ ~token[t].used
        /\ n \in Token /\ token[n] = Unissued
        /\ IF Stored(g) THEN req[r].expires <= token[g].expires ELSE req[r].expires < now
    BY <1>p DEF CommitRotation, SessionsIInv, At, Rotates
  <1>2. token[t] \in Row /\ ~Stored(n) /\ t # n /\ Stored(t) /\ g \in Token
    BY <1>p, <1>0, <1>1 DEF TypeOK, Live, Stored, Row, Unissued, Purged
  <1>3. token' = [token EXCEPT
              ![t] = [token[t] EXCEPT !.used = TRUE, !.revoked = TRUE],
              ![n] = [token[t] EXCEPT !.from = t, !.used = FALSE, !.revoked = FALSE,
                                      !.expires = req[r].expires]]
    BY <1>p DEF CommitRotation
  <1>4. /\ token'[t] = [token[t] EXCEPT !.used = TRUE, !.revoked = TRUE]
        /\ token'[n] = [token[t] EXCEPT !.from = t, !.used = FALSE, !.revoked = FALSE,
                                        !.expires = req[r].expires]
        /\ \A u \in Token \ {t, n} : token'[u] = token[u]
    BY <1>0, <1>1, <1>2, <1>3 DEF TypeOK
  <1>5. /\ Stored(t)' /\ token'[t].family = g /\ token'[t].from = token[t].from
        /\ token'[t].used /\ token'[t].revoked /\ token'[t].expires = token[t].expires
        /\ Stored(n)' /\ token'[n].family = g /\ token'[n].from = t
        /\ ~token'[n].used /\ token'[n].expires = req[r].expires
    BY <1>p, <1>2, <1>4 DEF Row, Stored
  <1>6. \A u \in Token : Stored(u) => /\ token[u].family \in Token \ {n}
                                      /\ token[u].from \in (Token \cup {NoToken}) \ {n}
    BY <1>0, <1>1, SessionConstants DEF TypeOK, Rows, Stored, Row, Unissued, Purged
  <1>7. /\ \A u \in Token \ {n} : Stored(u)' <=> Stored(u)
        /\ \A u \in Token \ {n} : Stored(u) =>
              /\ token'[u].family = token[u].family /\ token'[u].from = token[u].from
              /\ token'[u].expires = token[u].expires
              /\ token[u].used => token'[u].used
    <2>1. /\ \A u \in Token \ {t, n} : token'[u] = token[u]
          /\ t \in Token /\ token[t].family = g
      BY <1>p, <1>1, <1>4
    <2> QED
      BY <1>1, <1>2, <1>5, <2>1 DEF Stored
  <1>u. /\ \A f \in Token : token[f] # Unissued => token'[f] # Unissued
        /\ token'[n] # Unissued /\ token'[t] # Unissued
    <2>1. Unissued.state = "unissued"
      BY DEF Unissued
    <2>2. token'[n] # Unissued /\ token'[t] # Unissued
      BY <1>5, <2>1 DEF Stored
    <2> QED
      BY <1>4, <2>2
  <1>8. Rows'
    <2>1. ASSUME NEW u \in Token, Stored(u)'
          PROVE  LET f == token'[u].family
                 IN  token'[f] # Unissued /\ (token'[f].state = "stored" => token'[f].family = f)
      <3>1. \A x \in Token \ {n} : Stored(x) =>
               LET f == token[x].family
               IN  token'[f] # Unissued /\ (token'[f].state = "stored" => token'[f].family = f)
        <4> SUFFICES ASSUME NEW x \in Token \ {n}, Stored(x), NEW f, f = token[x].family
                     PROVE  token'[f] # Unissued /\ (token'[f].state = "stored" => token'[f].family = f)
          OBVIOUS
        <4>1. f \in Token \ {n} /\ token[f] # Unissued /\ (Stored(f) => token[f].family = f)
          BY <1>0, <1>6 DEF Rows
        <4> QED
          BY <1>7, <1>u, <4>1 DEF Stored
      <3>2. CASE u = n
        BY <1>p, <1>1, <1>2, <1>5, <3>1, <3>2
      <3>3. CASE u # n
        BY <1>7, <2>1, <3>1, <3>3
      <3> QED
        BY <3>2, <3>3
    <2>2. ASSUME NEW s \in Token, NEW u \in Token, Live(s)', Live(u)',
                 token'[s].family = token'[u].family
          PROVE  s = u
      <3>1. s # t /\ u # t
        BY <1>5, <2>2 DEF Live
      <3>2. \A x \in Token \ {t, n} : Live(x)' => Live(x) /\ token'[x].family = token[x].family
        BY <1>4 DEF Live, Stored
      <3>3. CASE s # n /\ u # n
        BY <1>0, <2>2, <3>1, <3>2, <3>3 DEF Rows
      <3>4. \A x \in Token \ {t, n} : Live(x)' => token'[x].family # g
        BY <1>p, <1>0, <1>1, <3>2 DEF Rows
      <3> QED
        BY <1>5, <2>2, <3>1, <3>3, <3>4
    <2>3. ASSUME NEW s \in Token, NEW u \in Token, Stored(s)', Stored(u)',
                 token'[s].from = token'[u].from, token'[s].from # NoToken
          PROVE  s = u
      <3>1. CASE s # n /\ u # n
        BY <1>0, <1>7, <2>3, <3>1 DEF Rows
      <3>2. \A x \in Token \ {n} : Stored(x)' => token'[x].from # t
        BY <1>0, <1>1, <1>2, <1>7, SessionConstants DEF Rows
      <3> QED
        BY <1>5, <2>3, <3>1, <3>2
    <2>4. ASSUME NEW s \in Token, Stored(s)', token'[s].from # NoToken
          PROVE  /\ token'[token'[s].from] # Unissued
                 /\ token'[token'[s].from].state = "stored" => token'[token'[s].from].used
      <3>1. CASE s = n
        BY <1>5, <1>u, <3>1
      <3>2. CASE s # n
        <4>0. PICK f : f = token[s].from
          OBVIOUS
        <4>1. /\ token'[s].from = f /\ f \in Token \ {n} /\ token[f] # Unissued
              /\ Stored(f) => token[f].used
          BY <1>0, <1>6, <1>7, <2>4, <3>2, <4>0 DEF Rows
        <4>2. Stored(f)' => token'[f].used
          BY <1>7, <4>1
        <4>3. token'[f] # Unissued
          BY <1>u, <4>1
        <4> QED
          BY <4>1, <4>2, <4>3 DEF Stored
      <3> QED
        BY <3>1, <3>2
    <2> QED
      BY <2>1, <2>2, <2>3, <2>4 DEF Rows, Stored, Live
  <1>9. SessionEnds'
    <2> SUFFICES ASSUME NEW u \in Token, Stored(u)'
                 PROVE  IF token'[token'[u].family].state = "stored"
                        THEN token'[u].expires <= token'[token'[u].family].expires
                        ELSE token'[u].expires < now'
      BY DEF SessionEnds, Stored
    <2>1. CASE u = n
      <3>1. g \in Token \ {n} /\ token'[u].family = g /\ token'[u].expires = req[r].expires
        BY <1>p, <1>1, <1>2, <1>5, <1>6, <2>1
      <3> QED
        BY <1>0, <1>1, <1>7, <3>1 DEF Stored
    <2>2. CASE u # n
      <3>1. Stored(u) /\ token'[u].family = token[u].family /\ token'[u].expires = token[u].expires
        BY <1>7, <2>2
      <3>2. PICK f : f = token[u].family
        OBVIOUS
      <3>3. f \in Token \ {n}
        BY <1>6, <3>1, <3>2, <2>2
      <3>4. IF Stored(f) THEN token[u].expires <= token[f].expires ELSE token[u].expires < now
        BY <1>0, <3>1, <3>2 DEF SessionEnds
      <3>5. (Stored(f)' <=> Stored(f)) /\ (Stored(f) => token'[f].expires = token[f].expires)
        BY <1>7, <3>3
      <3> QED
        BY <1>0, <3>1, <3>2, <3>4, <3>5 DEF Stored
    <2> QED
      BY <2>1, <2>2
  <1>10. /\ Apart'
         /\ req'[r].phase = "over" /\ req'[r].marked = {}
         /\ \A s \in Request \ {r} : req'[s] = req[s] /\ held'[s] = held[s]
    BY EndsApart DEF CommitRotation
  <1>11. ASSUME NEW s \in Request PROVE At(s)'
    <2>1. CASE s = r
      BY <1>10, <2>1 DEF At, In
    <2>2. CASE s # r
      <3>1. t \notin held[s]
        BY <1>1, <2>2 DEF SessionsIInv, Apart
      <3>2. \A u \in held[s] : Stored(u) => token'[u] = token[u]
        BY <1>0, <1>2, <1>4, <3>1 DEF TypeOK
      <3>3. In(s, "rotate") => req[s].next \in Token \ {n} /\ token[req[s].next] = Unissued
        BY <1>p, <2>2 DEF SessionsIInv, At, Rotates, Apart, CommitRotation
      <3>4. In(s, "rotate") => token'[req[s].next] = token[req[s].next]
        BY <1>2, <1>4, <3>3 DEF Stored, Unissued
      <3>5. \A f \in Token :
               /\ Stored(f) => Stored(f)' /\ token'[f].expires = token[f].expires
               /\ Stored(f)' => Stored(f) \/ token[f] = Unissued
        BY <1>1, <1>2, <1>7
      <3> QED
        BY <1>0, <1>10, <2>2, <3>2, <3>4, <3>5, Undisturbed
    <2> QED
      BY <2>1, <2>2
  <1> QED
    BY <1>8, <1>9, <1>10, <1>11 DEF SessionsIInv

\* A step that stores nothing, and leaves of each row its family and whose
\* successor it is, keeps what the rows say of each other.
LEMMA RowsKept ==
    ASSUME TypeOK, Rows,
           \A t \in Token : token[t] # Unissued => token'[t] # Unissued,
           \A t \in Token : Stored(t)' =>
              /\ Stored(t) /\ token'[t].family = token[t].family
              /\ token'[t].from = token[t].from
              /\ token[t].revoked => token'[t].revoked
              /\ token[t].used => token'[t].used
    PROVE  Rows'
  <1>1. \A t \in Token : Stored(t) => /\ token[t].family \in Token
                                      /\ token[t].from \in Token \cup {NoToken}
    BY DEF TypeOK, Stored, Row, Unissued, Purged
  <1>2. \A t \in Token : Live(t)' => Live(t)
    BY DEF Live
  <1>3. ASSUME NEW t \in Token, Stored(t)'
        PROVE  LET f == token'[t].family
               IN  token'[f] # Unissued /\ (token'[f].state = "stored" => token'[f].family = f)
    <2>1. PICK f : f = token[t].family
      OBVIOUS
    <2>2. /\ token'[t].family = f /\ f \in Token /\ token[f] # Unissued
          /\ Stored(f) => token[f].family = f
      BY <1>1, <1>3, <2>1 DEF Rows
    <2> QED
      BY <2>2 DEF Stored
  <1>4. ASSUME NEW s \in Token, NEW t \in Token, Live(s)', Live(t)',
               token'[s].family = token'[t].family
        PROVE  s = t
    BY <1>2, <1>4 DEF Rows, Live
  <1>5. ASSUME NEW s \in Token, NEW t \in Token, Stored(s)', Stored(t)',
               token'[s].from = token'[t].from, token'[s].from # NoToken
        PROVE  s = t
    BY <1>5 DEF Rows
  <1>6. ASSUME NEW s \in Token, Stored(s)', token'[s].from # NoToken
        PROVE  /\ token'[token'[s].from] # Unissued
               /\ token'[token'[s].from].state = "stored" => token'[token'[s].from].used
    <2>1. PICK f : f = token[s].from
      OBVIOUS
    <2>2. /\ token'[s].from = f /\ f \in Token /\ token[f] # Unissued
          /\ Stored(f) => token[f].used
      BY <1>1, <1>6, <2>1 DEF Rows
    <2> QED
      BY <2>2 DEF Stored
  <1> QED
    BY <1>3, <1>4, <1>5, <1>6 DEF Rows, Stored, Live

\* A revocation commits what it marked, rows that it holds.
LEMMA CommitRevocationStep ==
    ASSUME SessionsIInv, TypeOK', NEW r \in Request, CommitRevocation(r)
    PROVE  SessionsIInv'
  <1>0. TypeOK /\ Rows /\ SessionEnds /\ now' = now /\ now \in Nat
    BY SessionConstants DEF SessionsIInv, CommitRevocation, TypeOK
  <1>1. /\ req[r].marked \subseteq held[r]
        /\ \A t \in req[r].marked : t \in Token /\ Live(t)
    BY <1>0 DEF SessionsIInv, At, TypeOK, Live, Stored
  <1>2. /\ \A t \in Token \ req[r].marked : token'[t] = token[t]
        /\ \A t \in req[r].marked : token'[t] = [token[t] EXCEPT !.revoked = TRUE]
    BY <1>1 DEF CommitRevocation
  <1>3. \A t \in req[r].marked : token[t] \in Row
    BY <1>0, <1>1 DEF TypeOK, Live, Stored, Unissued, Purged
  <1>4. \A t \in req[r].marked :
           /\ token'[t].state = "stored" /\ token'[t].family = token[t].family
           /\ token'[t].from = token[t].from /\ token'[t].revoked
           /\ token'[t].used = token[t].used /\ token'[t].expires = token[t].expires
    <2> SUFFICES ASSUME NEW t \in req[r].marked
                 PROVE  /\ token'[t].state = "stored" /\ token'[t].family = token[t].family
                        /\ token'[t].from = token[t].from /\ token'[t].revoked
                        /\ token'[t].used = token[t].used /\ token'[t].expires = token[t].expires
      OBVIOUS
    <2>1. token[t] \in Row /\ token'[t] = [token[t] EXCEPT !.revoked = TRUE]
      BY <1>2, <1>3
    <2> QED
      BY <2>1 DEF Row
  <1>5. \A t \in Token :
           /\ Stored(t)' <=> Stored(t)
           /\ Stored(t) => /\ token'[t].family = token[t].family
                           /\ token'[t].from = token[t].from
                           /\ token'[t].used = token[t].used
                           /\ token'[t].expires = token[t].expires
                           /\ token[t].revoked => token'[t].revoked
    BY <1>1, <1>2, <1>4 DEF Stored, Live
  <1>6. \A t \in Token : token[t] # Unissued => token'[t] # Unissued
    <2>1. Unissued.state = "unissued"
      BY DEF Unissued
    <2> QED
      BY <1>2, <1>4, <2>1
  <1>7. Rows'
    BY <1>0, <1>5, <1>6, RowsKept
  <1>8. SessionEnds'
    <2> SUFFICES ASSUME NEW u \in Token, Stored(u)'
                 PROVE  IF token'[token'[u].family].state = "stored"
                        THEN token'[u].expires <= token'[token'[u].family].expires
                        ELSE token'[u].expires < now'
      BY DEF SessionEnds, Stored
    <2>1. PICK f : f = token[u].family
      OBVIOUS
    <2>2. /\ Stored(u) /\ token'[u].family = f /\ token'[u].expires = token[u].expires
          /\ f \in Token
      BY <1>0, <1>5, <2>1 DEF TypeOK, Stored, Row, Unissued, Purged
    <2>3. IF Stored(f) THEN token[u].expires <= token[f].expires ELSE token[u].expires < now
      BY <1>0, <2>1, <2>2 DEF SessionEnds
    <2> QED
      BY <1>0, <1>5, <2>2, <2>3 DEF Stored
  <1>9. /\ Apart'
        /\ req'[r].phase = "over" /\ req'[r].marked = {}
        /\ \A s \in Request \ {r} : req'[s] = req[s] /\ held'[s] = held[s]
    BY EndsApart DEF CommitRevocation
  <1>10. ASSUME NEW s \in Request PROVE At(s)'
    <2>1. CASE s = r
      BY <1>9, <2>1 DEF At, In
    <2>2. CASE s # r
      <3>1. \A t \in held[s] : token'[t] = token[t]
        BY <1>0, <1>1, <1>2, <2>2 DEF SessionsIInv, Apart, TypeOK
      <3>2. In(s, "rotate") => token'[req[s].next] = token[req[s].next]
        <4>1. \A t \in Token : Live(t) => token[t] # Unissued
          BY DEF Live, Stored, Unissued
        <4> QED
          BY <1>1, <1>2, <4>1 DEF SessionsIInv, At, Rotates
      <3> QED
        BY <1>0, <1>5, <1>9, <2>2, <3>1, <3>2, Undisturbed
    <2> QED
      BY <2>1, <2>2
  <1> QED
    BY <1>7, <1>8, <1>9, <1>10 DEF SessionsIInv

\* What has expired is purged when nobody holds it, whether or not the rest of
\* its family is there.
LEMMA PurgeStep ==
    ASSUME SessionsIInv, TypeOK', NEW t \in Token, Purge(t)
    PROVE  SessionsIInv'
  <1>0. TypeOK /\ Rows /\ SessionEnds /\ now' = now /\ now \in Nat /\ req' = req /\ held' = held
    BY SessionConstants DEF SessionsIInv, Purge, TypeOK
  <1>1. /\ Stored(t) /\ token[t].expires < now /\ \A r \in Request : t \notin held[r]
        /\ token'[t] = Purged /\ \A u \in Token \ {t} : token'[u] = token[u]
    BY <1>0 DEF Purge, TypeOK
  <1>2. Purged.state = "purged" /\ Purged # Unissued /\ token[t].expires \in Nat
    BY <1>0, <1>1 DEF Purged, Unissued, TypeOK, Stored, Row
  <1>3. ~Stored(t)' /\ \A u \in Token : Stored(u)' => u # t /\ Stored(u)
    BY <1>1, <1>2 DEF Stored
  <1>4. Rows'
    BY <1>0, <1>1, <1>2, <1>3, RowsKept
  <1>5. SessionEnds'
    <2> SUFFICES ASSUME NEW u \in Token, Stored(u)'
                 PROVE  IF token'[token'[u].family].state = "stored"
                        THEN token'[u].expires <= token'[token'[u].family].expires
                        ELSE token'[u].expires < now'
      BY DEF SessionEnds, Stored
    <2>1. PICK f : f = token[u].family
      OBVIOUS
    <2>2. /\ Stored(u) /\ token'[u] = token[u] /\ f \in Token /\ token[u].expires \in Nat
      BY <1>0, <1>1, <1>3, <2>1 DEF TypeOK, Stored, Row, Unissued, Purged
    <2>3. IF Stored(f) THEN token[u].expires <= token[f].expires ELSE token[u].expires < now
      BY <1>0, <2>1, <2>2 DEF SessionEnds
    <2>4. CASE f = t
      BY <1>0, <1>1, <1>2, <2>1, <2>2, <2>3, <2>4
    <2>5. CASE f # t
      BY <1>0, <1>1, <2>1, <2>2, <2>3, <2>5 DEF Stored
    <2> QED
      BY <2>4, <2>5
  <1>6. Apart'
    BY <1>0 DEF SessionsIInv, Apart, In
  <1>7. ASSUME NEW s \in Request PROVE At(s)'
    <2>1. \A u \in held[s] : token'[u] = token[u]
      BY <1>0, <1>1 DEF TypeOK
    <2>2. In(s, "rotate") => token'[req[s].next] = token[req[s].next]
      <3>1. token[t] # Unissued
        BY <1>1 DEF Stored, Unissued
      <3> QED
        BY <1>1, <3>1 DEF SessionsIInv, At, Rotates
    <2>3. \A f \in Token :
             /\ Stored(f) => IF Stored(f)' THEN token'[f].expires = token[f].expires
                             ELSE token[f].expires < now'
             /\ Stored(f)' => Stored(f) \/ token[f] = Unissued
      <3> SUFFICES ASSUME NEW f \in Token
                   PROVE  /\ Stored(f) => IF Stored(f)' THEN token'[f].expires = token[f].expires
                                          ELSE token[f].expires < now'
                          /\ Stored(f)' => Stored(f)
        OBVIOUS
      <3>1. CASE f = t
        BY <1>0, <1>1, <1>3, <3>1
      <3>2. CASE f # t
        BY <1>1, <3>2 DEF Stored
      <3> QED
        BY <3>1, <3>2
    <2> QED
      BY <1>0, <2>1, <2>2, <2>3, Undisturbed
  <1> QED
    BY <1>4, <1>5, <1>6, <1>7 DEF SessionsIInv

\* Time only makes expired what was about to.
LEMMA TickStep ==
    ASSUME SessionsIInv, TypeOK', Tick
    PROVE  SessionsIInv'
  <1>0. /\ TypeOK /\ Rows /\ SessionEnds /\ token' = token /\ req' = req /\ held' = held
        /\ now \in Nat /\ now' \in Nat /\ now < now'
    BY SessionConstants DEF SessionsIInv, Tick, TypeOK
  <1>1. Rows'
    BY <1>0 DEF Rows, Live, Stored
  <1>2. SessionEnds'
    <2>1. \A t \in Token : Stored(t) => token[t].expires \in Nat
      BY <1>0 DEF TypeOK, Stored, Row, Unissued, Purged
    <2> QED
      BY <1>0, <2>1 DEF SessionEnds, Stored
  <1>3. Apart'
    BY <1>0 DEF SessionsIInv, Apart, In
  <1>4. ASSUME NEW s \in Request PROVE At(s)'
    BY <1>0, Undisturbed DEF Stored
  <1> QED
    BY <1>1, <1>2, <1>3, <1>4 DEF SessionsIInv

----------------------------------------------------------------------------
(* Types                                                                   *)

\* What a request becomes when it ends is a request.
LEMMA EndType ==
    ASSUME TypeOK, NEW r \in Request
    PROVE  End(r) \in Work
  <1>1. PICK q : q = req[r] /\ q \in Work
    BY DEF TypeOK
  <1>2. [q EXCEPT !.phase = "over", !.next = NoToken, !.todo = {}, !.marked = {}] \in Work
    BY <1>1 DEF Work
  <1> QED
    BY <1>1, <1>2 DEF End

\* Every step takes well-typed tables and requests to well-typed ones.
LEMMA TypesStep ==
    ASSUME SessionsIInv, [Next]_vars
    PROVE  TypeOK'
  <1> USE DEF TypeOK
  <1>0. TypeOK /\ now \in Nat /\ now + Lifetime \in Nat
    BY SessionConstants DEF SessionsIInv
  <1>q. \A r \in Request : req[r] \in Work
    BY <1>0
  <1>r. \A t \in Token : Stored(t) => token[t] \in Row
    BY <1>0 DEF Stored, Unissued, Purged
  <1>1. ASSUME NEW r \in Request, Login(r) PROVE TypeOK'
    <2> DEFINE w == [NoWork EXCEPT !.op = "login", !.knows = password.is,
                                   !.phase = IF password.weak THEN "rehash" ELSE "issue"]
    <2>1. w \in Work
      BY <1>0 DEF NoWork, Work
    <2>2. req' = [req EXCEPT ![r] = w]
      BY <1>1 DEF Login, Goto
    <2> HIDE DEF w
    <2> QED
      BY <1>0, <1>1, <2>1, <2>2 DEF Login
  <1>2. ASSUME NEW r \in Request, Rehash(r) \/ StorePassword(r) PROVE TypeOK'
    <2>0. PICK q : q = req[r] /\ q \in Work
      BY <1>q
    <2>1. [q EXCEPT !.phase = "issue"] \in Work /\ [q EXCEPT !.phase = "revoke"] \in Work
          /\ q.knows \in Password
      BY <2>0 DEF Work
    <2>2. password' \in [is : Password, weak : BOOLEAN]
      <3>1. CASE Rehash(r)
        BY <2>0, <2>1, <3>1 DEF Rehash
      <3>2. CASE StorePassword(r)
        BY <3>2 DEF StorePassword, Password
      <3> QED
        BY <1>2, <3>1, <3>2
    <2> QED
      BY <1>0, <1>2, <2>0, <2>1, <2>2 DEF Rehash, StorePassword, Goto
  <1>3. ASSUME NEW r \in Request, Issue(r) PROVE TypeOK'
    <2>1. PICK t \in Fresh :
             token' = [token EXCEPT ![t] =
               [state |-> "stored", family |-> t, from |-> NoToken, used |-> FALSE,
                revoked |-> FALSE, expires |-> now + Lifetime, password |-> req[r].knows]]
      BY <1>3 DEF Issue
    <2>2. [state |-> "stored", family |-> t, from |-> NoToken, used |-> FALSE,
           revoked |-> FALSE, expires |-> now + Lifetime, password |-> req[r].knows] \in Row
      BY <1>0, <2>1 DEF Row, Fresh, Work
    <2> QED
      BY <1>0, <1>3, <2>1, <2>2, EndType DEF Issue, Goto
  <1>4. ASSUME NEW r \in Request, NEW t \in Token, Refresh(r, t) \/ Logout(r, t) PROVE TypeOK'
    <2>1. token[t].family \in Token \/ ~Stored(t)
      BY <1>r DEF Row
    <2>2. CASE Refresh(r, t)
      <3>1. [NoWork EXCEPT !.op = "refresh", !.token = t, !.phase = "lock"] \in Work
        BY DEF NoWork, Work, Password
      <3> QED
        BY <1>0, <2>2, <3>1 DEF Refresh, Goto
    <2>3. CASE Logout(r, t)
      <3>1. [NoWork EXCEPT !.op = "logout", !.token = t, !.scope = token[t].family,
                           !.phase = "revoke"] \in Work
        BY <2>1, <2>3 DEF NoWork, Work, Password, Logout
      <3> QED
        BY <1>0, <2>3, <3>1 DEF Logout, Goto
    <2> QED
      BY <1>4, <2>2, <2>3
  <1>5. ASSUME NEW r \in Request, LogoutAll(r) \/ ChangePassword(r) PROVE TypeOK'
    <2>1. /\ [NoWork EXCEPT !.op = "logoutAll", !.phase = "revoke"] \in Work
          /\ [NoWork EXCEPT !.op = "change", !.knows = password.is, !.phase = "store"] \in Work
      BY <1>0 DEF NoWork, Work, Password
    <2> QED
      BY <1>0, <1>5, <2>1 DEF LogoutAll, ChangePassword, Goto
  <1>6. ASSUME NEW r \in Request, LockToken(r) PROVE TypeOK'
    <2>0. PICK q, t : q = req[r] /\ t = q.token /\ q \in Work /\ t \in Token \cup {NoToken}
      BY <1>q DEF Work
    <2>t. t \in Token
      BY <1>6, <2>0 DEF LockToken, SessionsIInv, At
    <2>1. t \in Token => (Stored(t) => token[t] \in Row /\ token[t].family \in Token)
      BY <1>r DEF Row
    <2>2. CASE /\ Stored(t) /\ Usable(t)
               /\ held' = [held EXCEPT ![r] = {t}]
               /\ \E s \in Fresh :
                     Goto(r, [q EXCEPT !.phase = "rotate", !.next = s,
                                       !.expires = SuccessorExpiry(t)])
      <3>2. SuccessorExpiry(t) \in Nat
        BY <1>0, <2>t, <2>2, ExpiryKept
      <3>3. PICK s \in Fresh : req' = [req EXCEPT ![r] =
               [q EXCEPT !.phase = "rotate", !.next = s, !.expires = SuccessorExpiry(t)]]
        BY <2>2 DEF Goto
      <3>4. [q EXCEPT !.phase = "rotate", !.next = s, !.expires = SuccessorExpiry(t)] \in Work
        BY <2>0, <3>2 DEF Work, Fresh
      <3> QED
        BY <1>0, <1>6, <2>t, <2>2, <3>3, <3>4 DEF LockToken
    <2>3. CASE /\ Stored(t) /\ token[t].used
               /\ held' = [held EXCEPT ![r] = {t}]
               /\ Goto(r, [q EXCEPT !.phase = "revoke", !.scope = token[t].family])
      <3>2. [q EXCEPT !.phase = "revoke", !.scope = token[t].family] \in Work
        BY <2>0, <2>t, <2>1, <2>3 DEF Work
      <3> QED
        BY <1>0, <1>6, <2>t, <2>3, <3>2 DEF LockToken, Goto
    <2>4. CASE UNCHANGED held /\ Goto(r, End(r))
      BY <1>0, <1>6, <2>4, EndType DEF LockToken, Goto
    <2> QED
      BY <1>6, <2>0, <2>2, <2>3, <2>4 DEF LockToken
  <1>7. ASSUME NEW r \in Request, CommitRotation(r) PROVE TypeOK'
    <2>1. PICK t, n : /\ t = req[r].token /\ n = req[r].next
                      /\ t \in Token /\ n \in Token /\ Live(t)
      BY <1>7 DEF SessionsIInv, At, Rotates, CommitRotation
    <2>2. PICK row, e : row = token[t] /\ e = req[r].expires /\ row \in Row /\ e \in Nat
      BY <1>q, <1>r, <2>1 DEF Live, Work
    <2>3. /\ [row EXCEPT !.used = TRUE, !.revoked = TRUE] \in Row
          /\ [row EXCEPT !.from = t, !.used = FALSE, !.revoked = FALSE, !.expires = e] \in Row
      BY <2>1, <2>2 DEF Row
    <2>4. token' = [token EXCEPT
              ![t] = [row EXCEPT !.used = TRUE, !.revoked = TRUE],
              ![n] = [row EXCEPT !.from = t, !.used = FALSE, !.revoked = FALSE, !.expires = e]]
      BY <1>7, <2>1, <2>2 DEF CommitRotation
    <2>5. token' \in [Token -> Row \cup {Unissued, Purged}]
      BY <1>0, <2>3, <2>4
    <2> QED
      BY <1>0, <1>7, <2>5, EndType DEF CommitRotation, Goto, Release
  <1>8. ASSUME NEW r \in Request, RevokeSees(r) PROVE TypeOK'
    <2>0. PICK q, T : /\ q = req[r] /\ q \in Work
                      /\ T = {t \in Token : Live(t) /\ InScope(r, t)} /\ T \subseteq Token
      BY <1>q
    <2>1. [q EXCEPT !.phase = "revoking", !.todo = T] \in Work
      BY <2>0 DEF Work
    <2> QED
      BY <1>0, <1>8, <2>0, <2>1 DEF RevokeSees, Goto
  <1>9. ASSUME NEW r \in Request, NEW t \in Token, RevokeRow(r, t) PROVE TypeOK'
    <2>0. PICK q, M : /\ q = req[r] /\ q \in Work
                      /\ M = (IF Live(t) THEN q.marked \cup {t} ELSE q.marked)
      BY <1>q
    <2>1. [q EXCEPT !.todo = q.todo \ {t}, !.marked = M] \in Work
      BY <2>0 DEF Work
    <2>2. req' = [req EXCEPT ![r] = [q EXCEPT !.todo = q.todo \ {t}, !.marked = M]]
      BY <1>9, <2>0 DEF RevokeRow, Goto
    <2> QED
      BY <1>0, <1>9, <2>1, <2>2 DEF RevokeRow
  <1>10. ASSUME NEW r \in Request, CommitRevocation(r) PROVE TypeOK'
    <2>1. ASSUME NEW t \in Token, t \in req[r].marked
          PROVE  [token[t] EXCEPT !.revoked = TRUE] \in Row
      <3>1. token[t] \in Row
        BY <1>r, <2>1 DEF SessionsIInv, At, Live
      <3> QED
        BY <3>1 DEF Row
    <2>2. token' \in [Token -> Row \cup {Unissued, Purged}]
      BY <1>0, <1>10, <2>1 DEF CommitRevocation
    <2> QED
      BY <1>0, <1>10, <2>2, EndType DEF CommitRevocation, Goto, Release
  <1>11. ASSUME NEW r \in Request, Fail(r) PROVE TypeOK'
    BY <1>0, <1>11, EndType DEF Fail, Goto, Release
  <1>12. ASSUME NEW t \in Token, Purge(t) PROVE TypeOK'
    BY <1>0, <1>12 DEF Purge
  <1>13. CASE Tick
    BY <1>0, <1>13, SessionConstants DEF Tick
  <1>14. CASE UNCHANGED vars
    BY <1>0, <1>14 DEF vars
  <1> QED
    BY <1>1, <1>2, <1>3, <1>4, <1>5, <1>6, <1>7, <1>8, <1>9, <1>10, <1>11, <1>12, <1>13,
       <1>14 DEF Next

----------------------------------------------------------------------------
(* The invariant holds                                                     *)

\* Nothing is stored, locked or under way at first.
LEMMA SessionsStart == Init => SessionsIInv
  <1> SUFFICES ASSUME Init PROVE SessionsIInv
    OBVIOUS
  <1>1. Initial \in Password
    BY DEF Password
  <1>2. TypeOK
    <2>1. NoWork \in Work
      BY <1>1 DEF NoWork, Work
    <2> QED
      BY <1>1, <2>1, SessionConstants DEF Init, TypeOK
  <1>3. \A t \in Token : ~Stored(t)
    BY DEF Init, Stored, Unissued
  <1>4. \A r \in Request : req[r].phase = "idle" /\ req[r].marked = {} /\ held[r] = {}
    BY DEF Init, NoWork
  <1>5. Rows /\ SessionEnds
    BY <1>3 DEF Rows, Live, SessionEnds
  <1>6. Apart /\ \A r \in Request : At(r)
    BY <1>4 DEF Apart, At, In
  <1> QED
    BY <1>2, <1>5, <1>6 DEF SessionsIInv

\* Every step of every request, the purge and the clock keep it.
LEMMA SessionsStep ==
    ASSUME SessionsIInv, [Next]_vars
    PROVE  SessionsIInv'
  <1>0. TypeOK'
    BY TypesStep
  <1>1. ASSUME NEW r \in Request, LockToken(r) PROVE SessionsIInv'
    BY <1>0, <1>1, LockTokenStep
  <1>2. ASSUME NEW r \in Request, NEW t \in Token, RevokeRow(r, t) PROVE SessionsIInv'
    BY <1>0, <1>2, RevokeRowStep
  <1>3. ASSUME NEW r \in Request, Issue(r) PROVE SessionsIInv'
    BY <1>0, <1>3, IssueStep
  <1>4. ASSUME NEW r \in Request, CommitRotation(r) PROVE SessionsIInv'
    BY <1>0, <1>4, CommitRotationStep
  <1>5. ASSUME NEW r \in Request, CommitRevocation(r) PROVE SessionsIInv'
    BY <1>0, <1>5, CommitRevocationStep
  <1>6. ASSUME NEW r \in Request,
               \/ Login(r) \/ Rehash(r) \/ LogoutAll(r) \/ RevokeSees(r)
               \/ ChangePassword(r) \/ StorePassword(r) \/ Fail(r)
               \/ \E t \in Token : Refresh(r, t) \/ Logout(r, t)
        PROVE  SessionsIInv'
    BY <1>0, <1>6, PlainSteps
  <1>7. ASSUME NEW t \in Token, Purge(t) PROVE SessionsIInv'
    BY <1>0, <1>7, PurgeStep
  <1>8. CASE Tick
    BY <1>0, <1>8, TickStep
  <1>9. CASE UNCHANGED vars
    BY <1>9 DEF vars, SessionsIInv, TypeOK, Rows, SessionEnds, At, Rotates, Apart, In,
                Live, Stored
  <1> QED
    BY <1>1, <1>2, <1>3, <1>4, <1>5, <1>6, <1>7, <1>8, <1>9 DEF Next

\* The rows of refresh_token, the requests at work on them and the locks they
\* hold are always as the invariant says.
THEOREM SessionsInvariant == Spec => []SessionsIInv
  <1>1. SessionsIInv /\ [Next]_vars => SessionsIInv'
    BY SessionsStep
  <1> QED
    BY SessionsStart, <1>1, PTL DEF Spec

----------------------------------------------------------------------------
(* What it says of sessions                                                *)

\* A set of which any two members are one has at most one.
LEMMA AtMostOne ==
    ASSUME NEW S, \A x, y \in S : x = y
    PROVE  Cardinality(S) <= 1
  <1>1. CASE S = {}
    BY <1>1, FS_EmptySet
  <1>2. CASE S # {}
    <2>1. PICK x \in S : S = {x}
      BY <1>2
    <2> QED
      BY <2>1, FS_Singleton
  <1> QED
    BY <1>1, <1>2

\* However many requests rotate and revoke its tokens at the same time, a family
\* never forks (refreshToken.service.ts, rotate under FOR UPDATE).
THEOREM SessionsInvHolds == Spec => []SessionsInv
  <1>1. SessionsIInv => SessionsInv
    <2> SUFFICES ASSUME SessionsIInv, NEW t \in Token, Stored(t)
                 PROVE  /\ Cardinality({s \in Family(token[t].family) : Live(s)}) <= 1
                        /\ Cardinality({s \in Family(token[t].family) : token[s].from = t}) <= 1
      BY DEF SessionsInv, NoFork, SessionsIInv
    <2>0. Rows /\ t # NoToken
      BY SessionConstants DEF SessionsIInv
    <2>1. PICK L : L = {s \in Family(token[t].family) : Live(s)}
      OBVIOUS
    <2>2. PICK C : C = {s \in Family(token[t].family) : token[s].from = t}
      OBVIOUS
    <2>3. \A s, u \in L : s = u
      BY <2>0, <2>1 DEF Rows, Family
    <2>4. \A s, u \in C : s = u
      BY <2>0, <2>2 DEF Rows, Family
    <2> QED
      BY <2>1, <2>2, <2>3, <2>4, AtMostOne
  <1> QED
    BY SessionsInvariant, <1>1, PTL

\* No chain of refreshes outlives the login that began it, not even when the
\* first row of the session has been purged in between.
THEOREM SessionEndsHolds == Spec => []SessionEnds
  <1>1. SessionsIInv => SessionEnds
    BY DEF SessionsIInv
  <1> QED
    BY SessionsInvariant, <1>1, PTL

\* No step makes a token of a family live once none of it is: a rotation only
\* stores a successor while the token it locked is live, and a login opens a
\* family that has no rows.
LEMMA OverStaysOver ==
    ASSUME SessionsIInv, [Next]_vars, NEW f \in Token, Over(f), NEW t \in Token,
           Stored(t)', token'[t].family = f
    PROVE  ~Live(t)'
  <1>0. TypeOK /\ Rows
    BY DEF SessionsIInv
  <1>p. /\ \A u \in Token : Stored(u) /\ token[u].family = f => ~Live(u)
        /\ \E u \in Token : Stored(u) /\ token[u].family = f
    BY DEF Over, Family
  <1>1. CASE token' = token
    BY <1>1, <1>p DEF Live, Stored
  <1>2. ASSUME NEW r \in Request, Issue(r) PROVE ~Live(t)'
    <2>1. PICK s \in Fresh :
             token' = [token EXCEPT ![s] =
               [state |-> "stored", family |-> s, from |-> NoToken, used |-> FALSE,
                revoked |-> FALSE, expires |-> now + Lifetime, password |-> req[r].knows]]
      BY <1>2 DEF Issue
    <2>2. s \in Token /\ token[s] = Unissued
      BY DEF Fresh
    <2>3. s # f
      BY <1>0, <1>p, <2>2 DEF Rows
    <2>4. t # s
      BY <1>0, <2>1, <2>2, <2>3 DEF TypeOK
    <2>5. token'[t] = token[t]
      BY <1>0, <2>1, <2>4 DEF TypeOK
    <2> QED
      BY <1>p, <2>5 DEF Live, Stored
  <1>3. ASSUME NEW r \in Request, CommitRotation(r) PROVE ~Live(t)'
    <2>1. PICK s, n, row, e : /\ s = req[r].token /\ n = req[r].next
                              /\ row = token[s] /\ e = req[r].expires
      OBVIOUS
    <2>2. s \in Token /\ n \in Token /\ Live(s) /\ token[n] = Unissued /\ row \in Row
      BY <1>0, <1>3, <2>1
         DEF SessionsIInv, At, Rotates, CommitRotation, TypeOK, Live, Stored, Unissued, Purged
    <2>3. token' = [token EXCEPT
              ![s] = [row EXCEPT !.used = TRUE, !.revoked = TRUE],
              ![n] = [row EXCEPT !.from = s, !.used = FALSE, !.revoked = FALSE, !.expires = e]]
      BY <1>3, <2>1 DEF CommitRotation
    <2>4. s # n /\ row.family # f
      BY <1>p, <2>1, <2>2 DEF Live, Stored, Unissued
    <2>5. token'[s].revoked /\ token'[n].family # f
      BY <1>0, <2>2, <2>3, <2>4 DEF TypeOK, Row
    <2>6. \A u \in Token \ {s, n} : token'[u] = token[u]
      BY <1>0, <2>3 DEF TypeOK
    <2>7. CASE t = s \/ t = n
      BY <2>5, <2>7 DEF Live
    <2>8. CASE t # s /\ t # n
      BY <1>p, <2>6, <2>8 DEF Live, Stored
    <2> QED
      BY <2>7, <2>8
  <1>4. ASSUME NEW r \in Request, CommitRevocation(r) PROVE ~Live(t)'
    <2>1. CASE t \in req[r].marked
      <3>1. token[t] \in Row /\ token'[t] = [token[t] EXCEPT !.revoked = TRUE]
        BY <1>0, <1>4, <2>1
           DEF SessionsIInv, At, CommitRevocation, TypeOK, Live, Stored, Unissued, Purged
      <3>2. token'[t].revoked
        BY <3>1 DEF Row
      <3> QED
        BY <3>2 DEF Live
    <2>2. CASE t \notin req[r].marked
      <3>1. token'[t] = token[t]
        BY <1>4, <2>2 DEF CommitRevocation
      <3> QED
        BY <1>p, <3>1 DEF Live, Stored
    <2> QED
      BY <2>1, <2>2
  <1>5. ASSUME NEW s \in Token, Purge(s) PROVE ~Live(t)'
    <2>1. t # s /\ token'[t] = token[t]
      BY <1>0, <1>5 DEF Purge, TypeOK, Stored, Purged
    <2> QED
      BY <1>p, <2>1 DEF Live, Stored
  <1>6. CASE UNCHANGED vars
    BY <1>1, <1>6 DEF vars
  <1>7. ASSUME NEW r \in Request,
               \/ Login(r) \/ Rehash(r) \/ LockToken(r) \/ LogoutAll(r) \/ RevokeSees(r)
               \/ ChangePassword(r) \/ StorePassword(r) \/ Fail(r)
               \/ \E s \in Token : Refresh(r, s) \/ Logout(r, s) \/ RevokeRow(r, s)
        PROVE  token' = token
    BY <1>7 DEF Login, Rehash, LockToken, LogoutAll, RevokeSees, ChangePassword,
                StorePassword, Fail, Refresh, Logout, RevokeRow
  <1>8. CASE Tick
    BY <1>1, <1>8 DEF Tick
  <1> QED
    BY <1>1, <1>2, <1>3, <1>4, <1>5, <1>6, <1>7, <1>8 DEF Next

\* A session that was revoked, or whose last token was replayed, is over for
\* good: no rotation that was on its way brings it back.
THEOREM OverIsOverHolds == Spec => OverIsOver
  <1>1. SessionsIInv /\ [Next]_vars
          => [\A f \in Token : Over(f) => \A t \in Family(f)' : ~Live(t)']_vars
    <2> SUFFICES ASSUME SessionsIInv, [Next]_vars, NEW f \in Token, Over(f),
                        NEW t \in Token, Stored(t)', token'[t].family = f
                 PROVE  ~Live(t)'
      BY DEF Family, Stored
    <2> QED
      BY OverStaysOver
  <1> QED
    BY SessionsInvariant, <1>1, PTL DEF Spec, OverIsOver

----------------------------------------------------------------------------
(* The tab                                                                 *)

\* Tokens that are carried were issued.
Issued(t) == t \in AccessToken /\ owner[t] \in User

\* What a call under way carries: a login that was answered and the question who
\* it is have a token, a query may have been sent without one, but is not answered
\* with rows then.
Carries(c) ==
    /\ c.kind = "login" => c.who \in User
    /\ c.kind = "login" /\ c.answer = "ok" => Issued(c.as)
    /\ c.kind = "me" => Issued(c.as)
    /\ c.kind = "query" => c.as = NoAccess \/ Issued(c.as)
    /\ c.kind = "query" /\ c.answer = "ok" => Issued(c.as)

TabType ==
    /\ ClientTypes
    /\ accessToken # NoAccess => Issued(accessToken)
    /\ \A s \in Slot : call[s] # NoCall => Carries(call[s])

\* A tab in which no two sign-ins overlapped is one person's: nobody's while a
\* sign-in is under way, and the token is of that sign-in, if a late 401 has not
\* taken it; and afterwards of the user shown, as are the queries that still
\* count.
OnePersons ==
    /\ \A s, z \in SigningIn : s = z
    /\ SigningIn # {} => user = NoUser
    /\ \A s \in Slot : call[s].kind = "me" => accessToken \in {NoAccess, call[s].as}
    /\ user # NoUser /\ accessToken # NoAccess => owner[accessToken] = user
    /\ user = NoUser => rows \notin User /\ Querying = {}
    /\ \A s \in Querying : call[s].as # NoAccess => owner[call[s].as] = user
    /\ rows \in User => rows = user

TabInv == TabType /\ (~overlapped => OnePersons)

\* A call that is under way is typed.
LEMMA CallTyped ==
    ASSUME ClientTypes, NEW s \in Slot, call[s].kind # "none" 
    PROVE  call[s] \in CallType /\ call[s] # NoCall
  BY DEF ClientTypes, NoCall

LEMMA SentTyped ==
    ASSUME NEW kind \in Kind, NEW who \in User \cup {NoUser}, NEW as \in AccessToken \cup {NoAccess}
    PROVE  /\ Sent(kind, who, as) \in CallType /\ Sent(kind, who, as) # NoCall
           /\ Sent(kind, who, as).kind = kind /\ Sent(kind, who, as).who = who
           /\ Sent(kind, who, as).as = as /\ Sent(kind, who, as).answer = "none"
  <1>1. (kind = "query") \in BOOLEAN /\ 0 \in 0..MaxRetries
    BY DEF MaxRetries
  <1>2. "none" \in Outcome \cup {"none", "delay"}
    OBVIOUS
  <1>3. Sent(kind, who, as) \in CallType
    BY <1>1, <1>2 DEF Sent, CallType
  <1>4. Sent(kind, who, as) # NoCall
    BY DEF Sent, NoCall
  <1> QED
    BY <1>3, <1>4 DEF Sent

LEMMA TabStart ==
    ASSUME ClientInit
    PROVE  TabInv
  BY WebConstants
  DEF ClientInit, TabInv, TabType, OnePersons, ClientTypes, SigningIn, Querying, NoCall

\* A person submits the form: of a sign-in under way, that is an overlap.
LEMMA SignInStep ==
    ASSUME TabInv, NEW s \in Slot, NEW u \in User, SignIn(s, u)
    PROVE  TabInv'
  <1>0. /\ call \in [Slot -> CallType \cup {NoCall}] /\ ClientTypes
        /\ UNCHANGED <<accessToken, user, rows, visited, owner, dead>>
        /\ user = NoUser /\ call[s] = NoCall /\ NoCall.kind = "none"
    BY DEF TabInv, TabType, ClientTypes, SignIn, NoCall
  <1>1. PICK c : /\ c = Sent("login", u, NoAccess) /\ c \in CallType /\ c # NoCall
                 /\ c.kind = "login" /\ c.who = u /\ c.as = NoAccess /\ c.answer = "none"
    BY SentTyped DEF Kind
  <1>2. call' = [call EXCEPT ![s] = c] /\ call'[s] = c /\ \A z \in Slot \ {s} : call'[z] = call[z]
    BY <1>0, <1>1 DEF SignIn
  <1>3. ClientTypes'
    BY <1>0, <1>1, <1>2 DEF ClientTypes, SignIn
  <1>4. TabType'
    BY <1>0, <1>1, <1>2, <1>3 DEF TabInv, TabType, Carries, Issued
  <1>5. ~overlapped' => OnePersons'
    <2> SUFFICES ASSUME ~overlapped' PROVE OnePersons'
      OBVIOUS
    <2>1. OnePersons /\ SigningIn = {}
      BY DEF SignIn, TabInv
    <2>2. SigningIn' = {s}
      BY <1>0, <1>1, <1>2, <2>1 DEF SigningIn
    <2>3. Querying' = Querying
      BY <1>0, <1>1, <1>2 DEF Querying
    <2> QED
      BY <1>0, <1>1, <1>2, <2>1, <2>2, <2>3 DEF OnePersons, SigningIn, Querying
  <1> QED
    BY <1>4, <1>5 DEF TabInv

\* A query is sent, or sent again: with the token of now, which is the user's.
LEMMA QueryStep ==
    ASSUME TabInv, NEW s \in Slot, Fetch(s) \/ Retry(s)
    PROVE  TabInv'
  <1>0. /\ call \in [Slot -> CallType \cup {NoCall}] /\ ClientTypes
        /\ UNCHANGED <<accessToken, user, rows, busy, visited, owner, dead, overlapped>>
        /\ accessToken \in AccessToken \cup {NoAccess} /\ NoCall.kind = "none"
    BY DEF TabInv, TabType, ClientTypes, Fetch, Retry, NoCall, client
  <1>1. PICK c : /\ c \in CallType /\ c # NoCall /\ call' = [call EXCEPT ![s] = c]
                 /\ c.kind = "query" /\ c.as = accessToken /\ c.answer = "none" /\ c.kept
                 /\ \/ call[s] = NoCall /\ user # NoUser
                    \/ call[s].kind = "query" /\ call[s].kept
    <2>1. CASE Fetch(s)
      <3>1. PICK c : c = Sent("query", NoUser, accessToken)
        OBVIOUS
      <3>2. /\ c \in CallType /\ c # NoCall /\ c.kind = "query" /\ c.as = accessToken
            /\ c.answer = "none"
        <4>1. "query" \in Kind /\ NoUser \in User \cup {NoUser}
          BY DEF Kind
        <4> QED
          BY <1>0, <3>1, <4>1, SentTyped
      <3>3. c.kept
        BY <3>1 DEF Sent
      <3> QED
        BY <2>1, <3>1, <3>2, <3>3 DEF Fetch
    <2>2. CASE Retry(s)
      <3>1. PICK b : b = call[s] /\ b \in CallType
        BY <1>0, <2>2, CallTyped DEF Retry
      <3>2. PICK c : c = [b EXCEPT !.as = accessToken, !.answer = "none"]
        OBVIOUS
      <3>3. /\ c \in CallType /\ c.kind = "query" /\ c.as = accessToken /\ c.answer = "none" /\ c.kept
        BY <1>0, <2>2, <3>1, <3>2 DEF Retry, CallType
      <3>4. c # NoCall /\ call' = [call EXCEPT ![s] = c]
        BY <1>0, <2>2, <3>1, <3>2, <3>3 DEF Retry
      <3> QED
        BY <2>2, <3>3, <3>4 DEF Retry
    <2> QED
      BY <2>1, <2>2
  <1>2. call'[s] = c /\ \A z \in Slot \ {s} : call'[z] = call[z]
    BY <1>0, <1>1
  <1>3. ClientTypes'
    BY <1>0, <1>1 DEF ClientTypes
  <1>4. TabType'
    BY <1>0, <1>1, <1>2, <1>3 DEF TabInv, TabType, Carries, Issued
  <1>5. ASSUME OnePersons PROVE OnePersons'
    <2>1. SigningIn' = SigningIn
      BY <1>0, <1>1, <1>2 DEF SigningIn
    <2>2. Querying' = Querying \cup {s} /\ user # NoUser
      BY <1>0, <1>1, <1>2, <1>5 DEF Querying, OnePersons
    <2> QED
      BY <1>0, <1>1, <1>2, <1>5, <2>1, <2>2 DEF OnePersons
  <1> QED
    BY <1>0, <1>4, <1>5 DEF TabInv

\* A call is over, or waits for its next try, and leaves nothing behind.
LEMMA EndStep ==
    ASSUME TabInv, NEW s \in Slot, SignInFails(s) \/ QueryFails(s) \/ GiveUp(s)
    PROVE  TabInv'
  <1>0. /\ call \in [Slot -> CallType \cup {NoCall}] /\ ClientTypes
        /\ UNCHANGED <<accessToken, user, visited, owner, dead, overlapped>>
        /\ call[s].kind # "none" /\ NoCall.kind = "none"
        /\ rows' \in {rows, Failed} /\ busy' \in {busy, NoSlot} /\ Failed \notin User
    BY WebConstants
    DEF TabInv, TabType, ClientTypes, SignInFails, QueryFails, GiveUp, client, NoCall
  <1>1. PICK b : b = call[s] /\ b \in CallType /\ Carries(b)
    BY <1>0, CallTyped DEF TabInv, TabType
  <1>2. PICK c : /\ call' = [call EXCEPT ![s] = c]
                 /\ \/ c = NoCall
                    \/ /\ c \in CallType /\ c.kind = "query" /\ b.kind = "query"
                       /\ c.as = b.as /\ c.answer = "delay" /\ c.kept = b.kept
    <2>1. CASE call' = Done(s)
      BY <2>1 DEF Done
    <2>2. CASE /\ b.kind = "query" /\ b.tries < MaxRetries
               /\ call' = [call EXCEPT ![s].answer = "delay", ![s].tries = call[s].tries + 1]
      <3>1. PICK c : c = [b EXCEPT !.answer = "delay", !.tries = b.tries + 1]
        OBVIOUS
      <3>2. b.tries + 1 \in 0..MaxRetries
        BY <1>1, <2>2 DEF CallType, MaxRetries
      <3>3. c \in CallType /\ c.kind = "query" /\ c.as = b.as /\ c.answer = "delay" /\ c.kept = b.kept
        BY <1>1, <2>2, <3>1, <3>2 DEF CallType
      <3>4. call' = [call EXCEPT ![s] = c]
        BY <1>0, <1>1, <2>2, <3>1
      <3> QED
        BY <2>2, <3>3, <3>4
    <2> QED
      BY <1>1, <2>1, <2>2 DEF SignInFails, QueryFails, GiveUp, ShouldRetry
  <1>3. call'[s] = c /\ \A z \in Slot \ {s} : call'[z] = call[z]
    BY <1>0, <1>2
  <1>4. ClientTypes'
    BY <1>0, <1>2 DEF ClientTypes
  <1>5. TabType'
    BY <1>0, <1>1, <1>2, <1>3, <1>4 DEF TabInv, TabType, Carries, Issued
  <1>6. ASSUME OnePersons PROVE OnePersons'
    <2>1. SigningIn' \subseteq SigningIn
      BY <1>0, <1>2, <1>3 DEF SigningIn
    <2>2. Querying' \subseteq Querying /\ \A z \in Querying' : call'[z].as = call[z].as
      BY <1>0, <1>1, <1>2, <1>3 DEF Querying
    <2>3. \A z \in Slot : call'[z].kind = "me" => call'[z] = call[z]
      BY <1>0, <1>2, <1>3
    <2> QED
      BY <1>0, <1>6, <2>1, <2>2, <2>3 DEF OnePersons
  <1> QED
    BY <1>0, <1>5, <1>6 DEF TabInv

\* The server decides.  A login gives the person a token nobody had; a call that is
\* answered with rows, or with a name, carries a token.
LEMMA AnswerStep ==
    ASSUME TabInv, NEW s \in Slot, Answer(s)
    PROVE  TabInv'
  <1>0. /\ call \in [Slot -> CallType \cup {NoCall}] /\ ClientTypes
        /\ owner \in [AccessToken -> User \cup {NoUser}]
        /\ UNCHANGED <<accessToken, user, rows, busy, visited, dead, overlapped>>
        /\ call[s].kind # "none" /\ NoCall.kind = "none" /\ NoUser \notin User
    BY WebConstants DEF TabInv, TabType, ClientTypes, Answer, client, NoCall
  <1>1. PICK b : b = call[s] /\ b \in CallType /\ Carries(b)
    BY <1>0, CallTyped DEF TabInv, TabType
  <1>2. PICK c : /\ call' = [call EXCEPT ![s] = c] /\ c \in CallType
                 /\ c.kind = b.kind /\ c.who = b.who /\ c.kept = b.kept
                 /\ c.as = b.as \/ c.kind = "login"
                 /\ \/ c.answer # "ok" /\ UNCHANGED owner
                    \/ /\ c.kind = "login" /\ owner' = [owner EXCEPT ![c.as] = c.who]
                       /\ c.as \in AccessToken /\ owner[c.as] = NoUser
                    \/ c.kind # "login" /\ c.as \in AccessToken /\ UNCHANGED owner
    <2>1. ASSUME NEW a \in Outcome, call' = [call EXCEPT ![s].answer = a], UNCHANGED owner,
                 a = "ok" => b.kind # "login" /\ b.as \in AccessToken
          PROVE  /\ call' = [call EXCEPT ![s] = [b EXCEPT !.answer = a]]
                 /\ [b EXCEPT !.answer = a] \in CallType
                 /\ [b EXCEPT !.answer = a].answer = a
      BY <1>0, <1>1, <2>1 DEF CallType
    <2>2. CASE \E a \in Outcome : /\ call' = [call EXCEPT ![s].answer = a]
                                  /\ UNCHANGED owner
                                  /\ a = "ok" => b.kind # "login" /\ b.as \in AccessToken
      <3>1. PICK a \in Outcome : /\ call' = [call EXCEPT ![s].answer = a]
                                 /\ UNCHANGED owner
                                 /\ a = "ok" => b.kind # "login" /\ b.as \in AccessToken
        BY <2>2
      <3>2. PICK c : c = [b EXCEPT !.answer = a]
        OBVIOUS
      <3>3. call' = [call EXCEPT ![s] = c] /\ c \in CallType /\ c.answer = a
        BY <2>1, <3>1, <3>2
      <3>4. c.kind = b.kind /\ c.who = b.who /\ c.kept = b.kept /\ c.as = b.as
        BY <1>1, <3>2 DEF CallType
      <3> QED
        BY <3>1, <3>3, <3>4
    <2>3. CASE /\ b.kind = "login"
               /\ \E t \in AccessToken :
                     /\ \A x \in AccessToken : owner[x] = NoUser <=> x >= t
                     /\ owner' = [owner EXCEPT ![t] = call[s].who]
                     /\ call' = [call EXCEPT ![s].answer = "ok", ![s].as = t]
      <3>1. PICK t \in AccessToken :
                     /\ \A x \in AccessToken : owner[x] = NoUser <=> x >= t
                     /\ owner' = [owner EXCEPT ![t] = b.who]
                     /\ call' = [call EXCEPT ![s].answer = "ok", ![s].as = t]
        BY <1>1, <2>3
      <3>2. owner[t] = NoUser
        BY <3>1, WebConstants DEF AccessToken
      <3>3. PICK c : c = [b EXCEPT !.answer = "ok", !.as = t]
        OBVIOUS
      <3>4. c \in CallType /\ c.as = t
        BY <1>1, <3>3 DEF CallType, Outcome
      <3>5. c.kind = b.kind /\ c.who = b.who /\ c.kept = b.kept
        BY <1>1, <3>3 DEF CallType
      <3>6. call' = [call EXCEPT ![s] = c]
        BY <1>0, <1>1, <3>1, <3>3
      <3> QED
        BY <2>3, <3>1, <3>2, <3>4, <3>5, <3>6
    <2>4. CASE /\ b.kind # "login" /\ UNCHANGED owner
               /\ call' = [call EXCEPT ![s].answer = IF Valid(call[s].as) THEN "ok"
                                                     ELSE "unauthorized"]
      <3>1. Valid(b.as) => b.as \in AccessToken
        BY <1>1 DEF Valid, CallType
      <3> QED
        BY <1>1, <2>2, <2>4, <3>1 DEF Outcome
    <2> QED
      BY <1>1, <2>2, <2>3, <2>4 DEF Answer, Outcome
  <1>3. call'[s] = c /\ \A z \in Slot \ {s} : call'[z] = call[z]
    BY <1>0, <1>2
  <1>4. c # NoCall /\ (c.kind = "login" => c.who \in User)
    BY <1>0, <1>1, <1>2 DEF Carries
  <1>5. owner' \in [AccessToken -> User \cup {NoUser}] /\ \A t \in AccessToken :
           owner[t] \in User => owner'[t] = owner[t]
    BY <1>0, <1>2, <1>4
  <1>6. ClientTypes'
    BY <1>0, <1>2, <1>5 DEF ClientTypes
  <1>7. \A t : Issued(t) => Issued(t)' /\ owner'[t] = owner[t]
    BY <1>5 DEF Issued
  <1>8. Carries(c)'
    <2>1. CASE c.answer # "ok" \/ c.kind # "login"
      <3>1. c.as = b.as \/ c.kind = "login"
        BY <1>2
      <3>2. c.kind = "query" /\ c.answer = "ok" => c.as \in AccessToken
        BY <1>2
      <3>3. NoAccess \notin AccessToken
        BY DEF NoAccess, AccessToken
      <3> QED
        BY <1>1, <1>2, <1>4, <1>7, <2>1, <3>1, <3>2, <3>3 DEF Carries
    <2>2. CASE c.answer = "ok" /\ c.kind = "login"
      <3>1. Issued(c.as)'
        BY <1>0, <1>2, <1>4, <2>2 DEF Issued
      <3> QED
        BY <1>4, <2>2, <3>1 DEF Carries
    <2> QED
      BY <2>1, <2>2
  <1>9. TabType'
    <2>1. \A z \in Slot \ {s} : call'[z] # NoCall => Carries(call[z])'
      BY <1>3, <1>7 DEF TabInv, TabType, Carries
    <2> QED
      BY <1>0, <1>3, <1>6, <1>7, <1>8, <2>1 DEF TabInv, TabType
  <1>10. ASSUME OnePersons PROVE OnePersons'
    <2>1. SigningIn' = SigningIn
      BY <1>0, <1>1, <1>2, <1>3 DEF SigningIn
    <2>2. Querying' = Querying /\ \A z \in Querying : call'[z].as = call[z].as
      BY <1>0, <1>1, <1>2, <1>3 DEF Querying
    <2>3. \A z \in Slot : call'[z].kind = "me" => call[z].kind = "me" /\ call'[z].as = call[z].as
      BY <1>0, <1>1, <1>2, <1>3
    <2>4. accessToken # NoAccess => Issued(accessToken)
      BY DEF TabInv, TabType
    <2>5. \A z \in Querying : call[z].as # NoAccess => Issued(call[z].as)
      BY <1>0 DEF TabInv, TabType, Carries, Querying
    <2> QED
      BY <1>0, <1>7, <1>10, <2>1, <2>2, <2>3, <2>4, <2>5 DEF OnePersons
  <1> QED
    BY <1>0, <1>9, <1>10 DEF TabInv

\* A sign-in goes on to ask whose token it has, and its token is the tab's.
LEMMA SignedInStep ==
    ASSUME TabInv, NEW s \in Slot, SignedIn(s)
    PROVE  TabInv'
  <1>0. /\ call \in [Slot -> CallType \cup {NoCall}] /\ ClientTypes
        /\ UNCHANGED <<user, rows, busy, visited, owner, dead, overlapped>>
        /\ call[s].kind = "login" /\ call[s].answer = "ok" /\ NoCall.kind = "none"
    BY DEF TabInv, TabType, ClientTypes, SignedIn, NoCall
  <1>1. PICK t : /\ t = call[s].as /\ t \in AccessToken /\ Issued(t)
                 /\ accessToken' = t
    BY <1>0 DEF TabInv, TabType, Carries, SignedIn, Issued
  <1>2. PICK c : c = Sent("me", NoUser, t)
    OBVIOUS
  <1>3. /\ c \in CallType /\ c # NoCall /\ c.kind = "me" /\ c.as = t /\ c.answer = "none"
    <2>1. "me" \in Kind /\ NoUser \in User \cup {NoUser} /\ t \in AccessToken \cup {NoAccess}
      BY <1>1 DEF Kind
    <2> QED
      BY <1>2, <2>1, SentTyped
  <1>4. call' = [call EXCEPT ![s] = c] /\ call'[s] = c /\ \A z \in Slot \ {s} : call'[z] = call[z]
    BY <1>0, <1>1, <1>2 DEF SignedIn
  <1>5. ClientTypes'
    BY <1>0, <1>1, <1>3, <1>4 DEF ClientTypes
  <1>6. TabType'
    BY <1>0, <1>1, <1>3, <1>4, <1>5 DEF TabInv, TabType, Carries, Issued
  <1>7. ASSUME OnePersons PROVE OnePersons'
    <2>1. SigningIn' = SigningIn /\ SigningIn = {s}
      BY <1>0, <1>3, <1>4, <1>7 DEF SigningIn, OnePersons
    <2>2. Querying' = Querying
      BY <1>0, <1>3, <1>4 DEF Querying
    <2>3. \A z \in Slot : call'[z].kind = "me" => z = s
      BY <2>1 DEF SigningIn
    <2>4. user = NoUser /\ Querying = {}
      BY <1>7, <2>1 DEF OnePersons
    <2> QED
      BY <1>0, <1>1, <1>3, <1>4, <1>7, <2>1, <2>2, <2>3, <2>4 DEF OnePersons
  <1> QED
    BY <1>0, <1>6, <1>7 DEF TabInv

\* The name arrives: it is that of the person whose token the tab has, if any.
LEMMA IdentifiedStep ==
    ASSUME TabInv, NEW s \in Slot, Identified(s)
    PROVE  TabInv'
  <1>0. /\ call \in [Slot -> CallType \cup {NoCall}] /\ ClientTypes
        /\ UNCHANGED <<accessToken, rows, owner, dead, overlapped>>
        /\ call[s].kind = "me" /\ NoCall.kind = "none" /\ NoUser \notin User
        /\ visited' = TRUE /\ busy' = NoSlot
    BY WebConstants DEF TabInv, TabType, ClientTypes, Identified, NoCall
  <1>1. PICK t : t = call[s].as /\ Issued(t) /\ user' = owner[t] /\ user' \in User
    BY <1>0 DEF TabInv, TabType, Carries, Identified, Issued
  <1>2. /\ call' = [call EXCEPT ![s] = NoCall] /\ call'[s] = NoCall
        /\ \A z \in Slot \ {s} : call'[z] = call[z]
    BY <1>0 DEF Identified, Done
  <1>3. ClientTypes'
    BY <1>0, <1>1, <1>2 DEF ClientTypes
  <1>4. TabType'
    BY <1>0, <1>2, <1>3 DEF TabInv, TabType, Carries, Issued
  <1>5. ASSUME OnePersons PROVE OnePersons'
    <2>1. SigningIn = {s}
      BY <1>0, <1>5 DEF SigningIn, OnePersons
    <2>2. SigningIn' = {}
      BY <1>0, <1>2, <2>1 DEF SigningIn
    <2>3. Querying = {} /\ rows \notin User
      BY <1>5, <2>1 DEF OnePersons
    <2>4. Querying' = {}
      BY <1>0, <1>2, <2>3 DEF Querying
    <2>5. \A z \in Slot : call'[z].kind # "me"
      BY <2>2 DEF SigningIn
    <2>6. accessToken \in {NoAccess, t}
      BY <1>0, <1>1, <1>5 DEF OnePersons
    <2> QED
      BY <1>0, <1>1, <2>2, <2>3, <2>4, <2>5, <2>6 DEF OnePersons
  <1> QED
    BY <1>0, <1>4, <1>5 DEF TabInv

\* Rows arrive: they count if the query does, and then they are the user's.
LEMMA GetRowsStep ==
    ASSUME TabInv, NEW s \in Slot, GetRows(s)
    PROVE  TabInv'
  <1>0. /\ call \in [Slot -> CallType \cup {NoCall}] /\ ClientTypes
        /\ UNCHANGED <<accessToken, user, busy, visited, owner, dead, overlapped>>
        /\ call[s].kind = "query" /\ call[s].answer = "ok" /\ NoCall.kind = "none"
    BY DEF TabInv, TabType, ClientTypes, GetRows, NoCall
  <1>1. PICK t : /\ t = call[s].as /\ Issued(t) /\ t # NoAccess
                 /\ rows' = rows \/ (rows' = owner[t] /\ s \in Querying)
    <2>1. Issued(call[s].as)
      BY <1>0 DEF TabInv, TabType, Carries
    <2>2. NoAccess \notin AccessToken
      BY DEF NoAccess, AccessToken
    <2>3. CASE call[s].kept
      BY <1>0, <2>1, <2>2, <2>3 DEF GetRows, Querying, Issued
    <2>4. CASE ~call[s].kept
      BY <1>0, <2>1, <2>2, <2>4 DEF GetRows, Issued
    <2> QED
      BY <2>3, <2>4
  <1>2. /\ call' = [call EXCEPT ![s] = NoCall] /\ call'[s] = NoCall
        /\ \A z \in Slot \ {s} : call'[z] = call[z]
    BY <1>0 DEF GetRows, Done
  <1>3. ClientTypes'
    <2>1. rows' \in User \cup {NoRows, Failed}
      BY <1>0, <1>1 DEF ClientTypes, Issued
    <2> QED
      BY <1>0, <1>2, <2>1 DEF ClientTypes
  <1>4. TabType'
    BY <1>0, <1>2, <1>3 DEF TabInv, TabType, Carries, Issued
  <1>5. ASSUME OnePersons PROVE OnePersons'
    <2>1. SigningIn' = SigningIn
      BY <1>0, <1>2 DEF SigningIn
    <2>2. Querying' \subseteq Querying /\ \A z \in Querying' : call'[z] = call[z]
      BY <1>0, <1>2 DEF Querying
    <2>3. \A z \in Slot : call'[z].kind = "me" => call'[z] = call[z]
      BY <1>0, <1>2
    <2>4. rows' = rows \/ (rows' = user /\ user # NoUser)
      BY <1>1, <1>5 DEF OnePersons
    <2> QED
      BY <1>0, <1>5, <2>1, <2>2, <2>3, <2>4 DEF OnePersons
  <1> QED
    BY <1>0, <1>4, <1>5 DEF TabInv

\* What clear() of the cache makes of a call.
LEMMA DroppedCall ==
    ASSUME NEW c \in CallType \cup {NoCall}
    PROVE  /\ Dropped(c) \in CallType \cup {NoCall}
           /\ Dropped(c) = NoCall <=> c = NoCall
           /\ Dropped(c).kind = c.kind
           /\ c # NoCall => /\ Dropped(c).as = c.as /\ Dropped(c).answer = c.answer
                            /\ Dropped(c).who = c.who
           /\ c.kind = "query" => ~Dropped(c).kept
  <1>1. CASE c = NoCall
    BY <1>1 DEF Dropped, NoCall
  <1>2. CASE c \in CallType /\ c.kind = "query"
    <2>1. PICK d : d = [c EXCEPT !.kept = FALSE]
      OBVIOUS
    <2>2. Dropped(c) = d
      BY <1>2, <2>1 DEF Dropped
    <2>3. /\ d \in CallType /\ d.kind = c.kind /\ d.as = c.as /\ d.answer = c.answer
          /\ d.who = c.who /\ ~d.kept
      BY <1>2, <2>1 DEF CallType
    <2>4. NoCall.kind = "none"
      BY DEF NoCall
    <2> QED
      BY <1>2, <2>2, <2>3, <2>4
  <1>3. CASE c \in CallType /\ c.kind # "query"
    BY <1>3 DEF Dropped
  <1> QED
    BY <1>1, <1>2, <1>3

\* The tab is nobody's again, when the user signs out and when a 401 comes, for
\* whichever session.
LEMMA ResetStep ==
    ASSUME TabInv, UNCHANGED <<visited, owner, dead, overlapped>>, busy' \in Slot \cup {NoSlot},
           NEW calls \in [Slot -> CallType \cup {NoCall}], Reset(calls),
           \A s \in Slot : calls[s] = call[s] \/ calls[s] = NoCall
    PROVE  TabInv'
  <1>0. /\ call \in [Slot -> CallType \cup {NoCall}] /\ ClientTypes /\ NoCall.kind = "none"
        /\ accessToken' = NoAccess /\ user' = NoUser /\ rows' = NoRows /\ rows' \notin User
        /\ call' = [s \in Slot |-> Dropped(calls[s])] /\ NoUser \notin User
    BY WebConstants DEF TabInv, TabType, ClientTypes, Reset, NoCall
  <1>1. \A s \in Slot : /\ call'[s] \in CallType \cup {NoCall}
                        /\ call'[s] # NoCall =>
                              /\ call[s] # NoCall /\ call'[s].kind = call[s].kind
                              /\ call'[s].as = call[s].as /\ call'[s].answer = call[s].answer
                              /\ call'[s].who = call[s].who
                        /\ call'[s].kind = "query" => ~call'[s].kept
    BY <1>0, DroppedCall
  <1>2. ClientTypes'
    BY <1>0, <1>1 DEF ClientTypes
  <1>3. TabType'
    BY <1>0, <1>1, <1>2 DEF TabInv, TabType, Carries, Issued
  <1>4. ASSUME OnePersons PROVE OnePersons'
    <2>1. SigningIn' \subseteq SigningIn
      BY <1>0, <1>1 DEF SigningIn
    <2>2. Querying' = {}
      BY <1>1 DEF Querying
    <2> QED
      BY <1>0, <1>4, <2>1, <2>2 DEF OnePersons
  <1> QED
    BY <1>3, <1>4 DEF TabInv

LEMMA ResetSteps ==
    ASSUME TabInv, SignOut \/ \E s \in Slot : Unauthorized(s)
    PROVE  TabInv'
  <1>0. call \in [Slot -> CallType \cup {NoCall}] /\ busy \in Slot \cup {NoSlot}
    BY DEF TabInv, TabType, ClientTypes
  <1>1. CASE SignOut
    BY <1>0, <1>1, ResetStep DEF SignOut
  <1>2. ASSUME NEW s \in Slot, Unauthorized(s) PROVE TabInv'
    <2>1. PICK calls : calls = Done(s)
      OBVIOUS
    <2>2. /\ calls \in [Slot -> CallType \cup {NoCall}]
          /\ \A z \in Slot : calls[z] = call[z] \/ calls[z] = NoCall
      BY <1>0, <2>1 DEF Done
    <2>3. Reset(calls) /\ UNCHANGED <<visited, owner, dead, overlapped>>
      BY <1>2, <2>1 DEF Unauthorized
    <2>4. busy' \in Slot \cup {NoSlot}
      BY <1>0, <1>2 DEF Unauthorized
    <2> QED
      BY <2>2, <2>3, <2>4, ResetStep
  <1> QED
    BY <1>1, <1>2

\* The page is loaded again, another form is mounted, or a token expires.
LEMMA PageSteps ==
    ASSUME TabInv, Reload \/ Back \/ \E t \in AccessToken : Expire(t)
    PROVE  TabInv'
  <1>1. CASE Reload
    <2>1. /\ \A s \in Slot : call'[s] = NoCall
          /\ accessToken' = NoAccess /\ user' = NoUser /\ rows' = NoRows /\ rows' \notin User
          /\ UNCHANGED <<owner, dead, visited, overlapped>>
      BY <1>1, WebConstants DEF Reload
    <2>2. SigningIn' = {} /\ Querying' = {} /\ \A s \in Slot : call'[s].kind # "me"
      BY <2>1 DEF SigningIn, Querying, NoCall
    <2>3. ClientTypes'
      BY <1>1 DEF TabInv, TabType, ClientTypes, Reload
    <2> QED
      BY <2>1, <2>2, <2>3 DEF TabInv, TabType, OnePersons
  <1>2. CASE Back
    <2>1. ClientTypes'
      BY <1>2 DEF TabInv, TabType, ClientTypes, Back
    <2> QED
      BY <1>2, <2>1
      DEF Back, TabInv, TabType, OnePersons, SigningIn, Querying, Carries, Issued
  <1>3. ASSUME NEW t \in AccessToken, Expire(t) PROVE TabInv'
    <2>1. ClientTypes' /\ UNCHANGED <<accessToken, user, rows, call, owner, overlapped>>
      BY <1>3 DEF TabInv, TabType, ClientTypes, Expire, client
    <2> QED
      BY <2>1 DEF TabInv, TabType, OnePersons, SigningIn, Querying, Carries, Issued
  <1> QED
    BY <1>1, <1>2, <1>3

LEMMA TabStep ==
    ASSUME TabInv, [ClientNext]_tab
    PROVE  TabInv'
  <1>1. CASE \E s \in Slot : \/ \E u \in User : SignIn(s, u)
                             \/ Fetch(s) \/ Retry(s) \/ Answer(s)
    BY <1>1, SignInStep, QueryStep, AnswerStep
  <1>2. ASSUME NEW s \in Slot, Arrive(s) PROVE TabInv'
    BY <1>2, SignedInStep, IdentifiedStep, EndStep, GetRowsStep, ResetSteps DEF Arrive
  <1>3. CASE SignOut
    BY <1>3, ResetSteps
  <1>4. CASE Reload \/ Back \/ \E t \in AccessToken : Expire(t)
    BY <1>4, PageSteps
  <1>5. CASE UNCHANGED tab
    <2>1. UNCHANGED <<accessToken, user, rows, busy, visited, call, owner, dead, overlapped>>
      BY <1>5 DEF tab, client
    <2> QED
      BY <2>1
      DEF TabInv, TabType, ClientTypes, OnePersons, SigningIn, Querying, Carries, Issued
  <1> QED
    BY <1>1, <1>2, <1>3, <1>4, <1>5 DEF ClientNext

\* Unless two sign-ins overlapped, a tab never shows one person's name with the
\* token or the rows of another, whatever late answers arrive (AuthProvider.tsx).
THEOREM WebInvHolds == ClientSpec => []WebInv
  <1>1. TabInv => WebInv
    BY DEF TabInv, TabType, OnePersons, WebInv, NoMixing
  <1> QED
    BY <1>1, TabStart, TabStep, PTL DEF ClientSpec

=============================================================================
