---------------------------- MODULE TokenService ----------------------------
(***************************************************************************)
(* Sessions, refresh tokens and the access they give: TokenService,        *)
(* SessionService, the logout of AuthService, and the two database reads   *)
(* with which JwtStrategy.validate admits a request.                       *)
(*                                                                         *)
(* Every HTTP request is a process.  One action is one database statement  *)
(* or one transaction; between two of them any step of any other request   *)
(* may happen.  Requests[r].pc names the statement that comes next, the    *)
(* other fields hold what the handler has read so far.                     *)
(*                                                                         *)
(* The tenant is left out: each user belongs to one tenant, and every      *)
(* where-clause below that names a tenant also names a user or a row of    *)
(* that user.                                                              *)
(***************************************************************************)
EXTENDS Naturals, FiniteSets

CONSTANTS
  Users,        \* rows of the users table
  Sessions,     \* ids a session row may get
  Tokens,       \* refresh tokens that may be generated
  Requests,     \* HTTP requests in flight at the same time
  ShortTtl,     \* REFRESH_TOKEN_TTL_DAYS
  LongTtl,      \* REFRESH_TOKEN_REMEMBER_ME_TTL_DAYS
  MaxNow,       \* bound: the clock stops here
  None          \* null

SessionRow == [user: Users, rememberMe: BOOLEAN, expiresAt: Nat, revoked: BOOLEAN]

TokenRow == [session: Sessions, expiresAt: Nat, revoked: BOOLEAN,
             replacedBy: Tokens \cup {None}]

ASSUME TtlAssumption == ShortTtl \in Nat /\ LongTtl \in Nat /\ MaxNow \in Nat

ASSUME NoneAssumption ==
  /\ None \notin Users \cup Sessions \cup Tokens
  /\ None \notin SessionRow
  /\ None \notin TokenRow

VARIABLES
  session,      \* sessions table: id -> row, None where there is no row
  token,        \* refresh_tokens table
  active,       \* users.status = ACTIVE
  now,          \* the clock, in days
  req,          \* the requests being handled
  openAtStart,  \* history: the sessions that were open when a request began
  parent,       \* history: the token a token was exchanged for, None for a first one
  overlapped    \* history: sessions in which two exchanges of one token overlapped

db == <<session, token, active>>
history == <<openAtStart, parent, overlapped>>
vars == <<session, token, active, now, req, openAtStart, parent, overlapped>>

-----------------------------------------------------------------------------
(* Rows *)

SessionExists(s) == session[s] # None
TokenExists(t) == token[t] # None

TtlDays(rememberMe) == IF rememberMe THEN LongTtl ELSE ShortTtl

\* Neither revoked nor expired: what rotate and JwtStrategy ask of a session.
SessionOpen(s) ==
  /\ session[s] # None
  /\ ~session[s].revoked
  /\ session[s].expiresAt > now

OpenSessions == {s \in Sessions : SessionOpen(s)}

LiveToken(t) == token[t] # None /\ ~token[t].revoked

LiveTokensOf(s) == {t \in Tokens : LiveToken(t) /\ token[t].session = s}

-----------------------------------------------------------------------------
(* Requests *)

Steps == {"idle",
          "createSession", "mintFirst",                    \* issueSession
          "lookup", "mintNext",                            \* rotate
          "loadUser", "loadSession", "authorised",         \* JwtStrategy.validate
          "endSessions",                                   \* revokeSession(s)
          "lookupToken", "revokeToken",                    \* revokeRefreshToken
          "findLive",                                      \* revokeAllUserSessions
          "done"}

Operations == {"none", "login", "refresh", "access", "logout", "revokeOwn", "revokeAll"}

Request == [pc: Steps, op: Operations, user: Users \cup {None},
            sid: Sessions \cup {None}, tok: Tokens \cup {None}, ids: SUBSET Sessions]

Idle == [pc |-> "idle", op |-> "none", user |-> None,
         sid |-> None, tok |-> None, ids |-> {}]

TypeOK ==
  /\ session \in [Sessions -> SessionRow \cup {None}]
  /\ token \in [Tokens -> TokenRow \cup {None}]
  /\ active \in [Users -> BOOLEAN]
  /\ now \in Nat
  /\ req \in [Requests -> Request]
  /\ openAtStart \in [Requests -> SUBSET Sessions]
  /\ parent \in [Tokens -> Tokens \cup {None}]
  /\ overlapped \subseteq Sessions

Init ==
  /\ session = [s \in Sessions |-> None]
  /\ token = [t \in Tokens |-> None]
  /\ active = [u \in Users |-> TRUE]
  /\ now = 0
  /\ req = [r \in Requests |-> Idle]
  /\ openAtStart = [r \in Requests |-> {}]
  /\ parent = [t \in Tokens |-> None]
  /\ overlapped = {}

Call(step, op, u, s, t) ==
  [pc |-> step, op |-> op, user |-> u, sid |-> s, tok |-> t, ids |-> {}]

\* A request arrives in a free slot.
Begin(r, request) ==
  /\ req[r].pc = "idle"
  /\ req' = [req EXCEPT ![r] = request]
  /\ openAtStart' = [openAtStart EXCEPT ![r] = OpenSessions]

\* The handler has read something and goes on.
Continue(r, request) ==
  /\ req' = [req EXCEPT ![r] = request]
  /\ UNCHANGED openAtStart

\* The handler goes on with what it holds.
Goto(r, step) == Continue(r, [req[r] EXCEPT !.pc = step])

\* The request leaves: answered, refused or lost.
Leave(r) ==
  /\ req' = [req EXCEPT ![r] = Idle]
  /\ openAtStart' = [openAtStart EXCEPT ![r] = {}]

-----------------------------------------------------------------------------
(* issueSession: session.create, then the transaction of issueTokenPair *)

\* AuthService.login read the user as ACTIVE and checked the password; what it
\* goes on to do does not depend on the user row any more.
BeginLogin(r, u) ==
  /\ active[u]
  /\ Begin(r, Call("createSession", "login", u, None, None))
  /\ UNCHANGED <<db, now, parent, overlapped>>

CreateSession(r, s, rememberMe) ==
  /\ req[r].pc = "createSession"
  /\ ~SessionExists(s)
  /\ session' = [session EXCEPT ![s] =
       [user |-> req[r].user, rememberMe |-> rememberMe,
        expiresAt |-> now + TtlDays(rememberMe), revoked |-> FALSE]]
  /\ Continue(r, Call("mintFirst", "login", req[r].user, s, None))
  /\ UNCHANGED <<token, active, now, parent, overlapped>>

\* Mutant: the row is stored without an expiry date.
TokenExpiryMissing(s) == None

\* Mutant: the lifetime of the session is not looked at.
TokenExpiryByTtl(s) == now + TtlDays(session[s].rememberMe)

\* A refresh token never outlives its session.
TokenExpiry(s) ==
  LET byTtl == now + TtlDays(session[s].rememberMe)
  IN  IF byTtl <= session[s].expiresAt THEN byTtl ELSE session[s].expiresAt

\* Mutant: the replaced token is linked to its successor and not revoked.
IssueTokenPairLinksOnly(s, t, replaced) ==
  /\ ~TokenExists(t)
  /\ token' = [x \in Tokens |->
       IF x = t THEN [session |-> s, expiresAt |-> TokenExpiry(s),
                      revoked |-> FALSE, replacedBy |-> None]
       ELSE IF x = replaced THEN [token[x] EXCEPT !.replacedBy = t]
       ELSE token[x]]
  /\ parent' = [parent EXCEPT ![t] = replaced]

\* The transaction of issueTokenPair: a row for t, and `replaced` retired in
\* whatever state it is by now.
IssueTokenPair(s, t, replaced) ==
  /\ ~TokenExists(t)
  /\ token' = [x \in Tokens |->
       IF x = t THEN [session |-> s, expiresAt |-> TokenExpiry(s),
                      revoked |-> FALSE, replacedBy |-> None]
       ELSE IF x = replaced THEN [token[x] EXCEPT !.revoked = TRUE, !.replacedBy = t]
       ELSE token[x]]
  /\ parent' = [parent EXCEPT ![t] = replaced]

MintFirst(r, t) ==
  /\ req[r].pc = "mintFirst"
  /\ IssueTokenPair(req[r].sid, t, None)
  /\ Leave(r)
  /\ UNCHANGED <<session, active, now, overlapped>>

-----------------------------------------------------------------------------
(* rotate: the presented token is looked up outside any transaction *)

\* A client presents a token it once got, or one the database does not know.
BeginRefresh(r, t) ==
  /\ t # None => TokenExists(t)
  /\ Begin(r, Call("lookup", "refresh", None, None, t))
  /\ UNCHANGED <<db, now, parent, overlapped>>

\* Mutant: a live token is taken as proof that its session is live.
MayRotateByToken(t) ==
  /\ token[t].expiresAt > now
  /\ active[session[token[t].session].user]

\* The checks of rotate on a row that is not revoked.
MayRotate(t) ==
  /\ token[t].expiresAt > now
  /\ SessionOpen(token[t].session)
  /\ active[session[token[t].session].user]

LookupRefuses(r) ==
  /\ req[r].pc = "lookup"
  /\ req[r].tok # None => LiveToken(req[r].tok) /\ ~MayRotate(req[r].tok)
  /\ Leave(r)
  /\ UNCHANGED <<db, now, parent, overlapped>>

\* A revoked token is presented again: end the session it belongs to.
LookupDetectsReuse(r) ==
  LET t == req[r].tok
      s == token[t].session
  IN  /\ req[r].pc = "lookup"
      /\ t # None
      /\ token[t].revoked
      /\ Continue(r, [pc |-> "endSessions", op |-> "refresh", user |-> session[s].user,
                      sid |-> s, tok |-> t, ids |-> {s}])
      /\ UNCHANGED <<db, now, parent, overlapped>>

\* Another exchange of the same token has passed its lookup and not yet minted.
Exchanging(t) == \E r \in Requests : req[r].pc = "mintNext" /\ req[r].tok = t

LookupAccepts(r) ==
  LET t == req[r].tok
      s == token[t].session
  IN  /\ req[r].pc = "lookup"
      /\ t # None
      /\ LiveToken(t)
      /\ MayRotate(t)
      /\ Continue(r, Call("mintNext", "refresh", session[s].user, s, t))
      /\ overlapped' = IF Exchanging(t) THEN overlapped \cup {s} ELSE overlapped
      /\ UNCHANGED <<db, now, parent>>

\* Mutant: lastSeenAt is saved with the whole row that was read at the lookup.
MintNextSavesSession(r, t) ==
  /\ req[r].pc = "mintNext"
  /\ IssueTokenPair(req[r].sid, t, req[r].tok)
  /\ session' = [session EXCEPT ![req[r].sid].revoked = FALSE]
  /\ Leave(r)
  /\ UNCHANGED <<active, now, overlapped>>

MintNext(r, t) ==
  /\ req[r].pc = "mintNext"
  /\ IssueTokenPair(req[r].sid, t, req[r].tok)
  /\ Leave(r)
  /\ UNCHANGED <<session, active, now, overlapped>>

-----------------------------------------------------------------------------
(* JwtStrategy.validate: two reads, then the handler runs *)

\* An access token of session s; one is signed with every refresh token.
BeginAccess(r, s) ==
  /\ \E t \in Tokens : TokenExists(t) /\ token[t].session = s
  /\ Begin(r, Call("loadUser", "access", session[s].user, s, None))
  /\ UNCHANGED <<db, now, parent, overlapped>>

LoadUser(r) ==
  /\ req[r].pc = "loadUser"
  /\ IF active[req[r].user] THEN Goto(r, "loadSession") ELSE Leave(r)
  /\ UNCHANGED <<db, now, parent, overlapped>>

LoadSession(r) ==
  /\ req[r].pc = "loadSession"
  /\ IF SessionOpen(req[r].sid) THEN Goto(r, "authorised") ELSE Leave(r)
  /\ UNCHANGED <<db, now, parent, overlapped>>

-----------------------------------------------------------------------------
(* revokeSession and revokeAllUserSessions *)

\* Mutant: only the tokens are revoked.
EndSessionsTokensOnly(r) ==
  LET ids == req[r].ids
  IN  /\ req[r].pc = "endSessions"
      /\ token' = [t \in Tokens |->
           IF LiveToken(t) /\ token[t].session \in ids
           THEN [token[t] EXCEPT !.revoked = TRUE] ELSE token[t]]
      /\ Goto(r, IF req[r].op = "logout" /\ req[r].tok # None THEN "lookupToken" ELSE "done")
      /\ UNCHANGED <<session, active, now, parent, overlapped>>

\* The transaction of both: the sessions of ids and every token under them that
\* is live at this moment.
EndSessions(r) ==
  LET ids == req[r].ids
  IN  /\ req[r].pc = "endSessions"
      /\ session' = [s \in Sessions |->
           IF s \in ids THEN [session[s] EXCEPT !.revoked = TRUE] ELSE session[s]]
      /\ token' = [t \in Tokens |->
           IF LiveToken(t) /\ token[t].session \in ids
           THEN [token[t] EXCEPT !.revoked = TRUE] ELSE token[t]]
      /\ Goto(r, IF req[r].op = "logout" /\ req[r].tok # None THEN "lookupToken" ELSE "done")
      /\ UNCHANGED <<active, now, parent, overlapped>>

\* Mutant: the sessions are found through their live refresh tokens.
SessionsToEndByToken(u, except) ==
  {s \in Sessions : /\ SessionExists(s)
                    /\ session[s].user = u
                    /\ LiveTokensOf(s) # {}
                    /\ s # except}

\* The rows revokeAllUserSessions goes on to revoke; sid holds exceptSessionId.
SessionsToEnd(u, except) ==
  {s \in Sessions : /\ SessionExists(s)
                    /\ session[s].user = u
                    /\ ~session[s].revoked
                    /\ s # except}

FindLive(r) ==
  LET ids == SessionsToEnd(req[r].user, req[r].sid)
  IN  /\ req[r].pc = "findLive"
      /\ Continue(r, [req[r] EXCEPT !.pc = IF ids = {} THEN "done" ELSE "endSessions",
                                    !.ids = ids])
      /\ UNCHANGED <<db, now, parent, overlapped>>

-----------------------------------------------------------------------------
(* The operations that end sessions *)

\* AuthService.logout with the refresh token the client still has, if any.
Logout(r, t) ==
  /\ req[r].pc = "authorised"
  /\ t # None => TokenExists(t)
  /\ Continue(r, [pc |-> "endSessions", op |-> "logout", user |-> req[r].user,
                  sid |-> req[r].sid, tok |-> t, ids |-> {req[r].sid}])
  /\ UNCHANGED <<db, now, parent, overlapped>>

\* Mutant: a token of another session is left alone.
LookupTokenOfSession(r) ==
  /\ req[r].pc = "lookupToken"
  /\ Goto(r, IF token[req[r].tok].revoked \/ token[req[r].tok].session # req[r].sid
             THEN "done" ELSE "revokeToken")
  /\ UNCHANGED <<db, now, parent, overlapped>>

\* revokeRefreshToken reads the row, then updates it.
LookupToken(r) ==
  /\ req[r].pc = "lookupToken"
  /\ Goto(r, IF token[req[r].tok].revoked THEN "done" ELSE "revokeToken")
  /\ UNCHANGED <<db, now, parent, overlapped>>

RevokeToken(r) ==
  /\ req[r].pc = "revokeToken"
  /\ token' = [token EXCEPT ![req[r].tok].revoked = TRUE]
  /\ Goto(r, "done")
  /\ UNCHANGED <<session, active, now, parent, overlapped>>

\* AuthService.logout with allSessions, or changePassword, which keeps the
\* session it is called in.
LogoutAll(r, keepOwn) ==
  /\ req[r].pc = "authorised"
  /\ Continue(r, Call("findLive", "revokeAll", req[r].user,
                      IF keepOwn THEN req[r].sid ELSE None, None))
  /\ UNCHANGED <<db, now, parent, overlapped>>

\* The row SessionService.revokeOwn looks for.
OwnSession(s, u) == SessionExists(s) /\ session[s].user = u

RevokeOwn(r, s) ==
  /\ req[r].pc = "authorised"
  /\ OwnSession(s, req[r].user)
  /\ Continue(r, [pc |-> "endSessions", op |-> "revokeOwn", user |-> req[r].user,
                  sid |-> s, tok |-> None, ids |-> {s}])
  /\ UNCHANGED <<db, now, parent, overlapped>>

\* Someone else ends every session of u: an administrator, a role change, a
\* password reset.  Their own checks are not this module's.
BeginRevokeAll(r, u) ==
  /\ Begin(r, Call("findLive", "revokeAll", u, None, None))
  /\ UNCHANGED <<db, now, parent, overlapped>>

\* UserService.update writes the status; disabling goes on to end the sessions.
Disable(r, u) ==
  /\ Begin(r, Call("findLive", "revokeAll", u, None, None))
  /\ active' = [active EXCEPT ![u] = FALSE]
  /\ UNCHANGED <<session, token, now, parent, overlapped>>

Enable(u) ==
  /\ ~active[u]
  /\ active' = [active EXCEPT ![u] = TRUE]
  /\ UNCHANGED <<session, token, now, req, history>>

-----------------------------------------------------------------------------

Respond(r) ==
  /\ req[r].pc \in {"done", "authorised"}
  /\ Leave(r)
  /\ UNCHANGED <<db, now, parent, overlapped>>

\* The process dies, the database refuses or the connection is lost: what is
\* committed stays, the rest of the handler never runs.
Fail(r) ==
  /\ req[r].pc # "idle"
  /\ Leave(r)
  /\ UNCHANGED <<db, now, parent, overlapped>>

Tick ==
  /\ now < MaxNow
  /\ now' = now + 1
  /\ UNCHANGED <<db, req, history>>

IssueStep(r) ==
  \/ \E u \in Users : BeginLogin(r, u)
  \/ \E s \in Sessions, rememberMe \in BOOLEAN : CreateSession(r, s, rememberMe)
  \/ \E t \in Tokens : MintFirst(r, t)

RotateStep(r) ==
  \/ \E t \in Tokens \cup {None} : BeginRefresh(r, t)
  \/ LookupRefuses(r)
  \/ LookupDetectsReuse(r)
  \/ LookupAccepts(r)
  \/ \E t \in Tokens : MintNext(r, t)

AccessStep(r) ==
  \/ \E s \in Sessions : BeginAccess(r, s)
  \/ LoadUser(r)
  \/ LoadSession(r)

RevokeStep(r) ==
  \/ \E t \in Tokens \cup {None} : Logout(r, t)
  \/ \E keepOwn \in BOOLEAN : LogoutAll(r, keepOwn)
  \/ \E s \in Sessions : RevokeOwn(r, s)
  \/ \E u \in Users : BeginRevokeAll(r, u) \/ Disable(r, u)
  \/ FindLive(r)
  \/ EndSessions(r)
  \/ LookupToken(r)
  \/ RevokeToken(r)

Next ==
  \/ \E r \in Requests :
       IssueStep(r) \/ RotateStep(r) \/ AccessStep(r) \/ RevokeStep(r) \/ Respond(r) \/ Fail(r)
  \/ \E u \in Users : Enable(u)
  \/ Tick

Spec == Init /\ [][Next]_vars

-----------------------------------------------------------------------------
(* Properties *)

\* A session has at most one live refresh token, as long as no two exchanges of
\* one token overlapped in it: the rotating chain of schema.prisma:192-196, and
\* the reason why presenting a spent token is evidence of theft.
OneLiveTokenUnlessOverlap ==
  \A s \in Sessions \ overlapped : \A t1, t2 \in LiveTokensOf(s) : t1 = t2

\* No request that began after its session was revoked or had expired is let
\* through, neither to a handler nor to a new token pair, whatever tokens were
\* minted under that session by exchanges that were in flight when it ended.
EntryOnlyToOpenSession ==
  \A r \in Requests :
    req[r].pc \in {"authorised", "mintNext"} => req[r].sid \in openAtStart[r]

\* A refresh token never outlives its session (token.service.ts:190-191), however
\* often it is exchanged.
TokenWithinSession ==
  \A t \in Tokens :
    TokenExists(t) => token[t].expiresAt <= session[token[t].session].expiresAt

\* When a request that presented a spent token is answered, its session has ended
\* and no later token of the chain lets anyone in.
ReuseEndsSession ==
  \A r \in Requests :
    (req[r].pc = "done" /\ req[r].op = "refresh") =>
      session[token[req[r].tok].session].revoked

\* When revokeAllUserSessions is answered, every session of the user that was open
\* when the request began has ended, except the one it was asked to keep.
RevokeAllComplete ==
  \A r \in Requests :
    (req[r].pc = "done" /\ req[r].op = "revokeAll") =>
      \A s \in openAtStart[r] :
        session[s].user = req[r].user => session[s].revoked \/ s = req[r].sid

\* When a logout is answered, the caller's session and the refresh token it handed
\* in are both spent, whichever session that token belongs to.
LogoutEndsBoth ==
  \A r \in Requests :
    (req[r].pc = "done" /\ req[r].op = "logout") =>
      /\ session[req[r].sid].revoked
      /\ req[r].tok # None => token[req[r].tok].revoked

\* A revoked session or token never comes back, and neither moves to another
\* session, user or expiry date.
RevocationIsFinal ==
  [][/\ \A s \in Sessions : SessionExists(s) =>
          /\ SessionExists(s)'
          /\ session[s].revoked => session'[s].revoked
          /\ session'[s].user = session[s].user
          /\ session'[s].expiresAt = session[s].expiresAt
     /\ \A t \in Tokens : TokenExists(t) =>
          /\ TokenExists(t)'
          /\ token[t].revoked => token'[t].revoked
          /\ token'[t].session = token[t].session
          /\ token'[t].expiresAt = token[t].expiresAt
    ]_vars

\* The comment on rotate (token.service.ts:88-90): an exchange "can never mint a
\* second live token from the same parent".
NoSecondLiveToken ==
  \A t1, t2 \in Tokens :
    LiveToken(t1) /\ LiveToken(t2) /\ parent[t1] = parent[t2] /\ parent[t1] # None => t1 = t2

-----------------------------------------------------------------------------
(* The abstract specification it implements *)

ChainStatus(s) ==
  IF session[s] = None THEN "none"
  ELSE IF session[s].revoked THEN "ended"
  ELSE IF s \in overlapped THEN "forked" ELSE "open"

Chain == INSTANCE SessionChain WITH
  status <- [s \in Sessions |-> ChainStatus(s)],
  live <- [s \in Sessions |-> IF ChainStatus(s) = "open" THEN LiveTokensOf(s) ELSE {}],
  issued <- [t \in Tokens |-> IF TokenExists(t) THEN token[t].session ELSE None]

\* Seen through rows, requests and races, every session is the chain of SessionChain:
\* opened and ended once, one live token at a time and each of them new, until two
\* exchanges of one token overlap in it.
ImplementsChain == Chain!Spec

-----------------------------------------------------------------------------
(* What the properties rest on: the parts of the inductive invariants *)

\* What a handler holds names rows that exist, and their owner.
RequestOK(r) ==
  LET q == req[r]
  IN  /\ q.pc \in {"createSession", "findLive"} => q.user \in Users
      /\ (q.pc \in {"mintFirst", "mintNext", "loadUser", "loadSession", "authorised"}
          \/ q.op = "logout") =>
           q.sid \in Sessions /\ SessionExists(q.sid) /\ q.user = session[q.sid].user
      /\ q.tok # None => TokenExists(q.tok)
      /\ q.pc = "mintNext" => q.tok # None /\ token[q.tok].session = q.sid
      /\ q.pc \in {"lookupToken", "revokeToken"} => q.tok # None
      /\ \A s \in q.ids : SessionExists(s)

RowsOK ==
  /\ \A t \in Tokens : TokenExists(t) => SessionExists(token[t].session)
  /\ \A r \in Requests : RequestOK(r)

Exchange(r, s) == req[r].pc = "mintNext" /\ req[r].sid = s
FirstMint(r, s) == req[r].pc = "mintFirst" /\ req[r].sid = s

\* In a session without overlapping exchanges one request at most is about to mint,
\* and the one live token there may be is the one it is about to retire.
ChainOK(s) ==
  /\ \A t1, t2 \in LiveTokensOf(s) : t1 = t2
  /\ \A r1, r2 \in Requests : Exchange(r1, s) /\ Exchange(r2, s) => r1 = r2
  /\ \A r \in Requests : Exchange(r, s) => LiveTokensOf(s) \subseteq {req[r].tok}
  /\ \A r1, r2 \in Requests : FirstMint(r1, s) /\ FirstMint(r2, s) => r1 = r2
  /\ \A r \in Requests : FirstMint(r, s) =>
       \A t \in Tokens : TokenExists(t) => token[t].session # s

ChainsOK == \A s \in Sessions \ overlapped : ChainOK(s)

\* A session a request still finds open was open when the request began.
EntryOK(r) ==
  LET q == req[r]
  IN  /\ q.pc = "lookup" /\ q.tok # None =>
           (SessionOpen(token[q.tok].session) => token[q.tok].session \in openAtStart[r])
      /\ q.pc \in {"loadUser", "loadSession"} =>
           (SessionOpen(q.sid) => q.sid \in openAtStart[r])
      /\ q.pc \in {"mintNext", "authorised"} => q.sid \in openAtStart[r]

EntriesOK == \A r \in Requests : EntryOK(r)

=============================================================================
