-------------------------- MODULE SessionChainProofs --------------------------
(***************************************************************************)
(* TokenService implements SessionChain, for every set of users, sessions, *)
(* tokens and requests and every lifetime.                                 *)
(***************************************************************************)
EXTENDS TokenServiceProofs

\* The refinement mapping, session by session and token by token.
LiveIn(s) == IF ChainStatus(s) = "open" THEN LiveTokensOf(s) ELSE {}
IssuedIn(t) == IF TokenExists(t) THEN token[t].session ELSE None

\* A step that does not touch what the mapping reads.
Untouched == UNCHANGED <<session, token, overlapped>>

(* Such a step is no step of the abstract specification. *)
LEMMA UntouchedStutters ==
  ASSUME Untouched
  PROVE  UNCHANGED Chain!vars
<1>1. /\ \A s \in Sessions : ChainStatus(s)' = ChainStatus(s)
      /\ \A s \in Sessions : LiveTokensOf(s)' = LiveTokensOf(s)
      /\ \A t \in Tokens : TokenExists(t)' = TokenExists(t)
  BY DEF Untouched, ChainStatus, LiveTokensOf, LiveToken, TokenExists
<1>. QED BY <1>1 DEF Chain!vars, Untouched

(* No sessions, no tokens. *)
LEMMA InitMaps == Init => Chain!Init
BY DEF Init, Chain!Init, ChainStatus, TokenExists

(* A session row appears: the session opens. *)
LEMMA CreateSessionMaps ==
  ASSUME Good, ChainsOK, NEW r \in Requests, NEW s0 \in Sessions, NEW rememberMe \in BOOLEAN,
         s0 \notin overlapped, CreateSession(r, s0, rememberMe)
  PROVE  Chain!Open(s0)
<1>0. TypeOK /\ RowsOK
  BY DEF Good
<1>. DEFINE row == [user |-> req[r].user, rememberMe |-> rememberMe,
                    expiresAt |-> now + TtlDays(rememberMe), revoked |-> FALSE]
<1>1. /\ session[s0] = None /\ session' = [session EXCEPT ![s0] = row]
      /\ UNCHANGED <<token, overlapped>>
  BY DEF CreateSession, SessionExists
<1>2. row # None /\ ~row.revoked
  <2>1. req[r].user \in Users
    BY <1>0 DEF RowsOK, RequestOK, CreateSession
  <2>2. now + TtlDays(rememberMe) \in Nat
    BY <1>0, TtlAssumption DEF TypeOK, TtlDays
  <2>3. row \in SessionRow
    BY <2>1, <2>2 DEF SessionRow
  <2>. QED BY <2>3, NoneAssumption
<1>3. session'[s0] = row /\ \A s \in Sessions \ {s0} : session'[s] = session[s]
  BY <1>0, <1>1 DEF TypeOK
<1>. HIDE DEF row
<1>4. /\ ChainStatus(s0) = "none" /\ ChainStatus(s0)' = "open"
      /\ \A s \in Sessions \ {s0} : ChainStatus(s)' = ChainStatus(s)
  BY <1>1, <1>2, <1>3 DEF ChainStatus
<1>5. \A s \in Sessions : LiveTokensOf(s)' = LiveTokensOf(s)
  BY <1>1 DEF LiveTokensOf, LiveToken
<1>6. LiveTokensOf(s0) = {}
  BY <1>0, <1>1 DEF RowsOK, LiveTokensOf, LiveToken, TokenExists, SessionExists
<1>7. \A t \in Tokens : IssuedIn(t)' = IssuedIn(t)
  BY <1>1 DEF IssuedIn, TokenExists
<1>8. \A s \in Sessions : LiveIn(s)' = LiveIn(s)
  BY <1>4, <1>5, <1>6 DEF LiveIn
<1>. QED BY <1>4, <1>7, <1>8 DEF Chain!Open, LiveIn, IssuedIn

(* issueTokenPair: the chain of the session goes on, or the token is worth nothing. *)
LEMMA MintMaps ==
  ASSUME Good, NEW s0 \in Sessions, SessionExists(s0), NEW t \in Tokens,
         NEW p \in Tokens \cup {None}, p # None => TokenExists(p) /\ token[p].session = s0,
         IssueTokenPair(s0, t, p), UNCHANGED <<session, overlapped>>,
         s0 \notin overlapped => LiveTokensOf(s0) \subseteq {p}
  PROVE  Chain!Extend(s0, t) \/ Chain!Waste(s0, t)
<1>1. /\ token'[t].session = s0 /\ TokenExists(t)' /\ ~token'[t].revoked
      /\ \A x \in Tokens \ {t} :
           /\ TokenExists(x)' <=> TokenExists(x)
           /\ TokenExists(x) => /\ token'[x].session = token[x].session
                                /\ token'[x].revoked <=> (token[x].revoked \/ x = p)
  BY IssueTokenPairRows DEF Good
<1>2. ~TokenExists(t)
  BY Zenon DEF IssueTokenPair
<1>3. \A s \in Sessions : ChainStatus(s)' = ChainStatus(s)
  BY DEF ChainStatus
<1>4. /\ IssuedIn(t) = None /\ IssuedIn(t)' = s0
      /\ \A x \in Tokens \ {t} : IssuedIn(x)' = IssuedIn(x)
  BY <1>1, <1>2 DEF IssuedIn
<1>5. \A s \in Sessions \ {s0} : LiveTokensOf(s)' = LiveTokensOf(s)
  <2>. SUFFICES ASSUME NEW s \in Sessions \ {s0}, NEW x \in Tokens
                PROVE  (LiveToken(x)' /\ token'[x].session = s) <=> (LiveToken(x) /\ token[x].session = s)
    BY DEF LiveTokensOf
  <2>1. CASE x = t
    BY <1>1, <1>2, <2>1 DEF LiveToken, TokenExists
  <2>2. CASE x # t /\ TokenExists(x)
    BY <1>1, <2>2, NoneAssumption DEF LiveToken, TokenExists
  <2>3. CASE x # t /\ ~TokenExists(x)
    BY <1>1, <2>3 DEF LiveToken, TokenExists
  <2>. QED BY <2>1, <2>2, <2>3
<1>6. CASE ChainStatus(s0) = "open"
  <2>1. s0 \notin overlapped
    BY <1>6 DEF ChainStatus
  <2>2. LiveTokensOf(s0)' = {t}
    BY <1>1, <2>1 DEF LiveTokensOf, LiveToken, TokenExists
  <2>3. /\ LiveIn(s0)' = {t}
        /\ \A s \in Sessions \ {s0} : LiveIn(s)' = LiveIn(s)
    BY <1>3, <1>5, <1>6, <2>2 DEF LiveIn
  <2>. QED BY <1>3, <1>4, <1>6, <2>3 DEF Chain!Extend, LiveIn, IssuedIn
<1>7. CASE ChainStatus(s0) # "open"
  <2>1. ChainStatus(s0) \in {"forked", "ended"}
    BY <1>7 DEF ChainStatus, SessionExists
  <2>2. \A s \in Sessions : LiveIn(s)' = LiveIn(s)
    BY <1>3, <1>5, <1>7 DEF LiveIn
  <2>. QED BY <1>3, <1>4, <2>1, <2>2 DEF Chain!Waste, LiveIn, IssuedIn
<1>. QED BY <1>6, <1>7

(* A second exchange of a token passes its lookup: the session forks if it is open. *)
LEMMA LookupMaps ==
  ASSUME Good, NEW s0 \in Sessions, SessionExists(s0), UNCHANGED <<session, token>>,
         overlapped' = overlapped \cup {s0}
  PROVE  Chain!Fork(s0) \/ UNCHANGED Chain!vars
<1>1. CASE ChainStatus(s0) = "open"
  <2>1. /\ ChainStatus(s0)' = "forked"
        /\ \A s \in Sessions \ {s0} : ChainStatus(s)' = ChainStatus(s)
    BY <1>1 DEF ChainStatus
  <2>2. \A s \in Sessions : LiveTokensOf(s)' = LiveTokensOf(s)
    BY DEF LiveTokensOf, LiveToken
  <2>3. /\ LiveIn(s0)' = {}
        /\ \A s \in Sessions \ {s0} : LiveIn(s)' = LiveIn(s)
    BY <2>1, <2>2 DEF LiveIn
  <2>4. \A t \in Tokens : IssuedIn(t)' = IssuedIn(t)
    BY DEF IssuedIn, TokenExists
  <2>. QED BY <1>1, <2>1, <2>3, <2>4 DEF Chain!Fork, LiveIn, IssuedIn
<1>2. CASE ChainStatus(s0) # "open"
  <2>1. \A s \in Sessions : ChainStatus(s)' = ChainStatus(s)
    BY <1>2 DEF ChainStatus
  <2>2. \A s \in Sessions : LiveTokensOf(s)' = LiveTokensOf(s)
    BY DEF LiveTokensOf, LiveToken
  <2>3. \A t \in Tokens : TokenExists(t)' = TokenExists(t)
    BY DEF TokenExists
  <2>. QED BY <2>1, <2>2, <2>3 DEF Chain!vars
<1>. QED BY <1>1, <1>2

(* revokeSession and revokeAllUserSessions: what was open under ids ends. *)
LEMMA EndSessionsMaps ==
  ASSUME Good, NEW r \in Requests, EndSessions(r)
  PROVE  \E ended \in SUBSET Sessions : Chain!End(ended)
<1>. DEFINE ended == {s \in req[r].ids : ChainStatus(s) \in {"open", "forked"}}
<1>0. req[r].ids \subseteq Sessions /\ \A s \in req[r].ids : SessionExists(s)
  BY DEF Good, TypeOK, Request, RowsOK, RequestOK
<1>1. /\ \A s \in req[r].ids : session'[s].revoked
      /\ \A s \in Sessions \ req[r].ids : session'[s] = session[s]
      /\ \A t \in Tokens : TokenExists(t)' <=> TokenExists(t)
      /\ \A t \in Tokens : ~LiveToken(t) => token'[t] = token[t]
      /\ RowsPersist
  BY EndSessionsRows
<1>2. overlapped' = overlapped
  BY DEF EndSessions
<1>3. \A s \in req[r].ids : ChainStatus(s) \in {"open", "forked", "ended"} /\ ChainStatus(s)' = "ended"
  BY <1>0, <1>1 DEF ChainStatus, SessionExists, RowsPersist
<1>4. \A s \in Sessions \ req[r].ids : ChainStatus(s)' = ChainStatus(s)
  BY <1>1, <1>2 DEF ChainStatus
<1>5. \A s \in Sessions : ChainStatus(s)' = IF s \in ended THEN "ended" ELSE ChainStatus(s)
  BY <1>0, <1>3, <1>4
<1>6. \A s \in Sessions \ req[r].ids : LiveTokensOf(s)' = LiveTokensOf(s)
  <2>. SUFFICES ASSUME NEW s \in Sessions \ req[r].ids, NEW t \in Tokens
                PROVE  (LiveToken(t)' /\ token'[t].session = s) <=> (LiveToken(t) /\ token[t].session = s)
    BY DEF LiveTokensOf
  <2>1. CASE ~LiveToken(t)
    BY <1>1, <2>1 DEF LiveToken
  <2>2. CASE LiveToken(t) /\ token[t].session = s
    <3>1. token'[t] = token[t]
      BY <2>2 DEF EndSessions, Good, TypeOK
    <3>. QED BY <2>2, <3>1 DEF LiveToken
  <2>3. CASE LiveToken(t) /\ token[t].session # s
    BY <1>1, <2>3 DEF RowsPersist, LiveToken, TokenExists
  <2>. QED BY <2>1, <2>2, <2>3
<1>7. \A s \in Sessions : LiveIn(s)' = IF s \in ended THEN {} ELSE LiveIn(s)
  BY <1>3, <1>4, <1>6 DEF LiveIn
<1>8. \A t \in Tokens : IssuedIn(t)' = IssuedIn(t)
  BY <1>1 DEF RowsPersist, IssuedIn
<1>9. ended \in SUBSET Sessions /\ \A s \in ended : ChainStatus(s) \in {"open", "forked"}
  BY <1>0
<1>. HIDE DEF ended
<1>10. Chain!End(ended)
  BY <1>5, <1>7, <1>8, <1>9 DEF Chain!End, LiveIn, IssuedIn
<1>. QED BY <1>9, <1>10

(* revokeRefreshToken: the live token of a chain is given back, or one that is not
   its live token any more. *)
LEMMA SpendMaps ==
  ASSUME Good, ChainsOK, NEW p \in Tokens, TokenExists(p), NEW s0 \in Sessions,
         token[p].session = s0, token' = [token EXCEPT ![p].revoked = TRUE],
         UNCHANGED <<session, overlapped>>
  PROVE  Chain!Spend(s0) \/ UNCHANGED Chain!vars
<1>0. token[p] \in TokenRow /\ token \in [Tokens -> TokenRow \cup {None}]
  BY RowTypes DEF Good, TypeOK
<1>1. /\ token'[p].revoked /\ token'[p].session = s0 /\ TokenExists(p)'
      /\ \A t \in Tokens \ {p} : token'[t] = token[t]
  <2>1. token'[p] = [token[p] EXCEPT !.revoked = TRUE]
    BY <1>0
  <2>2. [token[p] EXCEPT !.revoked = TRUE] \in TokenRow
    BY <1>0 DEF TokenRow
  <2>3. token'[p].revoked /\ token'[p].session = s0
    BY <1>0, <2>1 DEF TokenRow
  <2>4. TokenExists(p)'
    BY <2>1, <2>2, NoneAssumption DEF TokenExists
  <2>. QED BY <1>0, <2>3, <2>4
<1>2. \A s \in Sessions : ChainStatus(s)' = ChainStatus(s)
  BY DEF ChainStatus
<1>3. \A t \in Tokens : IssuedIn(t)' = IssuedIn(t)
  BY <1>1 DEF IssuedIn, TokenExists
<1>4. \A s \in Sessions \ {s0} : LiveTokensOf(s)' = LiveTokensOf(s)
  <2>. SUFFICES ASSUME NEW s \in Sessions \ {s0}, NEW x \in Tokens
                PROVE  (LiveToken(x)' /\ token'[x].session = s) <=> (LiveToken(x) /\ token[x].session = s)
    BY DEF LiveTokensOf
  <2>. QED BY <1>1 DEF LiveToken
<1>5. LiveTokensOf(s0)' = LiveTokensOf(s0) \ {p}
  <2>. SUFFICES ASSUME NEW x \in Tokens
                PROVE  (LiveToken(x)' /\ token'[x].session = s0)
                         <=> (LiveToken(x) /\ token[x].session = s0 /\ x # p)
    BY DEF LiveTokensOf
  <2>. QED BY <1>1 DEF LiveToken
<1>6. CASE ChainStatus(s0) = "open" /\ p \in LiveTokensOf(s0)
  <2>1. \A t1, t2 \in LiveTokensOf(s0) : t1 = t2
    BY <1>6 DEF ChainStatus, ChainsOK, ChainOK
  <2>2. LiveTokensOf(s0)' = {}
    BY <1>5, <1>6, <2>1
  <2>3. LiveIn(s0)' = {} /\ \A s \in Sessions \ {s0} : LiveIn(s)' = LiveIn(s)
    BY <1>2, <1>4, <2>2 DEF LiveIn
  <2>. QED BY <1>2, <1>3, <1>6, <2>3 DEF Chain!Spend, LiveIn, IssuedIn
<1>7. CASE ~(ChainStatus(s0) = "open" /\ p \in LiveTokensOf(s0))
  <2>1. ChainStatus(s0) = "open" => LiveTokensOf(s0)' = LiveTokensOf(s0)
    BY <1>5, <1>7
  <2>2. \A s \in Sessions : LiveIn(s)' = LiveIn(s)
    BY <1>2, <1>4, <2>1 DEF LiveIn
  <2>. QED BY <1>2, <1>3, <2>2 DEF Chain!vars, LiveIn, IssuedIn
<1>. QED BY <1>6, <1>7

-----------------------------------------------------------------------------
(* Every step *)

\* Overlaps are recorded of sessions that exist, so a new session never is one.
OverlapsKnown == \A s \in overlapped : SessionExists(s)

LEMMA OverlapsKnownKept ==
  ASSUME Good, OverlapsKnown, [Next]_vars
  PROVE  OverlapsKnown'
<1>0. RowsPersist
  BY NextGood
<1>1. ASSUME NEW r \in Requests, LookupAccepts(r)
      PROVE  OverlapsKnown'
  <2>. DEFINE s0 == token[req[r].tok].session
  <2>1. SessionExists(s0) /\ s0 \in Sessions
    <3>1. req[r].tok \in Tokens /\ TokenExists(req[r].tok)
      BY <1>1 DEF LookupAccepts, Good, TypeOK, Request, LiveToken, TokenExists
    <3>. QED BY <3>1, RowTypes DEF Good, RowsOK, TokenRow
  <2>2. overlapped' \subseteq overlapped \cup {s0} /\ session' = session
    BY <1>1 DEF LookupAccepts, db
  <2>. HIDE DEF s0
  <2>. QED BY <2>1, <2>2 DEF OverlapsKnown, SessionExists
<1>2. ASSUME UNCHANGED overlapped
      PROVE  OverlapsKnown'
  BY <1>0, <1>2 DEF OverlapsKnown, RowsPersist, Good, TypeOK
<1>3. (\E r \in Requests : LookupAccepts(r)) \/ UNCHANGED overlapped
  BY Zenon DEF Next, IssueStep, RotateStep, AccessStep, RevokeStep, BeginLogin, CreateSession,
         MintFirst, BeginRefresh, LookupRefuses, LookupDetectsReuse, MintNext, BeginAccess,
         LoadUser, LoadSession, Logout, LogoutAll, RevokeOwn, BeginRevokeAll, Disable, FindLive,
         EndSessions, LookupToken, RevokeToken, Respond, Fail, Enable, Tick, vars, history
<1>. QED BY <1>1, <1>2, <1>3

(* Each step of TokenService is a step of SessionChain or none. *)
LEMMA NextMaps ==
  ASSUME Good, ChainsOK, OverlapsKnown, [Next]_vars
  PROVE  [Chain!Next]_(Chain!vars)
<1>0. TypeOK /\ RowsOK
  BY DEF Good
<1>1. ASSUME Untouched
      PROVE  [Chain!Next]_(Chain!vars)
  BY <1>1, UntouchedStutters
<1>2. ASSUME NEW r \in Requests, IssueStep(r)
      PROVE  [Chain!Next]_(Chain!vars)
  <2>1. ASSUME NEW u \in Users, BeginLogin(r, u)
        PROVE  Untouched
    BY <2>1 DEF BeginLogin, db, Untouched
  <2>2. ASSUME NEW s \in Sessions, NEW rememberMe \in BOOLEAN, CreateSession(r, s, rememberMe)
        PROVE  Chain!Next
    <3>1. s \notin overlapped
      BY <2>2 DEF OverlapsKnown, CreateSession
    <3>. QED BY <2>2, <3>1, CreateSessionMaps DEF Chain!Next
  <2>3. ASSUME NEW t \in Tokens, MintFirst(r, t)
        PROVE  Chain!Next
    <3>1. PICK s0 \in Sessions : s0 = req[r].sid /\ SessionExists(s0)
      BY <1>0, <2>3 DEF MintFirst, RowsOK, RequestOK
    <3>2. IssueTokenPair(s0, t, None) /\ UNCHANGED <<session, overlapped>> /\ FirstMint(r, s0)
      BY <2>3, <3>1 DEF MintFirst, FirstMint
    <3>3. s0 \notin overlapped => LiveTokensOf(s0) \subseteq {None}
      BY <3>2 DEF ChainsOK, ChainOK, LiveTokensOf, LiveToken, TokenExists
    <3>. QED BY <3>1, <3>2, <3>3, MintMaps DEF Chain!Next
  <2>. QED BY <1>1, <1>2, <2>1, <2>2, <2>3 DEF IssueStep
<1>3. ASSUME NEW r \in Requests, RotateStep(r)
      PROVE  [Chain!Next]_(Chain!vars)
  <2>1. ASSUME \/ \E t \in Tokens \cup {None} : BeginRefresh(r, t)
               \/ LookupRefuses(r)
               \/ LookupDetectsReuse(r)
        PROVE  Untouched
    BY <2>1 DEF BeginRefresh, LookupRefuses, LookupDetectsReuse, db, Untouched
  <2>2. CASE LookupAccepts(r)
    <3>1. req[r].tok \in Tokens /\ TokenExists(req[r].tok)
      BY <1>0, <2>2 DEF LookupAccepts, TypeOK, Request, LiveToken, TokenExists
    <3>2. PICK s0 \in Sessions : s0 = token[req[r].tok].session /\ SessionExists(s0)
      BY <1>0, <3>1, RowTypes DEF RowsOK, TokenRow
    <3>3. /\ UNCHANGED <<session, token>>
          /\ overlapped' = overlapped \cup {s0} \/ UNCHANGED overlapped
      BY <2>2, <3>2 DEF LookupAccepts, db
    <3>. QED BY <1>1, <3>2, <3>3, LookupMaps DEF Chain!Next, Untouched
  <2>3. ASSUME NEW t \in Tokens, MintNext(r, t)
        PROVE  Chain!Next
    <3>1. PICK s0 \in Sessions : s0 = req[r].sid /\ SessionExists(s0)
      BY <1>0, <2>3 DEF MintNext, RowsOK, RequestOK
    <3>2. PICK p \in Tokens : p = req[r].tok /\ TokenExists(p) /\ token[p].session = s0
      BY <1>0, <2>3, <3>1 DEF MintNext, RowsOK, RequestOK, TypeOK, Request
    <3>3. IssueTokenPair(s0, t, p) /\ UNCHANGED <<session, overlapped>> /\ Exchange(r, s0)
      BY <2>3, <3>1, <3>2 DEF MintNext, Exchange
    <3>4. s0 \notin overlapped => LiveTokensOf(s0) \subseteq {p}
      BY <3>2, <3>3 DEF ChainsOK, ChainOK
    <3>. QED BY <3>1, <3>2, <3>3, <3>4, MintMaps DEF Chain!Next
  <2>. QED BY <1>1, <1>3, <2>1, <2>2, <2>3 DEF RotateStep
<1>4. ASSUME NEW r \in Requests, AccessStep(r)
      PROVE  Untouched
  BY <1>4 DEF AccessStep, BeginAccess, LoadUser, LoadSession, db, Untouched
<1>5. ASSUME NEW r \in Requests, RevokeStep(r)
      PROVE  [Chain!Next]_(Chain!vars)
  <2>1. ASSUME \/ \E t \in Tokens \cup {None} : Logout(r, t)
               \/ \E keepOwn \in BOOLEAN : LogoutAll(r, keepOwn)
               \/ \E s \in Sessions : RevokeOwn(r, s)
               \/ \E u \in Users : BeginRevokeAll(r, u) \/ Disable(r, u)
               \/ FindLive(r)
               \/ LookupToken(r)
        PROVE  Untouched
    BY <2>1 DEF Logout, LogoutAll, RevokeOwn, BeginRevokeAll, Disable, FindLive, LookupToken,
                db, Untouched
  <2>2. CASE EndSessions(r)
    BY <2>2, EndSessionsMaps DEF Chain!Next
  <2>3. CASE RevokeToken(r)
    <3>1. PICK p \in Tokens : p = req[r].tok /\ TokenExists(p)
      BY <1>0, <2>3 DEF RevokeToken, RowsOK, RequestOK, TypeOK, Request
    <3>2. PICK s0 \in Sessions : s0 = token[p].session
      BY <1>0, <3>1, RowTypes DEF TokenRow
    <3>3. token' = [token EXCEPT ![p].revoked = TRUE] /\ UNCHANGED <<session, overlapped>>
      BY <2>3, <3>1 DEF RevokeToken
    <3>. QED BY <3>1, <3>2, <3>3, SpendMaps DEF Chain!Next
  <2>. QED BY <1>1, <1>5, <2>1, <2>2, <2>3 DEF RevokeStep
<1>6. ASSUME NEW r \in Requests, Respond(r) \/ Fail(r)
      PROVE  Untouched
  BY <1>6 DEF Respond, Fail, db, Untouched
<1>7. ASSUME (\E u \in Users : Enable(u)) \/ Tick \/ UNCHANGED vars
      PROVE  Untouched
  BY <1>7 DEF Enable, Tick, vars, history, db, Untouched
<1>. QED BY <1>1, <1>2, <1>3, <1>4, <1>5, <1>6, <1>7 DEF Next

(* Refresh tokens as rows, requests and transactions implement one chain per session:
   opened once, ended once, one live token that every exchange replaces by a new one,
   as long as no two exchanges of a token overlap. *)
THEOREM Implements == Spec => ImplementsChain
<1>1. Init => Good /\ ChainsOK /\ OverlapsKnown
  <2>1. Init => ChainsOK
    BY DEF Init, ChainsOK, ChainOK, LiveTokensOf, LiveToken, Exchange, FirstMint, Idle, TokenExists
  <2>. QED BY InitGood, <2>1 DEF Init, OverlapsKnown
<1>2. Good /\ ChainsOK /\ OverlapsKnown /\ [Next]_vars => Good' /\ ChainsOK' /\ OverlapsKnown'
  BY NextGood, NextChains, OverlapsKnownKept
<1>3. Good /\ ChainsOK /\ OverlapsKnown /\ [Next]_vars => [Chain!Next]_(Chain!vars)
  BY NextMaps
<1>. QED BY InitMaps, <1>1, <1>2, <1>3, PTL DEF Spec, ImplementsChain, Chain!Spec

=============================================================================
