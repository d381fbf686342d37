------------------------- MODULE TokenServiceProofs -------------------------
(***************************************************************************)
(* Theorems about TokenService for every set of users, sessions, tokens    *)
(* and requests and every lifetime.                                        *)
(***************************************************************************)
EXTENDS TokenService, TLAPS

Good == TypeOK /\ RowsOK

\* What one step may do to the two tables: rows stay, keep their owner and their
\* expiry date, and stay revoked.
RowsPersist ==
  /\ \A s \in Sessions : SessionExists(s) =>
       /\ SessionExists(s)'
       /\ session[s].revoked => session'[s].revoked
       /\ session'[s].user = session[s].user
       /\ session'[s].expiresAt = session[s].expiresAt
  /\ \A t \in Tokens : TokenExists(t) =>
       /\ TokenExists(t)'
       /\ token[t].revoked => token'[t].revoked
       /\ token'[t].session = token[t].session
       /\ token'[t].expiresAt = token[t].expiresAt

(* A row that exists has the fields of its table. *)
LEMMA RowTypes ==
  ASSUME TypeOK
  PROVE  /\ \A s \in Sessions : SessionExists(s) => session[s] \in SessionRow
         /\ \A t \in Tokens : TokenExists(t) => token[t] \in TokenRow
         /\ \A r \in Requests : req[r] \in Request
BY DEF TypeOK, SessionExists, TokenExists

(* The requests a step may put into a slot are well-typed. *)
LEMMA CallTypes ==
  /\ Idle \in Request
  /\ \A step \in Steps, op \in Operations, u \in Users \cup {None},
        s \in Sessions \cup {None}, t \in Tokens \cup {None} :
        Call(step, op, u, s, t) \in Request
  /\ \A q \in Request, step \in Steps : [q EXCEPT !.pc = step] \in Request
<1>1. Idle \in Request
  BY DEF Idle, Request, Steps, Operations
<1>2. \A step \in Steps, op \in Operations, u \in Users \cup {None},
        s \in Sessions \cup {None}, t \in Tokens \cup {None} :
        Call(step, op, u, s, t) \in Request
  BY DEF Call, Request
<1>3. \A q \in Request, step \in Steps : [q EXCEPT !.pc = step] \in Request
  BY DEF Request
<1>. QED BY <1>1, <1>2, <1>3

(* The transaction of issueTokenPair adds one well-typed row and changes at most
   the row it replaces. *)
LEMMA IssueTokenPairRows ==
  ASSUME TypeOK, NEW s \in Sessions, SessionExists(s), NEW t \in Tokens,
         NEW p \in Tokens \cup {None}, p # None => TokenExists(p),
         IssueTokenPair(s, t, p)
  PROVE  /\ token' \in [Tokens -> TokenRow \cup {None}]
         /\ parent' \in [Tokens -> Tokens \cup {None}]
         /\ token'[t].session = s /\ TokenExists(t)' /\ ~token'[t].revoked
         /\ parent'[t] = p
         /\ \A x \in Tokens \ {t} :
              /\ TokenExists(x)' <=> TokenExists(x)
              /\ TokenExists(x) => /\ token'[x].session = token[x].session
                                   /\ token'[x].expiresAt = token[x].expiresAt
                                   /\ token'[x].revoked <=> (token[x].revoked \/ x = p)
              /\ parent'[x] = parent[x]
<1>1. session[s] \in SessionRow
  BY RowTypes
<1>2. TokenExpiry(s) \in Nat
  BY <1>1, TtlAssumption DEF TokenExpiry, TtlDays, SessionRow, TypeOK
<1>. DEFINE new == [session |-> s, expiresAt |-> TokenExpiry(s),
                    revoked |-> FALSE, replacedBy |-> None]
<1>3. new \in TokenRow /\ new # None
  <2>1. new \in TokenRow
    BY <1>2 DEF TokenRow
  <2>. QED BY <2>1, NoneAssumption
<1>4. p # None => /\ p \in Tokens /\ p # t
                  /\ [token[p] EXCEPT !.revoked = TRUE, !.replacedBy = t] \in TokenRow
  <2>. SUFFICES ASSUME p # None
                PROVE  /\ p \in Tokens /\ p # t
                       /\ [token[p] EXCEPT !.revoked = TRUE, !.replacedBy = t] \in TokenRow
    OBVIOUS
  <2>1. p \in Tokens /\ p # t
    BY Zenon DEF IssueTokenPair
  <2>2. token[p] \in TokenRow
    BY <2>1, RowTypes
  <2>. QED BY <2>1, <2>2 DEF TokenRow
<1>5. token' = [x \in Tokens |->
       IF x = t THEN new
       ELSE IF x = p THEN [token[x] EXCEPT !.revoked = TRUE, !.replacedBy = t]
       ELSE token[x]]
  BY Zenon DEF IssueTokenPair
<1>6. \A x \in Tokens : token'[x] \in TokenRow \cup {None}
  BY <1>3, <1>4, <1>5, NoneAssumption, Zenon DEF TypeOK
<1>7. token' \in [Tokens -> TokenRow \cup {None}]
  BY <1>5, <1>6, Zenon
<1>8. token'[t] = new
  BY <1>5, Zenon
<1>9. \A x \in Tokens \ {t} :
        /\ TokenExists(x)' <=> TokenExists(x)
        /\ TokenExists(x) => /\ token'[x].session = token[x].session
                             /\ token'[x].expiresAt = token[x].expiresAt
                             /\ token'[x].revoked <=> (token[x].revoked \/ x = p)
  <2>. SUFFICES ASSUME NEW x \in Tokens \ {t}
                PROVE  /\ TokenExists(x)' <=> TokenExists(x)
                       /\ TokenExists(x) => /\ token'[x].session = token[x].session
                                            /\ token'[x].expiresAt = token[x].expiresAt
                                            /\ token'[x].revoked <=> (token[x].revoked \/ x = p)
    OBVIOUS
  <2>1. CASE x = p
    <3>1. token'[x] = [token[x] EXCEPT !.revoked = TRUE, !.replacedBy = t]
      BY <2>1, <1>5, Zenon
    <3>2. token[x] \in TokenRow
      BY <2>1, RowTypes, NoneAssumption
    <3>3. token'[x] \in TokenRow
      BY <2>1, <3>1, <1>4, NoneAssumption
    <3>. QED BY <2>1, <3>1, <3>2, <3>3, NoneAssumption DEF TokenExists, TokenRow
  <2>2. CASE x # p
    BY <2>2, <1>5, Zenon DEF TokenExists, TypeOK
  <2>. QED BY <2>1, <2>2
<1>10. /\ parent' \in [Tokens -> Tokens \cup {None}]
       /\ parent'[t] = p
       /\ \A x \in Tokens \ {t} : parent'[x] = parent[x]
  BY Zenon DEF IssueTokenPair, TypeOK
<1>. QED BY <1>3, <1>7, <1>8, <1>9, <1>10 DEF TokenExists

-----------------------------------------------------------------------------
(* Type correctness, and the rows that requests refer to *)

(* A request that is not touched keeps naming rows that exist. *)
LEMMA OtherRequests ==
  ASSUME Good, RowsPersist, NEW r \in Requests, req'[r] = req[r]
  PROVE  RequestOK(r)'
<1>1. RequestOK(r) /\ req[r] \in Request
  BY DEF Good, RowsOK, TypeOK
<1>2. \A s \in Sessions : SessionExists(s) => SessionExists(s)' /\ session'[s].user = session[s].user
  BY DEF RowsPersist
<1>3. \A t \in Tokens : TokenExists(t) => TokenExists(t)' /\ token'[t].session = token[t].session
  BY DEF RowsPersist
<1>4. req[r].tok # None => req[r].tok \in Tokens
  BY <1>1 DEF Request
<1>5. req[r].ids \subseteq Sessions
  BY <1>1 DEF Request
<1>. QED BY <1>1, <1>2, <1>3, <1>4, <1>5 DEF RequestOK

(* A step that leaves both tables alone and moves one request on. *)
LEMMA QuietStep ==
  ASSUME Good, UNCHANGED <<session, token, now, parent>>,
         active' \in [Users -> BOOLEAN], overlapped' \subseteq Sessions,
         NEW r \in Requests, NEW q \in Request,
         req' = [req EXCEPT ![r] = q],
         openAtStart' \in [Requests -> SUBSET Sessions],
         RequestOK(r)'
  PROVE  Good' /\ RowsPersist
<1>1. RowsPersist
  BY DEF RowsPersist, SessionExists, TokenExists
<1>2. req' \in [Requests -> Request]
  BY DEF Good, TypeOK
<1>3. TypeOK'
  BY <1>2 DEF Good, TypeOK
<1>4. \A x \in Requests : RequestOK(x)'
  <2>. SUFFICES ASSUME NEW x \in Requests, x # r
                PROVE  RequestOK(x)'
    OBVIOUS
  <2>1. req'[x] = req[x]
    BY DEF Good, TypeOK
  <2>. QED BY <1>1, <2>1, OtherRequests
<1>5. \A t \in Tokens : TokenExists(t)' => SessionExists(token[t].session)'
  BY DEF Good, RowsOK, TokenExists, SessionExists
<1>. QED BY <1>1, <1>3, <1>4, <1>5 DEF Good, RowsOK

(* A step that changes a table and moves one request on. *)
LEMMA TableStep ==
  ASSUME Good, RowsPersist, UNCHANGED now,
         session' \in [Sessions -> SessionRow \cup {None}],
         token' \in [Tokens -> TokenRow \cup {None}],
         parent' \in [Tokens -> Tokens \cup {None}],
         UNCHANGED <<active, overlapped>>,
         NEW r \in Requests, NEW q \in Request,
         req' = [req EXCEPT ![r] = q],
         openAtStart' \in [Requests -> SUBSET Sessions],
         \A t \in Tokens : TokenExists(t)' => SessionExists(token[t].session)',
         RequestOK(r)'
  PROVE  Good'
<1>1. req' \in [Requests -> Request]
  BY DEF Good, TypeOK
<1>2. TypeOK'
  BY <1>1 DEF Good, TypeOK
<1>3. \A x \in Requests : RequestOK(x)'
  <2>. SUFFICES ASSUME NEW x \in Requests, x # r
                PROVE  RequestOK(x)'
    OBVIOUS
  <2>1. req'[x] = req[x]
    BY DEF Good, TypeOK
  <2>. QED BY <2>1, OtherRequests
<1>. QED BY <1>2, <1>3 DEF Good, RowsOK

(* A free slot refers to nothing. *)
LEMMA IdleOK ==
  ASSUME NEW r \in Requests, req'[r] = Idle
  PROVE  RequestOK(r)'
BY DEF RequestOK, Idle

(* A request leaves: refused, failed or answered. *)
LEMMA LeaveStep ==
  ASSUME Good, NEW r \in Requests, Leave(r), UNCHANGED <<db, now, parent, overlapped>>
  PROVE  Good' /\ RowsPersist
<1>1. req' = [req EXCEPT ![r] = Idle] /\ req'[r] = Idle
  BY DEF Leave, Good, TypeOK
<1>2. RequestOK(r)'
  BY <1>1, IdleOK
<1>3. openAtStart' \in [Requests -> SUBSET Sessions]
  BY DEF Leave, Good, TypeOK
<1>4. Idle \in Request
  BY CallTypes
<1>5. active' \in [Users -> BOOLEAN] /\ overlapped' \subseteq Sessions
  BY DEF Good, TypeOK, db
<1>. QED BY <1>1, <1>2, <1>3, <1>4, <1>5, QuietStep DEF db

(* A request arrives, or goes on after a read. *)
LEMMA MoveStep ==
  ASSUME Good, NEW r \in Requests, NEW q \in Request,
         Begin(r, q) \/ Continue(r, q),
         UNCHANGED <<session, token, now, parent>>,
         active' \in [Users -> BOOLEAN], overlapped' \subseteq Sessions,
         req'[r] = q => RequestOK(r)'
  PROVE  Good' /\ RowsPersist
<1>1. req' = [req EXCEPT ![r] = q] /\ req'[r] = q
  BY DEF Begin, Continue, Good, TypeOK
<1>2. openAtStart' \in [Requests -> SUBSET Sessions]
  BY DEF Begin, Continue, Good, TypeOK, OpenSessions
<1>. QED BY <1>1, <1>2, QuietStep

(* The transaction of issueTokenPair, after which the request leaves. *)
LEMMA MintGood ==
  ASSUME Good, NEW r \in Requests, NEW s \in Sessions, SessionExists(s), NEW t \in Tokens,
         NEW p \in Tokens \cup {None}, p # None => TokenExists(p),
         IssueTokenPair(s, t, p), Leave(r), UNCHANGED <<session, active, now, overlapped>>
  PROVE  Good' /\ RowsPersist
<1>0. TypeOK /\ RowsOK
  BY DEF Good
<1>1. /\ token' \in [Tokens -> TokenRow \cup {None}]
      /\ parent' \in [Tokens -> Tokens \cup {None}]
      /\ token'[t].session = s
      /\ \A x \in Tokens \ {t} :
           /\ TokenExists(x)' <=> TokenExists(x)
           /\ TokenExists(x) => /\ token'[x].session = token[x].session
                                /\ token'[x].expiresAt = token[x].expiresAt
                                /\ token'[x].revoked <=> (token[x].revoked \/ x = p)
  BY <1>0, IssueTokenPairRows
<1>2. ~TokenExists(t)
  BY Zenon DEF IssueTokenPair
<1>3. RowsPersist
  BY <1>1, <1>2 DEF RowsPersist, SessionExists
<1>4. \A x \in Tokens : TokenExists(x)' => SessionExists(token[x].session)'
  BY <1>0, <1>1 DEF RowsOK, SessionExists
<1>5. req' = [req EXCEPT ![r] = Idle] /\ req'[r] = Idle
  BY <1>0 DEF Leave, TypeOK
<1>6. RequestOK(r)'
  BY <1>5, IdleOK
<1>7. openAtStart' \in [Requests -> SUBSET Sessions] /\ Idle \in Request
  BY <1>0, CallTypes DEF Leave, TypeOK
<1>8. session' \in [Sessions -> SessionRow \cup {None}]
  BY <1>0 DEF TypeOK
<1>. QED BY <1>1, <1>3, <1>4, <1>5, <1>6, <1>7, <1>8, TableStep

(* The steps of a login: createSession, then the first issueTokenPair. *)
LEMMA IssueStepGood ==
  ASSUME Good, NEW r \in Requests, IssueStep(r)
  PROVE  Good' /\ RowsPersist
<1>0. TypeOK /\ RowsOK /\ req[r] \in Request /\ RequestOK(r)
  BY DEF Good, RowsOK, TypeOK
<1>1. ASSUME NEW u \in Users, BeginLogin(r, u)
      PROVE  Good' /\ RowsPersist
  <2>. DEFINE q == Call("createSession", "login", u, None, None)
  <2>1. q \in Request
    BY CallTypes DEF Steps, Operations
  <2>2. req'[r] = q => RequestOK(r)'
    BY DEF RequestOK, Call
  <2>. QED BY <1>0, <1>1, <2>1, <2>2, MoveStep DEF BeginLogin, db, TypeOK
<1>2. ASSUME NEW s \in Sessions, NEW rememberMe \in BOOLEAN, CreateSession(r, s, rememberMe)
      PROVE  Good' /\ RowsPersist
  <2>. DEFINE row == [user |-> req[r].user, rememberMe |-> rememberMe,
                      expiresAt |-> now + TtlDays(rememberMe), revoked |-> FALSE]
              q == Call("mintFirst", "login", req[r].user, s, None)
  <2>1. req[r].user \in Users
    BY <1>0, <1>2 DEF CreateSession, RequestOK
  <2>2. now + TtlDays(rememberMe) \in Nat
    BY <1>0, TtlAssumption DEF TtlDays, TypeOK
  <2>3. row \in SessionRow
    BY <2>1, <2>2 DEF SessionRow
  <2>4. row # None
    BY <2>3, NoneAssumption
  <2>5. session' = [session EXCEPT ![s] = row]
    BY <1>2 DEF CreateSession
  <2>6. session' \in [Sessions -> SessionRow \cup {None}] /\ session'[s] = row
    BY <2>3, <2>5, <1>0 DEF TypeOK
  <2>7. RowsPersist
    BY <1>2, <2>5, <1>0 DEF RowsPersist, CreateSession, SessionExists, TokenExists, TypeOK
  <2>8. q \in Request
    BY <2>1, CallTypes DEF Steps, Operations
  <2>9. req' = [req EXCEPT ![r] = q] /\ req'[r] = q
    BY <1>2, <1>0 DEF CreateSession, Continue, TypeOK
  <2>10. RequestOK(r)'
    BY <2>9, <2>6, <2>4 DEF RequestOK, Call, SessionExists
  <2>11. \A t \in Tokens : TokenExists(t)' => SessionExists(token[t].session)'
    <3>. SUFFICES ASSUME NEW t \in Tokens, TokenExists(t)'
                  PROVE  SessionExists(token[t].session)'
      OBVIOUS
    <3>1. token' = token
      BY <1>2 DEF CreateSession
    <3>2. TokenExists(t) /\ token[t].session \in Sessions /\ SessionExists(token[t].session)
      BY <3>1, <1>0, RowTypes DEF TokenExists, RowsOK, TokenRow
    <3>. QED BY <3>1, <3>2, <2>7 DEF RowsPersist, SessionExists
  <2>12. /\ openAtStart' \in [Requests -> SUBSET Sessions]
         /\ token' \in [Tokens -> TokenRow \cup {None}]
         /\ parent' \in [Tokens -> Tokens \cup {None}]
         /\ UNCHANGED <<now, active, overlapped>>
    BY <1>2, <1>0 DEF CreateSession, Continue, TypeOK
  <2>. QED BY <2>6, <2>7, <2>8, <2>9, <2>10, <2>11, <2>12, TableStep
<1>3. ASSUME NEW t \in Tokens, MintFirst(r, t)
      PROVE  Good' /\ RowsPersist
  <2>1. /\ req[r].sid \in Sessions /\ SessionExists(req[r].sid)
        /\ IssueTokenPair(req[r].sid, t, None)
    BY <1>3, <1>0 DEF MintFirst, RequestOK
  <2>. QED BY <1>3, <2>1, MintGood DEF MintFirst
<1>. QED BY <1>1, <1>2, <1>3 DEF IssueStep

(* The steps of rotate, with the clean-up after a replayed token. *)
LEMMA RotateStepGood ==
  ASSUME Good, NEW r \in Requests, RotateStep(r)
  PROVE  Good' /\ RowsPersist
<1>0. TypeOK /\ RowsOK /\ req[r] \in Request /\ RequestOK(r)
  BY DEF Good, RowsOK, TypeOK
<1>. DEFINE t == req[r].tok
            s == token[t].session
<1>1. ASSUME t # None
      PROVE  /\ t \in Tokens /\ TokenExists(t)
             /\ s \in Sessions /\ SessionExists(s) /\ session[s].user \in Users
  <2>1. t \in Tokens /\ TokenExists(t)
    BY <1>0, <1>1 DEF RequestOK, Request
  <2>2. s \in Sessions /\ SessionExists(s)
    BY <1>0, <2>1, RowTypes DEF RowsOK, TokenRow
  <2>3. session[s] \in SessionRow
    BY <1>0, <2>2, RowTypes
  <2>4. session[s].user \in Users
    BY <2>3 DEF SessionRow
  <2>. QED BY <2>1, <2>2, <2>4
<1>2. ASSUME NEW t1 \in Tokens \cup {None}, BeginRefresh(r, t1)
      PROVE  Good' /\ RowsPersist
  <2>. DEFINE q == Call("lookup", "refresh", None, None, t1)
  <2>1. q \in Request
    BY CallTypes DEF Steps, Operations
  <2>2. req'[r] = q => RequestOK(r)'
    BY <1>2 DEF RequestOK, Call, BeginRefresh, db, TokenExists
  <2>. QED BY <1>0, <1>2, <2>1, <2>2, MoveStep DEF BeginRefresh, db, TypeOK
<1>3. ASSUME LookupRefuses(r)
      PROVE  Good' /\ RowsPersist
  BY <1>3, LeaveStep DEF LookupRefuses
<1>4. ASSUME LookupDetectsReuse(r)
      PROVE  Good' /\ RowsPersist
  <2>. DEFINE q == [pc |-> "endSessions", op |-> "refresh", user |-> session[s].user,
                    sid |-> s, tok |-> t, ids |-> {s}]
  <2>1. t # None
    BY <1>4 DEF LookupDetectsReuse
  <2>2. q \in Request
    BY <1>1, <2>1 DEF Request, Steps, Operations
  <2>3. req'[r] = q => RequestOK(r)'
    BY <1>1, <2>1, <1>4 DEF RequestOK, LookupDetectsReuse, db, TokenExists, SessionExists
  <2>. QED BY <1>0, <1>4, <2>2, <2>3, MoveStep DEF LookupDetectsReuse, db, TypeOK
<1>5. ASSUME LookupAccepts(r)
      PROVE  Good' /\ RowsPersist
  <2>. DEFINE q == Call("mintNext", "refresh", session[s].user, s, t)
  <2>1. t # None
    BY <1>5 DEF LookupAccepts
  <2>2. q \in Request
    BY <1>1, <2>1, CallTypes DEF Steps, Operations
  <2>3. req'[r] = q => RequestOK(r)'
    BY <1>1, <2>1, <1>5 DEF RequestOK, Call, LookupAccepts, db, TokenExists, SessionExists
  <2>4. overlapped' \subseteq Sessions
    BY <1>0, <1>1, <2>1, <1>5 DEF LookupAccepts, TypeOK
  <2>. QED BY <1>0, <1>5, <2>2, <2>3, <2>4, MoveStep DEF LookupAccepts, db, TypeOK
<1>6. ASSUME NEW t1 \in Tokens, MintNext(r, t1)
      PROVE  Good' /\ RowsPersist
  <2>1. /\ req[r].sid \in Sessions /\ SessionExists(req[r].sid)
        /\ t # None
        /\ IssueTokenPair(req[r].sid, t1, t)
    BY <1>6, <1>0 DEF MintNext, RequestOK
  <2>2. t \in Tokens /\ TokenExists(t)
    BY <1>1, <2>1
  <2>. QED BY <1>6, <2>1, <2>2, MintGood DEF MintNext
<1>. QED BY <1>2, <1>3, <1>4, <1>5, <1>6 DEF RotateStep

(* The two reads of JwtStrategy.validate. *)
LEMMA AccessStepGood ==
  ASSUME Good, NEW r \in Requests, AccessStep(r)
  PROVE  Good' /\ RowsPersist
<1>0. TypeOK /\ RowsOK /\ req[r] \in Request /\ RequestOK(r)
  BY DEF Good, RowsOK, TypeOK
<1>1. ASSUME NEW s \in Sessions, BeginAccess(r, s)
      PROVE  Good' /\ RowsPersist
  <2>. DEFINE q == Call("loadUser", "access", session[s].user, s, None)
  <2>1. SessionExists(s)
    BY <1>0, <1>1 DEF BeginAccess, RowsOK
  <2>2. session[s].user \in Users
    BY <1>0, <2>1, RowTypes DEF SessionRow
  <2>3. q \in Request
    BY <2>2, CallTypes DEF Steps, Operations
  <2>4. req'[r] = q => RequestOK(r)'
    BY <1>1, <2>1 DEF RequestOK, Call, BeginAccess, db, SessionExists
  <2>. QED BY <1>0, <1>1, <2>3, <2>4, MoveStep DEF BeginAccess, db, TypeOK
<1>2. ASSUME NEW step \in {"loadSession", "authorised"}, Goto(r, step),
             req[r].pc \in {"loadUser", "loadSession"},
             UNCHANGED <<db, now, parent, overlapped>>
      PROVE  Good' /\ RowsPersist
  <2>. DEFINE q == [req[r] EXCEPT !.pc = step]
  <2>1. q \in Request
    BY <1>0, CallTypes DEF Steps
  <2>2. req'[r] = q => RequestOK(r)'
    BY <1>0, <1>2 DEF RequestOK, Request, db, SessionExists, TokenExists
  <2>. QED BY <1>0, <1>2, <2>1, <2>2, MoveStep DEF Goto, db, TypeOK
<1>3. CASE LoadUser(r)
  BY <1>3, <1>2, LeaveStep DEF LoadUser
<1>4. CASE LoadSession(r)
  BY <1>4, <1>2, LeaveStep DEF LoadSession
<1>. QED BY <1>1, <1>3, <1>4 DEF AccessStep

(* The transaction of revokeSession and revokeAllUserSessions. *)
LEMMA EndSessionsRows ==
  ASSUME Good, NEW r \in Requests, EndSessions(r)
  PROVE  /\ session' \in [Sessions -> SessionRow \cup {None}]
         /\ token' \in [Tokens -> TokenRow \cup {None}]
         /\ RowsPersist
         /\ \A s \in req[r].ids : session'[s].revoked
         /\ \A s \in Sessions \ req[r].ids : session'[s] = session[s]
         /\ \A t \in Tokens : TokenExists(t)' <=> TokenExists(t)
         /\ \A t \in Tokens : TokenExists(t) /\ token[t].session \in req[r].ids => token'[t].revoked
         /\ \A t \in Tokens : ~LiveToken(t) => token'[t] = token[t]
<1>0. TypeOK /\ RequestOK(r) /\ req[r] \in Request
  BY DEF Good, RowsOK, TypeOK
<1>. DEFINE ids == req[r].ids
            ended(s) == [session[s] EXCEPT !.revoked = TRUE]
            spent(t) == [token[t] EXCEPT !.revoked = TRUE]
<1>1. /\ session' = [s \in Sessions |-> IF s \in ids THEN ended(s) ELSE session[s]]
      /\ token' = [t \in Tokens |->
           IF LiveToken(t) /\ token[t].session \in ids THEN spent(t) ELSE token[t]]
  BY DEF EndSessions
<1>2. ASSUME NEW s \in Sessions, SessionExists(s)
      PROVE  /\ ended(s) \in SessionRow /\ ended(s) # None
             /\ ended(s).revoked /\ ended(s).user = session[s].user
             /\ ended(s).expiresAt = session[s].expiresAt
  <2>1. session[s] \in SessionRow
    BY <1>0, <1>2, RowTypes
  <2>2. /\ ended(s) \in SessionRow
        /\ ended(s).revoked /\ ended(s).user = session[s].user
        /\ ended(s).expiresAt = session[s].expiresAt
    BY <2>1 DEF SessionRow
  <2>. QED BY <2>2, NoneAssumption
<1>3. ASSUME NEW t \in Tokens, TokenExists(t)
      PROVE  /\ spent(t) \in TokenRow /\ spent(t) # None
             /\ spent(t).revoked /\ spent(t).session = token[t].session
             /\ spent(t).expiresAt = token[t].expiresAt
  <2>1. token[t] \in TokenRow
    BY <1>0, <1>3, RowTypes
  <2>2. /\ spent(t) \in TokenRow
        /\ spent(t).revoked /\ spent(t).session = token[t].session
        /\ spent(t).expiresAt = token[t].expiresAt
    BY <2>1 DEF TokenRow
  <2>. QED BY <2>2, NoneAssumption
<1>4. \A s \in ids : s \in Sessions /\ SessionExists(s)
  BY <1>0 DEF RequestOK, Request
<1>5. /\ \A s \in ids : session'[s] = ended(s)
      /\ \A s \in Sessions \ ids : session'[s] = session[s]
  BY <1>1, <1>4
<1>6. session' \in [Sessions -> SessionRow \cup {None}]
  <2>1. \A s \in Sessions : (IF s \in ids THEN ended(s) ELSE session[s]) \in SessionRow \cup {None}
    BY <1>0, <1>2, <1>4 DEF TypeOK
  <2>. QED BY <1>1, <2>1
<1>7. /\ \A t \in Tokens : LiveToken(t) /\ token[t].session \in ids => token'[t] = spent(t)
      /\ \A t \in Tokens : ~(LiveToken(t) /\ token[t].session \in ids) => token'[t] = token[t]
  BY <1>1
<1>8. token' \in [Tokens -> TokenRow \cup {None}]
  <2>1. \A t \in Tokens :
          (IF LiveToken(t) /\ token[t].session \in ids THEN spent(t) ELSE token[t])
            \in TokenRow \cup {None}
    BY <1>0, <1>3 DEF TypeOK, LiveToken, TokenExists
  <2>. QED BY <1>1, <2>1
<1>9. \A s \in Sessions : SessionExists(s) =>
        /\ SessionExists(s)'
        /\ session[s].revoked => session'[s].revoked
        /\ session'[s].user = session[s].user
        /\ session'[s].expiresAt = session[s].expiresAt
  <2>. SUFFICES ASSUME NEW s \in Sessions, SessionExists(s)
                PROVE  /\ SessionExists(s)'
                       /\ session[s].revoked => session'[s].revoked
                       /\ session'[s].user = session[s].user
                       /\ session'[s].expiresAt = session[s].expiresAt
    OBVIOUS
  <2>1. CASE s \in ids
    BY <2>1, <1>2, <1>5 DEF SessionExists
  <2>2. CASE s \notin ids
    BY <2>2, <1>5 DEF SessionExists
  <2>. QED BY <2>1, <2>2
<1>10. \A t \in Tokens :
         /\ TokenExists(t)' <=> TokenExists(t)
         /\ TokenExists(t) =>
              /\ token[t].revoked => token'[t].revoked
              /\ token'[t].session = token[t].session
              /\ token'[t].expiresAt = token[t].expiresAt
  <2>. SUFFICES ASSUME NEW t \in Tokens
                PROVE  /\ TokenExists(t)' <=> TokenExists(t)
                       /\ TokenExists(t) =>
                            /\ token[t].revoked => token'[t].revoked
                            /\ token'[t].session = token[t].session
                            /\ token'[t].expiresAt = token[t].expiresAt
    OBVIOUS
  <2>1. CASE LiveToken(t) /\ token[t].session \in ids
    BY <2>1, <1>3, <1>7 DEF TokenExists, LiveToken
  <2>2. CASE ~(LiveToken(t) /\ token[t].session \in ids)
    BY <2>2, <1>7 DEF TokenExists
  <2>. QED BY <2>1, <2>2
<1>11. \A t \in Tokens : TokenExists(t) /\ token[t].session \in ids => token'[t].revoked
  <2>. SUFFICES ASSUME NEW t \in Tokens, TokenExists(t), token[t].session \in ids
                PROVE  token'[t].revoked
    OBVIOUS
  <2>1. CASE LiveToken(t)
    BY <2>1, <1>3, <1>7
  <2>2. CASE ~LiveToken(t)
    BY <2>2, <1>7 DEF LiveToken, TokenExists
  <2>. QED BY <2>1, <2>2
<1>12. RowsPersist
  BY <1>9, <1>10 DEF RowsPersist
<1>13. \A s \in ids : session'[s].revoked
  <2>. SUFFICES ASSUME NEW s \in ids
                PROVE  session'[s].revoked
    OBVIOUS
  <2>1. session[s] \in SessionRow
    BY <1>0, <1>4, RowTypes
  <2>. QED BY <2>1, <1>5 DEF SessionRow
<1>14. \A t \in Tokens : ~LiveToken(t) => token'[t] = token[t]
  BY <1>7
<1>. QED BY <1>5, <1>6, <1>8, <1>10, <1>11, <1>12, <1>13, <1>14

(* The steps of logout, revokeOwn, revokeSession and revokeAllUserSessions. *)
LEMMA RevokeStepGood ==
  ASSUME Good, NEW r \in Requests, RevokeStep(r)
  PROVE  Good' /\ RowsPersist
<1>0. TypeOK /\ RowsOK /\ req[r] \in Request /\ RequestOK(r)
  BY DEF Good, RowsOK, TypeOK
<1>1. ASSUME NEW t \in Tokens \cup {None}, Logout(r, t)
      PROVE  Good' /\ RowsPersist
  <2>. DEFINE q == [pc |-> "endSessions", op |-> "logout", user |-> req[r].user,
                    sid |-> req[r].sid, tok |-> t, ids |-> {req[r].sid}]
  <2>1. /\ req[r].sid \in Sessions /\ SessionExists(req[r].sid)
        /\ req[r].user = session[req[r].sid].user
    BY <1>0, <1>1 DEF Logout, RequestOK
  <2>2. q \in Request
    BY <1>0, <2>1 DEF Request, Steps, Operations
  <2>3. req'[r] = q => RequestOK(r)'
    BY <1>1, <2>1 DEF RequestOK, Logout, db, SessionExists, TokenExists
  <2>. QED BY <1>0, <1>1, <2>2, <2>3, MoveStep DEF Logout, db, TypeOK
<1>2. ASSUME NEW keepOwn \in BOOLEAN, LogoutAll(r, keepOwn)
      PROVE  Good' /\ RowsPersist
  <2>. DEFINE except == IF keepOwn THEN req[r].sid ELSE None
              q == Call("findLive", "revokeAll", req[r].user, except, None)
  <2>1. /\ req[r].sid \in Sessions /\ SessionExists(req[r].sid)
        /\ req[r].user = session[req[r].sid].user
    BY <1>0, <1>2 DEF LogoutAll, RequestOK
  <2>2. req[r].user \in Users
    BY <1>0, <2>1, RowTypes DEF SessionRow
  <2>3. q \in Request
    BY <2>1, <2>2, CallTypes DEF Steps, Operations
  <2>4. req'[r] = q => RequestOK(r)'
    BY <2>2 DEF RequestOK, Call
  <2>. QED BY <1>0, <1>2, <2>3, <2>4, MoveStep DEF LogoutAll, db, TypeOK
<1>3. ASSUME NEW s \in Sessions, RevokeOwn(r, s)
      PROVE  Good' /\ RowsPersist
  <2>. DEFINE q == [pc |-> "endSessions", op |-> "revokeOwn", user |-> req[r].user,
                    sid |-> s, tok |-> None, ids |-> {s}]
  <2>1. q \in Request
    BY <1>0 DEF Request, Steps, Operations
  <2>2. req'[r] = q => RequestOK(r)'
    BY <1>3 DEF RequestOK, RevokeOwn, OwnSession, db, SessionExists
  <2>. QED BY <1>0, <1>3, <2>1, <2>2, MoveStep DEF RevokeOwn, db, TypeOK
<1>4. ASSUME NEW u \in Users, BeginRevokeAll(r, u) \/ Disable(r, u)
      PROVE  Good' /\ RowsPersist
  <2>. DEFINE q == Call("findLive", "revokeAll", u, None, None)
  <2>1. q \in Request
    BY CallTypes DEF Steps, Operations
  <2>2. req'[r] = q => RequestOK(r)'
    BY DEF RequestOK, Call
  <2>3. active' \in [Users -> BOOLEAN]
    BY <1>0, <1>4 DEF BeginRevokeAll, Disable, db, TypeOK
  <2>. QED BY <1>0, <1>4, <2>1, <2>2, <2>3, MoveStep DEF BeginRevokeAll, Disable, db, TypeOK
<1>5. ASSUME FindLive(r)
      PROVE  Good' /\ RowsPersist
  <2>. DEFINE found == SessionsToEnd(req[r].user, req[r].sid)
              q == [req[r] EXCEPT !.pc = IF found = {} THEN "done" ELSE "endSessions",
                                  !.ids = found]
  <2>1. found \subseteq Sessions /\ \A s \in found : SessionExists(s)
    BY DEF SessionsToEnd
  <2>2. q \in Request
    <3>1. (IF found = {} THEN "done" ELSE "endSessions") \in Steps
      BY DEF Steps
    <3>. QED BY <1>0, <2>1, <3>1, Zenon DEF Request
  <2>3. req'[r] = q => RequestOK(r)'
    <3>. SUFFICES ASSUME req'[r] = q
                  PROVE  RequestOK(r)'
      OBVIOUS
    <3>1. /\ q.pc \in {"done", "endSessions"} /\ q.op = req[r].op /\ q.user = req[r].user
          /\ q.sid = req[r].sid /\ q.tok = req[r].tok /\ q.ids = found
      BY <1>0 DEF Request
    <3>2. UNCHANGED <<session, token>>
      BY <1>5 DEF FindLive, db
    <3>. QED BY <1>0, <2>1, <3>1, <3>2 DEF RequestOK, SessionExists, TokenExists
  <2>. QED BY <1>0, <1>5, <2>2, <2>3, MoveStep DEF FindLive, db, TypeOK
<1>6. ASSUME EndSessions(r)
      PROVE  Good' /\ RowsPersist
  <2>. DEFINE step == IF req[r].op = "logout" /\ req[r].tok # None THEN "lookupToken" ELSE "done"
              q == [req[r] EXCEPT !.pc = step]
  <2>1. /\ session' \in [Sessions -> SessionRow \cup {None}]
        /\ token' \in [Tokens -> TokenRow \cup {None}]
        /\ RowsPersist
        /\ \A t \in Tokens : TokenExists(t)' <=> TokenExists(t)
    BY <1>6, EndSessionsRows
  <2>2. q \in Request
    BY <1>0, CallTypes DEF Steps
  <2>3. req' = [req EXCEPT ![r] = q] /\ req'[r] = q /\ UNCHANGED openAtStart
    BY <1>0, <1>6 DEF EndSessions, Goto, Continue, TypeOK
  <2>4. /\ q.pc = step /\ q.op = req[r].op /\ q.user = req[r].user
        /\ q.sid = req[r].sid /\ q.tok = req[r].tok /\ q.ids = req[r].ids
    BY <1>0 DEF Request
  <2>5. req[r].tok # None => req[r].tok \in Tokens
    BY <1>0 DEF Request
  <2>6. req[r].ids \subseteq Sessions
    BY <1>0 DEF Request
  <2>7. RequestOK(r)'
    BY <1>0, <2>1, <2>3, <2>4, <2>5, <2>6 DEF RequestOK, RowsPersist
  <2>8. \A t \in Tokens : TokenExists(t)' => SessionExists(token[t].session)'
    <3>. SUFFICES ASSUME NEW t \in Tokens, TokenExists(t)'
                  PROVE  SessionExists(token[t].session)'
      OBVIOUS
    <3>1. TokenExists(t) /\ token[t].session \in Sessions /\ SessionExists(token[t].session)
      BY <2>1, <1>0, RowTypes DEF RowsOK, TokenRow
    <3>2. token'[t].session = token[t].session
      BY <2>1, <3>1 DEF RowsPersist
    <3>3. \A s \in Sessions : SessionExists(s) => SessionExists(s)'
      BY <2>1 DEF RowsPersist
    <3>. QED BY <3>1, <3>2, <3>3 DEF SessionExists
  <2>9. /\ openAtStart' \in [Requests -> SUBSET Sessions]
        /\ parent' \in [Tokens -> Tokens \cup {None}]
        /\ UNCHANGED <<now, active, overlapped>>
    BY <1>0, <1>6, <2>3 DEF EndSessions, TypeOK
  <2>. QED BY <2>1, <2>2, <2>3, <2>7, <2>8, <2>9, TableStep
<1>7. ASSUME LookupToken(r)
      PROVE  Good' /\ RowsPersist
  <2>. DEFINE step == IF token[req[r].tok].revoked THEN "done" ELSE "revokeToken"
              q == [req[r] EXCEPT !.pc = step]
  <2>1. q \in Request
    BY <1>0, CallTypes DEF Steps
  <2>2. /\ q.pc = step /\ q.op = req[r].op /\ q.user = req[r].user
        /\ q.sid = req[r].sid /\ q.tok = req[r].tok /\ q.ids = req[r].ids
    BY <1>0 DEF Request
  <2>3. req'[r] = q => RequestOK(r)'
    BY <1>0, <1>7, <2>2 DEF RequestOK, LookupToken, db, SessionExists, TokenExists
  <2>. QED BY <1>0, <1>7, <2>1, <2>3, MoveStep DEF LookupToken, Goto, db, TypeOK
<1>8. ASSUME RevokeToken(r)
      PROVE  Good' /\ RowsPersist
  <2>. DEFINE t == req[r].tok
              q == [req[r] EXCEPT !.pc = "done"]
              spent == [token[t] EXCEPT !.revoked = TRUE]
  <2>1. t \in Tokens /\ TokenExists(t)
    BY <1>0, <1>8 DEF RevokeToken, RequestOK, Request
  <2>2. token[t] \in TokenRow
    BY <1>0, <2>1, RowTypes
  <2>3. /\ spent \in TokenRow /\ spent.session = token[t].session
        /\ spent.expiresAt = token[t].expiresAt /\ spent.revoked
    BY <2>2 DEF TokenRow
  <2>4. /\ token' = [token EXCEPT ![t] = spent]
        /\ UNCHANGED <<session, active, now, parent, overlapped, openAtStart>>
        /\ req' = [req EXCEPT ![r] = q]
    BY <1>8 DEF RevokeToken, Goto, Continue
  <2>. HIDE DEF spent
  <2>5. /\ token' \in [Tokens -> TokenRow \cup {None}]
        /\ token'[t] = spent
        /\ \A x \in Tokens \ {t} : token'[x] = token[x]
    BY <1>0, <2>1, <2>3, <2>4 DEF TypeOK
  <2>6. token'[t] # None
    BY <2>3, <2>5, NoneAssumption
  <2>7. RowsPersist
    BY <2>3, <2>4, <2>5, <2>6 DEF RowsPersist, SessionExists, TokenExists
  <2>8. q \in Request
    BY <1>0, CallTypes DEF Steps
  <2>9. /\ q.pc = "done" /\ q.op = req[r].op /\ q.user = req[r].user
        /\ q.sid = req[r].sid /\ q.tok = req[r].tok /\ q.ids = req[r].ids
    BY <1>0 DEF Request
  <2>10. req'[r] = q
    BY <1>0, <2>4 DEF TypeOK
  <2>11. RequestOK(r)'
    BY <1>0, <2>4, <2>6, <2>9, <2>10, Zenon DEF RequestOK, SessionExists, TokenExists
  <2>12. \A x \in Tokens : TokenExists(x)' => SessionExists(token[x].session)'
    BY <1>0, <2>1, <2>3, <2>4, <2>5 DEF RowsOK, TokenExists, SessionExists
  <2>13. /\ openAtStart' \in [Requests -> SUBSET Sessions]
         /\ parent' \in [Tokens -> Tokens \cup {None}]
         /\ session' \in [Sessions -> SessionRow \cup {None}]
    BY <1>0, <2>4 DEF TypeOK
  <2>. QED BY <2>4, <2>5, <2>7, <2>8, <2>11, <2>12, <2>13, TableStep
<1>. QED BY <1>1, <1>2, <1>3, <1>4, <1>5, <1>6, <1>7, <1>8 DEF RevokeStep

(* No step spoils the types or what the handlers hold, and no row disappears. *)
LEMMA NextGood ==
  ASSUME Good, [Next]_vars
  PROVE  Good' /\ RowsPersist
<1>1. ASSUME NEW r \in Requests, Respond(r) \/ Fail(r)
      PROVE  Good' /\ RowsPersist
  BY <1>1, LeaveStep DEF Respond, Fail
<1>2. ASSUME UNCHANGED <<session, token, req, history>>, now' \in Nat,
             active' \in [Users -> BOOLEAN]
      PROVE  Good' /\ RowsPersist
  <2>1. TypeOK' /\ RowsPersist
    BY <1>2 DEF Good, TypeOK, RowsPersist, SessionExists, TokenExists, history
  <2>2. RowsOK'
    BY <1>2 DEF Good, RowsOK, RequestOK, SessionExists, TokenExists
  <2>. QED BY <2>1, <2>2 DEF Good
<1>3. ASSUME NEW u \in Users, Enable(u)
      PROVE  Good' /\ RowsPersist
  BY <1>2, <1>3 DEF Enable, Good, TypeOK
<1>4. CASE Tick
  BY <1>2, <1>4, TtlAssumption DEF Tick, Good, TypeOK, db
<1>5. CASE UNCHANGED vars
  BY <1>2, <1>5 DEF vars, history, Good, TypeOK
<1>. QED
  BY <1>1, <1>3, <1>4, <1>5, IssueStepGood, RotateStepGood, AccessStepGood, RevokeStepGood
  DEF Next

(* Both hold of the empty tables. *)
LEMMA InitGood == Init => Good
<1>. SUFFICES ASSUME Init
              PROVE  Good
  OBVIOUS
<1>1. Idle \in Request
  BY CallTypes
<1>2. TypeOK
  BY <1>1 DEF Init, TypeOK
<1>3. RowsOK
  BY DEF Init, RowsOK, RequestOK, Idle, TokenExists
<1>. QED BY <1>2, <1>3 DEF Good

(* Every variable keeps its type, and what handlers hold keeps naming rows that
   exist, whatever the interleaving: no handler dereferences a row that is gone. *)
THEOREM GoodInvariant == Spec => []Good
<1>1. Good /\ [Next]_vars => Good'
  BY NextGood
<1>. QED BY InitGood, <1>1, PTL DEF Spec

(* The tables, the clock and what handlers hold keep their types. *)
THEOREM TypeCorrect == Spec => []TypeOK
BY GoodInvariant, PTL DEF Good

(* A revoked session or token never comes back (TokenService only ever sets
   revokedAt), and no row changes its owner or its expiry date. *)
THEOREM RevocationFinal == Spec => RevocationIsFinal
<1>1. Good /\ [Next]_vars => [RowsPersist]_vars
  BY NextGood
<1>2. RevocationIsFinal <=> [][RowsPersist]_vars
  BY DEF RevocationIsFinal, RowsPersist
<1>. QED BY GoodInvariant, <1>1, <1>2, PTL DEF Spec

-----------------------------------------------------------------------------
(* One live token per session *)

\* Nothing a step does in session s can break its chain: no token of s appears
\* or comes back to life, and no request gets ready to mint in s.
ChainUndisturbed(s) ==
  /\ \A t \in Tokens : TokenExists(t)' /\ token'[t].session = s =>
       /\ TokenExists(t) /\ token[t].session = s
       /\ token[t].revoked => token'[t].revoked
  /\ \A r \in Requests :
       (req'[r].pc \in {"mintNext", "mintFirst"} /\ req'[r].sid = s) => req'[r] = req[r]

(* A session in which no token is minted or readied to be keeps its one token. *)
LEMMA ChainKept ==
  ASSUME NEW s \in Sessions, ChainOK(s), ChainUndisturbed(s)
  PROVE  ChainOK(s)'
<1>1. LiveTokensOf(s)' \subseteq LiveTokensOf(s)
  BY DEF ChainUndisturbed, LiveTokensOf, LiveToken, TokenExists
<1>2. \A r \in Requests : Exchange(r, s)' => Exchange(r, s) /\ req'[r] = req[r]
  BY DEF ChainUndisturbed, Exchange
<1>3. \A r \in Requests : FirstMint(r, s)' => FirstMint(r, s)
  BY DEF ChainUndisturbed, FirstMint
<1>4. \A t \in Tokens : TokenExists(t)' /\ token'[t].session = s =>
        TokenExists(t) /\ token[t].session = s
  BY DEF ChainUndisturbed
<1>5. \A t1, t2 \in LiveTokensOf(s)' : t1 = t2
  BY <1>1 DEF ChainOK
<1>6. \A r1, r2 \in Requests : Exchange(r1, s)' /\ Exchange(r2, s)' => r1 = r2
  BY <1>2 DEF ChainOK
<1>7. \A r \in Requests : Exchange(r, s)' => LiveTokensOf(s)' \subseteq {req'[r].tok}
  BY <1>1, <1>2 DEF ChainOK
<1>8. \A r1, r2 \in Requests : FirstMint(r1, s)' /\ FirstMint(r2, s)' => r1 = r2
  BY <1>3 DEF ChainOK
<1>9. \A r \in Requests : FirstMint(r, s)' =>
        \A t \in Tokens : TokenExists(t)' => token'[t].session # s
  BY <1>3, <1>4 DEF ChainOK
<1>. QED BY <1>5, <1>6, <1>7, <1>8, <1>9 DEF ChainOK

(* A step that adds no token and readies no request for minting. *)
LEMMA ChainsKept ==
  ASSUME Good, ChainsOK, RowsPersist, overlapped \subseteq overlapped',
         \A t \in Tokens : TokenExists(t)' => TokenExists(t),
         \A r \in Requests : req'[r].pc \in {"mintNext", "mintFirst"} => req'[r] = req[r]
  PROVE  ChainsOK'
<1>. SUFFICES ASSUME NEW s \in Sessions \ overlapped'
              PROVE  ChainOK(s)'
  BY DEF ChainsOK
<1>1. ChainOK(s)
  BY DEF ChainsOK
<1>2. ChainUndisturbed(s)
  BY DEF ChainUndisturbed, RowsPersist
<1>. QED BY <1>1, <1>2, ChainKept

(* A new session has no token, and one request that will mint its first. *)
LEMMA CreateSessionChains ==
  ASSUME Good, ChainsOK, NEW r \in Requests, NEW s0 \in Sessions, NEW rememberMe \in BOOLEAN,
         CreateSession(r, s0, rememberMe)
  PROVE  ChainsOK'
<1>0. TypeOK /\ RowsOK
  BY DEF Good
<1>. DEFINE q == Call("mintFirst", "login", req[r].user, s0, None)
<1>1. /\ req' = [req EXCEPT ![r] = q] /\ token' = token /\ overlapped' = overlapped
      /\ ~SessionExists(s0)
  BY DEF CreateSession, Continue
<1>2. req'[r] = q /\ \A x \in Requests \ {r} : req'[x] = req[x]
  BY <1>0, <1>1 DEF TypeOK
<1>. SUFFICES ASSUME NEW s \in Sessions \ overlapped
              PROVE  ChainOK(s)'
  BY <1>1 DEF ChainsOK
<1>3. CASE s # s0
  <2>1. ChainUndisturbed(s)
    BY <1>1, <1>2, <1>3 DEF ChainUndisturbed, TokenExists, Call
  <2>. QED BY <2>1, ChainKept DEF ChainsOK
<1>4. CASE s = s0
  <2>1. \A t \in Tokens : TokenExists(t)' => token'[t].session # s
    BY <1>0, <1>1, <1>4 DEF RowsOK, TokenExists
  <2>2. LiveTokensOf(s)' = {}
    BY <2>1 DEF LiveTokensOf, LiveToken, TokenExists
  <2>3. \A x \in Requests \ {r} : ~Exchange(x, s)' /\ ~FirstMint(x, s)'
    BY <1>0, <1>1, <1>2, <1>4 DEF RowsOK, RequestOK, Exchange, FirstMint
  <2>4. ~Exchange(r, s)'
    BY <1>2 DEF Exchange, Call
  <2>. QED BY <2>1, <2>2, <2>3, <2>4 DEF ChainOK
<1>. QED BY <1>3, <1>4

(* Minting: the session had no other live token than the one that is retired, and
   no other request is about to mint in it. *)
LEMMA MintChains ==
  ASSUME Good, ChainsOK, NEW r \in Requests, NEW t \in Tokens, NEW p \in Tokens \cup {None},
         NEW s0 \in Sessions, SessionExists(s0), p # None => TokenExists(p) /\ token[p].session = s0,
         IssueTokenPair(s0, t, p), Leave(r), UNCHANGED overlapped,
         \/ FirstMint(r, s0) /\ p = None
         \/ Exchange(r, s0) /\ p = req[r].tok /\ p # None
  PROVE  ChainsOK'
<1>0. TypeOK /\ RowsOK
  BY DEF Good
<1>1. /\ token'[t].session = s0 /\ ~token'[t].revoked /\ TokenExists(t)'
      /\ \A x \in Tokens \ {t} :
           /\ TokenExists(x)' <=> TokenExists(x)
           /\ TokenExists(x) => /\ token'[x].session = token[x].session
                                /\ token'[x].revoked <=> (token[x].revoked \/ x = p)
  BY <1>0, IssueTokenPairRows
<1>2. req'[r] = Idle /\ \A x \in Requests \ {r} : req'[x] = req[x]
  BY <1>0 DEF Leave, TypeOK
<1>. SUFFICES ASSUME NEW s \in Sessions \ overlapped
              PROVE  ChainOK(s)'
  BY DEF ChainsOK
<1>3. ChainOK(s)
  BY DEF ChainsOK
<1>4. CASE s # s0
  <2>1. ChainUndisturbed(s)
    BY <1>1, <1>2, <1>4 DEF ChainUndisturbed, Idle
  <2>. QED BY <1>3, <2>1, ChainKept
<1>5. CASE s = s0
  <2>1. \A x \in Tokens : LiveToken(x) /\ token[x].session = s => x = p
    <3>1. CASE FirstMint(r, s0)
      BY <1>3, <1>5, <3>1 DEF ChainOK, LiveToken, TokenExists
    <3>2. CASE Exchange(r, s0) /\ p = req[r].tok
      BY <1>3, <1>5, <3>2 DEF ChainOK, LiveTokensOf
    <3>. QED BY <3>1, <3>2
  <2>2. \A x \in LiveTokensOf(s)' : x = t
    BY <1>1, <2>1 DEF LiveTokensOf, LiveToken, TokenExists
  <2>3. \A x \in Requests : ~Exchange(x, s)' /\ ~FirstMint(x, s)'
    <3>. SUFFICES ASSUME NEW x \in Requests
                  PROVE  ~Exchange(x, s)' /\ ~FirstMint(x, s)'
      OBVIOUS
    <3>1. CASE x = r
      BY <1>2, <3>1 DEF Exchange, FirstMint, Idle
    <3>2. CASE x # r
      <4>1. (Exchange(x, s)' <=> Exchange(x, s)) /\ (FirstMint(x, s)' <=> FirstMint(x, s))
        BY <1>2, <3>2 DEF Exchange, FirstMint
      <4>2. Exchange(x, s) =>
              req[x].tok \in Tokens /\ TokenExists(req[x].tok) /\ token[req[x].tok].session = s
        BY <1>0 DEF RowsOK, RequestOK, Exchange, TypeOK, Request
      <4>3. CASE FirstMint(r, s0)
        BY <1>3, <1>5, <3>2, <4>1, <4>2, <4>3 DEF ChainOK
      <4>4. CASE Exchange(r, s0) /\ p = req[r].tok /\ p # None
        BY <1>3, <1>5, <3>2, <4>1, <4>4 DEF ChainOK
      <4>. QED BY <4>3, <4>4
    <3>. QED BY <3>1, <3>2
  <2>. QED BY <2>2, <2>3 DEF ChainOK
<1>. QED BY <1>4, <1>5

(* Passing the lookup: another request that is about to mint in the session would
   be about to retire the same token, which is an overlap. *)
LEMMA LookupChains ==
  ASSUME Good, ChainsOK, NEW r \in Requests, LookupAccepts(r)
  PROVE  ChainsOK'
<1>0. TypeOK /\ RowsOK /\ RequestOK(r) /\ req[r] \in Request
  BY DEF Good, RowsOK, TypeOK
<1>. DEFINE t == req[r].tok
            s0 == token[t].session
            q == Call("mintNext", "refresh", session[s0].user, s0, t)
<1>1. t \in Tokens /\ LiveToken(t) /\ s0 \in Sessions
  <2>1. t \in Tokens /\ LiveToken(t) /\ TokenExists(t)
    BY <1>0 DEF LookupAccepts, Request, LiveToken, TokenExists
  <2>. QED BY <1>0, <2>1, RowTypes DEF TokenRow
<1>2. /\ req' = [req EXCEPT ![r] = q] /\ token' = token
      /\ overlapped' = IF Exchanging(t) THEN overlapped \cup {s0} ELSE overlapped
  BY DEF LookupAccepts, Continue, db
<1>3. req'[r] = q /\ \A x \in Requests \ {r} : req'[x] = req[x]
  BY <1>0, <1>2 DEF TypeOK
<1>4. q.pc = "mintNext" /\ q.sid = s0 /\ q.tok = t
  BY DEF Call
<1>5. req[r].pc = "lookup"
  BY DEF LookupAccepts
<1>. HIDE DEF q
<1>. SUFFICES ASSUME NEW s \in Sessions \ overlapped'
              PROVE  ChainOK(s)'
  BY DEF ChainsOK
<1>6. ChainOK(s)
  BY <1>2 DEF ChainsOK
<1>7. CASE s # s0
  <2>1. ChainUndisturbed(s)
    BY <1>2, <1>3, <1>4, <1>7 DEF ChainUndisturbed, TokenExists
  <2>. QED BY <1>6, <2>1, ChainKept
<1>8. CASE s = s0
  <2>1. ~Exchanging(t)
    BY <1>2, <1>8
  <2>2. LiveTokensOf(s) \subseteq {t} /\ t \in LiveTokensOf(s)
    BY <1>1, <1>6, <1>8 DEF ChainOK, LiveTokensOf
  <2>3. \A x \in Requests : ~Exchange(x, s)
    BY <1>6, <2>1, <2>2 DEF ChainOK, Exchanging, Exchange
  <2>4. \A x \in Requests \ {r} : ~Exchange(x, s)'
    BY <1>3, <2>3 DEF Exchange
  <2>5. LiveTokensOf(s)' = LiveTokensOf(s)
    BY <1>2 DEF LiveTokensOf, LiveToken
  <2>6. \A x \in Requests : ~FirstMint(x, s)
    BY <1>1, <1>6, <1>8 DEF ChainOK, LiveToken, TokenExists
  <2>7. \A x \in Requests : ~FirstMint(x, s)'
    BY <1>3, <1>4, <2>6 DEF FirstMint
  <2>8. req'[r].tok = t
    BY <1>3, <1>4
  <2>. QED BY <2>2, <2>4, <2>5, <2>7, <2>8 DEF ChainOK
<1>. QED BY <1>7, <1>8

(* Leaving and every other move of a request. *)
LEMMA MoveChains ==
  ASSUME Good, ChainsOK, RowsPersist, overlapped' = overlapped,
         \A t \in Tokens : TokenExists(t)' => TokenExists(t),
         NEW r \in Requests, NEW q, req' = [req EXCEPT ![r] = q],
         q.pc \notin {"mintNext", "mintFirst"}
  PROVE  ChainsOK'
<1>1. req'[r] = q /\ \A x \in Requests \ {r} : req'[x] = req[x]
  BY DEF Good, TypeOK
<1>. QED BY <1>1, ChainsKept

(* No step gives a session without overlapping exchanges a second live token. *)
LEMMA NextChains ==
  ASSUME Good, ChainsOK, [Next]_vars
  PROVE  ChainsOK'
<1>0. TypeOK /\ RowsOK /\ RowsPersist
  BY NextGood DEF Good
<1>1. ASSUME UNCHANGED <<token, req, overlapped>>
      PROVE  ChainsOK'
  BY <1>0, <1>1, ChainsKept DEF TokenExists
<1>2. ASSUME NEW r \in Requests, Leave(r), UNCHANGED <<token, overlapped>>
      PROVE  ChainsOK'
  <2>1. req' = [req EXCEPT ![r] = Idle] /\ Idle.pc \notin {"mintNext", "mintFirst"}
    BY <1>2 DEF Leave, Idle
  <2>. QED BY <1>0, <1>2, <2>1, MoveChains DEF TokenExists
<1>3. ASSUME NEW r \in Requests, NEW q, Begin(r, q) \/ Continue(r, q),
             UNCHANGED <<token, overlapped>>, q.pc \notin {"mintNext", "mintFirst"}
      PROVE  ChainsOK'
  <2>1. req' = [req EXCEPT ![r] = q]
    BY <1>3 DEF Begin, Continue
  <2>. QED BY <1>0, <1>3, <2>1, MoveChains DEF TokenExists
<1>4. ASSUME NEW r \in Requests, IssueStep(r)
      PROVE  ChainsOK'
  <2>1. ASSUME NEW u \in Users, BeginLogin(r, u)
        PROVE  ChainsOK'
    BY <1>3, <2>1 DEF BeginLogin, Call, db
  <2>2. ASSUME NEW t \in Tokens, MintFirst(r, t)
        PROVE  ChainsOK'
    <3>1. /\ req[r].sid \in Sessions /\ SessionExists(req[r].sid)
          /\ IssueTokenPair(req[r].sid, t, None) /\ Leave(r) /\ UNCHANGED overlapped
          /\ FirstMint(r, req[r].sid)
      BY <1>0, <2>2 DEF MintFirst, RowsOK, RequestOK, FirstMint
    <3>. QED BY <3>1, MintChains
  <2>. QED BY <1>4, <2>1, <2>2, CreateSessionChains DEF IssueStep
<1>5. ASSUME NEW r \in Requests, RotateStep(r)
      PROVE  ChainsOK'
  <2>1. ASSUME NEW t \in Tokens \cup {None}, BeginRefresh(r, t)
        PROVE  ChainsOK'
    BY <1>3, <2>1 DEF BeginRefresh, Call, db
  <2>2. CASE LookupRefuses(r)
    BY <1>2, <2>2 DEF LookupRefuses, db
  <2>3. CASE LookupDetectsReuse(r)
    BY <1>3, <2>3 DEF LookupDetectsReuse, db
  <2>4. ASSUME NEW t \in Tokens, MintNext(r, t)
        PROVE  ChainsOK'
    <3>. DEFINE p == req[r].tok
                s == req[r].sid
    <3>1. /\ s \in Sessions /\ SessionExists(s)
          /\ p \in Tokens /\ p # None /\ TokenExists(p) /\ token[p].session = s
          /\ IssueTokenPair(s, t, p) /\ Leave(r) /\ UNCHANGED overlapped
          /\ Exchange(r, s)
      BY <1>0, <2>4 DEF MintNext, RowsOK, RequestOK, Exchange, TypeOK, Request
    <3>. HIDE DEF p, s
    <3>2. p = req[r].tok
      BY DEF p
    <3>. QED BY <3>1, <3>2, MintChains
  <2>. QED BY <1>5, <2>1, <2>2, <2>3, <2>4, LookupChains DEF RotateStep
<1>6. ASSUME NEW r \in Requests, AccessStep(r)
      PROVE  ChainsOK'
  <2>1. ASSUME NEW s \in Sessions, BeginAccess(r, s)
        PROVE  ChainsOK'
    BY <1>3, <2>1 DEF BeginAccess, Call, db
  <2>2. ASSUME NEW step \in {"loadSession", "authorised"}, Goto(r, step), UNCHANGED <<token, overlapped>>
        PROVE  ChainsOK'
    <3>1. [req[r] EXCEPT !.pc = step].pc = step
      BY <1>0 DEF TypeOK, Request
    <3>. QED BY <1>3, <2>2, <3>1 DEF Goto
  <2>3. CASE LoadUser(r)
    BY <1>2, <2>2, <2>3 DEF LoadUser, db
  <2>4. CASE LoadSession(r)
    BY <1>2, <2>2, <2>4 DEF LoadSession, db
  <2>. QED BY <1>6, <2>1, <2>3, <2>4 DEF AccessStep
<1>7. ASSUME NEW r \in Requests, RevokeStep(r)
      PROVE  ChainsOK'
  <2>0. req[r] \in Request
    BY <1>0 DEF TypeOK
  <2>1. ASSUME NEW t \in Tokens \cup {None}, Logout(r, t)
        PROVE  ChainsOK'
    BY <1>3, <2>1 DEF Logout, db
  <2>2. ASSUME NEW keepOwn \in BOOLEAN, LogoutAll(r, keepOwn)
        PROVE  ChainsOK'
    BY <1>3, <2>2 DEF LogoutAll, Call, db
  <2>3. ASSUME NEW s \in Sessions, RevokeOwn(r, s)
        PROVE  ChainsOK'
    BY <1>3, <2>3 DEF RevokeOwn, db
  <2>4. ASSUME NEW u \in Users, BeginRevokeAll(r, u) \/ Disable(r, u)
        PROVE  ChainsOK'
    BY <1>3, <2>4 DEF BeginRevokeAll, Disable, Call, db
  <2>5. CASE FindLive(r)
    <3>. DEFINE ids == SessionsToEnd(req[r].user, req[r].sid)
                step == IF ids = {} THEN "done" ELSE "endSessions"
                q == [req[r] EXCEPT !.pc = step, !.ids = ids]
    <3>1. q.pc = step
      BY <2>0 DEF Request
    <3>2. Continue(r, q) /\ UNCHANGED <<token, overlapped>>
      BY <2>5 DEF FindLive, db
    <3>3. step \notin {"mintNext", "mintFirst"}
      OBVIOUS
    <3>. HIDE DEF q, step
    <3>. QED BY <1>3, <3>1, <3>2, <3>3
  <2>6. ASSUME NEW step \in {"lookupToken", "revokeToken", "done"}, Goto(r, step),
               \A t \in Tokens : TokenExists(t)' => TokenExists(t), UNCHANGED overlapped
        PROVE  ChainsOK'
    <3>. DEFINE q == [req[r] EXCEPT !.pc = step]
    <3>1. q.pc = step /\ req' = [req EXCEPT ![r] = q]
      BY <2>0, <2>6 DEF Request, Goto, Continue
    <3>. HIDE DEF q
    <3>. QED BY <1>0, <2>6, <3>1, MoveChains
  <2>7. CASE EndSessions(r)
    BY <2>6, <2>7, EndSessionsRows DEF EndSessions
  <2>8. CASE LookupToken(r)
    BY <2>6, <2>8 DEF LookupToken, db, TokenExists
  <2>9. CASE RevokeToken(r)
    <3>1. req[r].tok \in Tokens /\ TokenExists(req[r].tok)
      BY <1>0, <2>0, <2>9 DEF RevokeToken, RowsOK, RequestOK, Request
    <3>2. \A t \in Tokens : TokenExists(t)' => TokenExists(t)
      BY <1>0, <2>9, <3>1 DEF RevokeToken, TypeOK, TokenExists
    <3>. QED BY <2>6, <2>9, <3>2 DEF RevokeToken
  <2>. QED BY <1>7, <2>1, <2>2, <2>3, <2>4, <2>5, <2>7, <2>8, <2>9 DEF RevokeStep
<1>8. ASSUME NEW r \in Requests, Respond(r) \/ Fail(r)
      PROVE  ChainsOK'
  BY <1>2, <1>8 DEF Respond, Fail, db
<1>9. ASSUME NEW u \in Users, Enable(u)
      PROVE  ChainsOK'
  BY <1>1, <1>9 DEF Enable, history
<1>10. CASE Tick
  BY <1>1, <1>10 DEF Tick, db, history
<1>11. CASE UNCHANGED vars
  BY <1>1, <1>11 DEF vars
<1>. QED BY <1>4, <1>5, <1>6, <1>7, <1>8, <1>9, <1>10, <1>11 DEF Next

(* A session has at most one live refresh token unless two exchanges of one token
   overlapped in it: issueTokenPair retires the token it replaces in the same
   transaction, and the lookup of rotate lets only a live token through. *)
THEOREM OneLiveToken == Spec => []OneLiveTokenUnlessOverlap
<1>1. Init => ChainsOK
  BY DEF Init, ChainsOK, ChainOK, LiveTokensOf, LiveToken, Exchange, FirstMint, Idle, TokenExists
<1>2. Good /\ ChainsOK /\ [Next]_vars => ChainsOK'
  BY NextChains
<1>3. ChainsOK => OneLiveTokenUnlessOverlap
  BY DEF ChainsOK, ChainOK, OneLiveTokenUnlessOverlap
<1>. QED BY GoodInvariant, <1>1, <1>2, <1>3, PTL DEF Spec

-----------------------------------------------------------------------------
(* Requests that begin after a session ended are not let through *)

(* A session that is open after a step was open before it. *)
LEMMA OpenBefore ==
  ASSUME Good, RowsPersist, now' \in Nat, now <= now',
         NEW s \in Sessions, SessionExists(s), SessionOpen(s)'
  PROVE  SessionOpen(s)
<1>1. session[s] \in SessionRow /\ now \in Nat
  BY RowTypes DEF Good, TypeOK
<1>2. session[s].expiresAt \in Nat
  BY <1>1 DEF SessionRow
<1>3. session'[s].expiresAt = session[s].expiresAt /\ session'[s].expiresAt > now'
  BY DEF RowsPersist, SessionOpen
<1>4. session[s].expiresAt > now
  BY <1>1, <1>2, <1>3
<1>5. ~session[s].revoked
  BY DEF RowsPersist, SessionOpen
<1>. QED BY <1>4, <1>5 DEF SessionOpen, SessionExists

Watching == {"lookup", "loadUser", "loadSession", "mintNext", "authorised"}

(* A request that stays where it is, or goes where no entry is at stake. *)
LEMMA EntryKept ==
  ASSUME Good, EntriesOK, RowsPersist, now' \in Nat, now <= now', NEW r \in Requests,
         \/ req'[r] = req[r] /\ openAtStart'[r] = openAtStart[r]
         \/ req'[r].pc \notin Watching
  PROVE  EntryOK(r)'
<1>1. CASE req'[r].pc \notin Watching
  BY <1>1 DEF EntryOK, Watching
<1>2. CASE req'[r] = req[r] /\ openAtStart'[r] = openAtStart[r]
  <2>0. EntryOK(r) /\ RequestOK(r) /\ req[r] \in Request
    BY DEF EntriesOK, Good, RowsOK, TypeOK
  <2>1. CASE req[r].pc = "lookup" /\ req[r].tok # None
    <3>. DEFINE t == req[r].tok
                s == token[t].session
    <3>1. t \in Tokens /\ TokenExists(t)
      BY <2>0, <2>1 DEF RequestOK, Request
    <3>2. s \in Sessions /\ SessionExists(s) /\ token'[t].session = s
      BY <3>1, RowTypes DEF Good, RowsOK, TokenRow, RowsPersist
    <3>3. SessionOpen(s)' => SessionOpen(s)
      <4>. HIDE DEF s
      <4>1. ASSUME NEW x \in Sessions, SessionExists(x)
            PROVE  SessionOpen(x)' => SessionOpen(x)
        BY <4>1, OpenBefore
      <4>2. PICK x \in Sessions : x = token[t].session /\ SessionExists(x)
        BY <3>2 DEF s
      <4>3. SessionOpen(x)' <=> SessionOpen(token[t].session)'
        BY <1>2, <4>2, <3>2 DEF SessionOpen, s
      <4>. QED BY <4>1, <4>2, <4>3 DEF s
    <3>. QED BY <1>2, <2>0, <2>1, <3>2, <3>3 DEF EntryOK
  <2>2. CASE req[r].pc \in {"loadUser", "loadSession"}
    <3>1. req[r].sid \in Sessions /\ SessionExists(req[r].sid)
      BY <2>0, <2>2 DEF RequestOK
    <3>2. PICK x \in Sessions : x = req[r].sid /\ SessionExists(x)
      BY <3>1
    <3>3. SessionOpen(x)' => SessionOpen(x)
      BY <3>2, OpenBefore
    <3>. QED BY <1>2, <2>0, <2>2, <3>2, <3>3 DEF EntryOK, SessionOpen
  <2>. QED BY <1>2, <2>0, <2>1, <2>2 DEF EntryOK
<1>. QED BY <1>1, <1>2

(* A request that moves on is the only one whose entry is at stake. *)
LEMMA EntryMoves ==
  ASSUME Good, EntriesOK, RowsPersist, UNCHANGED now, NEW r \in Requests, NEW q,
         Begin(r, q) \/ Continue(r, q) \/ (Leave(r) /\ q = Idle),
         q.pc \notin Watching \/ EntryOK(r)'
  PROVE  EntriesOK'
<1>1. req'[r] = q
  BY DEF Good, TypeOK, Begin, Continue, Leave
<1>2. \A x \in Requests \ {r} : req'[x] = req[x] /\ openAtStart'[x] = openAtStart[x]
  BY DEF Good, TypeOK, Begin, Continue, Leave
<1>3. now' \in Nat /\ now <= now'
  BY DEF Good, TypeOK
<1>. QED BY <1>1, <1>2, <1>3, EntryKept DEF EntriesOK

(* No step lets a request find open a session that was not when it began. *)
LEMMA NextEntries ==
  ASSUME Good, EntriesOK, [Next]_vars
  PROVE  EntriesOK'
<1>0. TypeOK /\ RowsOK /\ RowsPersist
  BY NextGood DEF Good
<1>1. ASSUME UNCHANGED <<req, openAtStart>>, now' \in Nat, now <= now'
      PROVE  EntriesOK'
  BY <1>0, <1>1, EntryKept DEF EntriesOK
<1>2. ASSUME NEW r \in Requests, Leave(r), UNCHANGED now
      PROVE  EntriesOK'
  <2>1. Idle.pc \notin Watching
    BY DEF Idle, Watching
  <2>. QED BY <1>0, <1>2, <2>1, EntryMoves
<1>3. ASSUME NEW r \in Requests, NEW q, Begin(r, q) \/ Continue(r, q), UNCHANGED now,
             q.pc \notin Watching
      PROVE  EntriesOK'
  BY <1>0, <1>3, EntryMoves
<1>4. ASSUME NEW r \in Requests, IssueStep(r)
      PROVE  EntriesOK'
  <2>1. ASSUME NEW u \in Users, BeginLogin(r, u)
        PROVE  EntriesOK'
    BY <1>3, <2>1 DEF BeginLogin, Call, Watching
  <2>2. ASSUME NEW s \in Sessions, NEW rememberMe \in BOOLEAN, CreateSession(r, s, rememberMe)
        PROVE  EntriesOK'
    BY <1>3, <2>2 DEF CreateSession, Call, Watching
  <2>3. ASSUME NEW t \in Tokens, MintFirst(r, t)
        PROVE  EntriesOK'
    BY <1>2, <2>3 DEF MintFirst
  <2>. QED BY <1>4, <2>1, <2>2, <2>3 DEF IssueStep
<1>5. ASSUME NEW r \in Requests, RotateStep(r)
      PROVE  EntriesOK'
  <2>1. ASSUME NEW t \in Tokens \cup {None}, BeginRefresh(r, t)
        PROVE  EntriesOK'
    <3>. DEFINE q == Call("lookup", "refresh", None, None, t)
    <3>1. /\ Begin(r, q) /\ UNCHANGED <<session, token, now>>
          /\ req'[r] = q /\ openAtStart'[r] = OpenSessions
          /\ t # None => TokenExists(t)
      BY <1>0, <2>1 DEF BeginRefresh, Begin, db, TypeOK
    <3>2. t # None => token[t].session \in Sessions
      BY <1>0, <2>1, <3>1, RowTypes DEF TokenRow
    <3>3. EntryOK(r)'
      BY <3>1, <3>2 DEF EntryOK, Call, OpenSessions, SessionOpen
    <3>. QED BY <1>0, <3>1, <3>3, EntryMoves
  <2>2. CASE LookupRefuses(r)
    BY <1>2, <2>2 DEF LookupRefuses
  <2>3. CASE LookupDetectsReuse(r)
    BY <1>3, <2>3 DEF LookupDetectsReuse, Watching
  <2>4. CASE LookupAccepts(r)
    <3>. DEFINE t == req[r].tok
                s == token[t].session
                q == Call("mintNext", "refresh", session[s].user, s, t)
    <3>1. /\ Continue(r, q) /\ UNCHANGED now
          /\ req'[r] = q /\ openAtStart'[r] = openAtStart[r]
          /\ req[r].pc = "lookup" /\ t # None /\ SessionOpen(s)
      BY <1>0, <2>4 DEF LookupAccepts, Continue, MayRotate, TypeOK
    <3>2. s \in openAtStart[r]
      BY <3>1 DEF EntriesOK, EntryOK
    <3>3. q.pc = "mintNext" /\ q.sid = s
      BY DEF Call
    <3>. HIDE DEF q, s, t
    <3>4. EntryOK(r)'
      BY <3>1, <3>2, <3>3 DEF EntryOK
    <3>. QED BY <1>0, <3>1, <3>4, EntryMoves
  <2>5. ASSUME NEW t \in Tokens, MintNext(r, t)
        PROVE  EntriesOK'
    BY <1>2, <2>5 DEF MintNext
  <2>. QED BY <1>5, <2>1, <2>2, <2>3, <2>4, <2>5 DEF RotateStep
<1>6. ASSUME NEW r \in Requests, AccessStep(r)
      PROVE  EntriesOK'
  <2>1. ASSUME NEW s \in Sessions, BeginAccess(r, s)
        PROVE  EntriesOK'
    <3>. DEFINE q == Call("loadUser", "access", session[s].user, s, None)
    <3>1. /\ Begin(r, q) /\ UNCHANGED <<session, now>>
          /\ req'[r] = q /\ openAtStart'[r] = OpenSessions
      BY <1>0, <2>1 DEF BeginAccess, Begin, db, TypeOK
    <3>2. EntryOK(r)'
      BY <3>1 DEF EntryOK, Call, OpenSessions, SessionOpen
    <3>. QED BY <1>0, <3>1, <3>2, EntryMoves
  <2>2. ASSUME NEW step \in {"loadSession", "authorised"}, Goto(r, step),
               UNCHANGED <<session, now>>,
               \/ req[r].pc = "loadUser" /\ step = "loadSession"
               \/ req[r].pc = "loadSession" /\ SessionOpen(req[r].sid)
        PROVE  EntriesOK'
    <3>. DEFINE q == [req[r] EXCEPT !.pc = step]
    <3>1. Continue(r, q) /\ req'[r] = q /\ openAtStart'[r] = openAtStart[r]
      BY <1>0, <2>2 DEF Goto, Continue, TypeOK
    <3>2. q.pc = step /\ q.sid = req[r].sid
      BY <1>0 DEF TypeOK, Request
    <3>3. EntryOK(r)
      BY DEF EntriesOK
    <3>. HIDE DEF q
    <3>4. EntryOK(r)'
      BY <2>2, <3>1, <3>2, <3>3 DEF EntryOK, SessionOpen
    <3>. QED BY <1>0, <2>2, <3>1, <3>4, EntryMoves
  <2>3. CASE LoadUser(r)
    BY <1>2, <2>2, <2>3 DEF LoadUser, db
  <2>4. CASE LoadSession(r)
    BY <1>2, <2>2, <2>4 DEF LoadSession, db
  <2>. QED BY <1>6, <2>1, <2>3, <2>4 DEF AccessStep
<1>7. ASSUME NEW r \in Requests, RevokeStep(r)
      PROVE  EntriesOK'
  <2>0. req[r] \in Request
    BY <1>0 DEF TypeOK
  <2>1. ASSUME NEW t \in Tokens \cup {None}, Logout(r, t)
        PROVE  EntriesOK'
    BY <1>3, <2>1 DEF Logout, Watching
  <2>2. ASSUME NEW keepOwn \in BOOLEAN, LogoutAll(r, keepOwn)
        PROVE  EntriesOK'
    BY <1>3, <2>2 DEF LogoutAll, Call, Watching
  <2>3. ASSUME NEW s \in Sessions, RevokeOwn(r, s)
        PROVE  EntriesOK'
    BY <1>3, <2>3 DEF RevokeOwn, Watching
  <2>4. ASSUME NEW u \in Users, BeginRevokeAll(r, u) \/ Disable(r, u)
        PROVE  EntriesOK'
    BY <1>3, <2>4 DEF BeginRevokeAll, Disable, Call, Watching
  <2>5. CASE FindLive(r)
    <3>. DEFINE ids == SessionsToEnd(req[r].user, req[r].sid)
                step == IF ids = {} THEN "done" ELSE "endSessions"
                q == [req[r] EXCEPT !.pc = step, !.ids = ids]
    <3>1. q.pc = step
      BY <2>0 DEF Request
    <3>2. Continue(r, q) /\ UNCHANGED now
      BY <2>5 DEF FindLive
    <3>3. step \notin Watching
      BY DEF Watching
    <3>. HIDE DEF q, step
    <3>. QED BY <1>3, <3>1, <3>2, <3>3
  <2>6. ASSUME NEW step \in {"lookupToken", "revokeToken", "done"}, Goto(r, step), UNCHANGED now
        PROVE  EntriesOK'
    <3>. DEFINE q == [req[r] EXCEPT !.pc = step]
    <3>1. q.pc = step /\ Continue(r, q)
      BY <2>0, <2>6 DEF Request, Goto
    <3>2. step \notin Watching
      BY <2>6 DEF Watching
    <3>. HIDE DEF q
    <3>. QED BY <1>3, <2>6, <3>1, <3>2
  <2>7. CASE EndSessions(r)
    BY <2>6, <2>7 DEF EndSessions
  <2>8. CASE LookupToken(r)
    BY <2>6, <2>8 DEF LookupToken
  <2>9. CASE RevokeToken(r)
    BY <2>6, <2>9 DEF RevokeToken
  <2>. QED BY <1>7, <2>1, <2>2, <2>3, <2>4, <2>5, <2>7, <2>8, <2>9 DEF RevokeStep
<1>8. ASSUME NEW r \in Requests, Respond(r) \/ Fail(r)
      PROVE  EntriesOK'
  BY <1>2, <1>8 DEF Respond, Fail
<1>9. ASSUME NEW u \in Users, Enable(u)
      PROVE  EntriesOK'
  BY <1>0, <1>1, <1>9 DEF Enable, history, TypeOK
<1>10. CASE Tick
  BY <1>0, <1>1, <1>10 DEF Tick, history, TypeOK
<1>11. CASE UNCHANGED vars
  BY <1>0, <1>1, <1>11 DEF vars, TypeOK
<1>. QED BY <1>4, <1>5, <1>6, <1>7, <1>8, <1>9, <1>10, <1>11 DEF Next

(* Whoever starts a request with a token of a session that has ended gets neither
   to a handler nor to a new token pair: rotate and JwtStrategy.validate read the
   session again on every request, and a session that ended stays ended.  This
   covers the tokens minted under it by exchanges in flight when it ended. *)
THEOREM EntryOnlyToOpen == Spec => []EntryOnlyToOpenSession
<1>1. Init => EntriesOK
  BY DEF Init, EntriesOK, EntryOK, Idle
<1>2. Good /\ EntriesOK /\ [Next]_vars => EntriesOK'
  BY NextEntries
<1>3. EntriesOK => EntryOnlyToOpenSession
  BY DEF EntriesOK, EntryOK, EntryOnlyToOpenSession
<1>. QED BY GoodInvariant, <1>1, <1>2, <1>3, PTL DEF Spec

-----------------------------------------------------------------------------
(* What an operation has achieved by the time it is answered: the inductive invariant *)

RefreshEnds(r) ==
  LET q == req[r]
  IN  q.op = "refresh" /\ q.pc \in {"endSessions", "done"} =>
        /\ q.tok # None
        /\ q.ids = {token[q.tok].session}
        /\ q.pc = "done" => session[token[q.tok].session].revoked

LogoutEnds(r) ==
  LET q == req[r]
  IN  /\ q.pc \in {"lookupToken", "revokeToken"} => q.op = "logout"
      /\ q.op = "logout" =>
           /\ q.pc \in {"endSessions", "lookupToken", "revokeToken", "done"}
           /\ q.pc = "endSessions" => q.ids = {q.sid}
           /\ q.pc # "endSessions" => session[q.sid].revoked
           /\ q.pc = "done" /\ q.tok # None => token[q.tok].revoked

\* From the moment the sessions are collected, each that was open at the start has
\* ended, or is kept, or is about to end.
AllEnds(r) ==
  LET q == req[r]
  IN  /\ q.pc = "findLive" => q.op = "revokeAll"
      /\ q.op = "revokeAll" =>
           /\ q.pc \in {"findLive", "endSessions", "done"}
           /\ q.pc # "findLive" =>
                \A s \in openAtStart[r] :
                  session[s].user = q.user =>
                    \/ session[s].revoked
                    \/ s = q.sid
                    \/ q.pc = "endSessions" /\ s \in q.ids

Achieves(r) == RefreshEnds(r) /\ LogoutEnds(r) /\ AllEnds(r)

KnownAtStart(r) == \A s \in openAtStart[r] : SessionExists(s)

AchievesOK == \A r \in Requests : KnownAtStart(r) /\ Achieves(r)

-----------------------------------------------------------------------------
(* The requests of a step *)

(* Rows that persist keep what a request has achieved. *)
LEMMA AchievedKept ==
  ASSUME Good, RowsPersist, NEW r \in Requests, KnownAtStart(r), Achieves(r),
         req'[r] = req[r], openAtStart'[r] = openAtStart[r]
  PROVE  KnownAtStart(r)' /\ Achieves(r)'
<1>0. /\ req[r] \in Request /\ RequestOK(r) /\ openAtStart[r] \subseteq Sessions
      /\ \A t \in Tokens : TokenExists(t) =>
           token[t].session \in Sessions /\ SessionExists(token[t].session)
  BY RowTypes DEF Good, TypeOK, RowsOK, TokenRow
<1>1. KnownAtStart(r)'
  BY <1>0 DEF KnownAtStart, RowsPersist
<1>2. RefreshEnds(r)'
  BY <1>0 DEF Achieves, RefreshEnds, RowsPersist, RequestOK, Request
<1>3. LogoutEnds(r)'
  BY <1>0 DEF Achieves, LogoutEnds, RowsPersist, RequestOK, Request
<1>4. AllEnds(r)'
  BY <1>0 DEF Achieves, AllEnds, RowsPersist, KnownAtStart
<1>. QED BY <1>1, <1>2, <1>3, <1>4 DEF Achieves

\* A request of which nothing is promised yet.
Promises(q) ==
  \/ q.op \in {"refresh", "logout", "revokeAll"} /\ q.pc \notin {"lookup", "mintNext"}
  \/ q.pc \in {"findLive", "lookupToken", "revokeToken"}

(* When one request moves on, only what it has achieved itself is at stake. *)
LEMMA AchievesMoves ==
  ASSUME Good, AchievesOK, RowsPersist, NEW r \in Requests, NEW q,
         Begin(r, q) \/ Continue(r, q) \/ (Leave(r) /\ q = Idle),
         \/ ~Promises(q) /\ q.op # "logout" /\ q.op # "revokeAll"
         \/ req'[r] = q => Achieves(r)'
  PROVE  AchievesOK'
<1>1. req'[r] = q
  BY DEF Good, TypeOK, Begin, Continue, Leave
<1>2. \A x \in Requests \ {r} : req'[x] = req[x] /\ openAtStart'[x] = openAtStart[x]
  BY DEF Good, TypeOK, Begin, Continue, Leave
<1>3. openAtStart'[r] \in {OpenSessions, openAtStart[r], {}} /\ openAtStart[r] \subseteq Sessions
  BY DEF Good, TypeOK, Begin, Continue, Leave
<1>4. KnownAtStart(r)'
  BY <1>3 DEF AchievesOK, KnownAtStart, OpenSessions, SessionOpen, SessionExists, RowsPersist
<1>5. Achieves(r)'
  BY <1>1 DEF Promises, Achieves, RefreshEnds, LogoutEnds, AllEnds
<1>. QED BY <1>2, <1>4, <1>5, AchievedKept DEF AchievesOK

(* No step of the service breaks a promise it has made. *)
LEMMA NextAchieves ==
  ASSUME Good, AchievesOK, [Next]_vars
  PROVE  AchievesOK'
<1>0. TypeOK /\ RowsOK /\ RowsPersist /\ Good'
  BY NextGood DEF Good
<1>1. ASSUME UNCHANGED <<req, openAtStart>>
      PROVE  AchievesOK'
  BY <1>0, <1>1, AchievedKept DEF AchievesOK
<1>2. ASSUME NEW r \in Requests, Leave(r)
      PROVE  AchievesOK'
  <2>1. ~Promises(Idle) /\ Idle.op # "logout" /\ Idle.op # "revokeAll"
    BY DEF Idle, Promises
  <2>. QED BY <1>0, <1>2, <2>1, AchievesMoves
<1>3. ASSUME NEW r \in Requests, NEW q, Begin(r, q) \/ Continue(r, q),
             ~Promises(q), q.op # "logout", q.op # "revokeAll"
      PROVE  AchievesOK'
  BY <1>0, <1>3, AchievesMoves
<1>4. ASSUME NEW r \in Requests, NEW q, Begin(r, q) \/ Continue(r, q),
             req'[r] = q => Achieves(r)'
      PROVE  AchievesOK'
  BY <1>0, <1>4, AchievesMoves
<1>5. ASSUME NEW r \in Requests, IssueStep(r)
      PROVE  AchievesOK'
  <2>1. ASSUME NEW u \in Users, BeginLogin(r, u)
        PROVE  AchievesOK'
    BY <1>3, <2>1 DEF BeginLogin, Call, Promises
  <2>2. ASSUME NEW s \in Sessions, NEW rememberMe \in BOOLEAN, CreateSession(r, s, rememberMe)
        PROVE  AchievesOK'
    BY <1>3, <2>2 DEF CreateSession, Call, Promises
  <2>3. ASSUME NEW t \in Tokens, MintFirst(r, t)
        PROVE  AchievesOK'
    BY <1>2, <2>3 DEF MintFirst
  <2>. QED BY <1>5, <2>1, <2>2, <2>3 DEF IssueStep
<1>6. ASSUME NEW r \in Requests, RotateStep(r)
      PROVE  AchievesOK'
  <2>1. ASSUME NEW t \in Tokens \cup {None}, BeginRefresh(r, t)
        PROVE  AchievesOK'
    BY <1>3, <2>1 DEF BeginRefresh, Call, Promises
  <2>2. CASE LookupRefuses(r)
    BY <1>2, <2>2 DEF LookupRefuses
  <2>3. CASE LookupDetectsReuse(r)
    <3>. DEFINE t == req[r].tok
                s == token[t].session
                q == [pc |-> "endSessions", op |-> "refresh", user |-> session[s].user,
                      sid |-> s, tok |-> t, ids |-> {s}]
    <3>1. Continue(r, q) /\ UNCHANGED token /\ t # None
      BY <2>3 DEF LookupDetectsReuse, db
    <3>2. q.pc = "endSessions" /\ q.op = "refresh" /\ q.tok = t /\ q.ids = {token[t].session}
      OBVIOUS
    <3>. HIDE DEF q
    <3>3. req'[r] = q => Achieves(r)'
      BY <3>1, <3>2 DEF Achieves, RefreshEnds, LogoutEnds, AllEnds
    <3>. QED BY <1>4, <3>1, <3>3
  <2>4. CASE LookupAccepts(r)
    BY <1>3, <2>4 DEF LookupAccepts, Call, Promises
  <2>5. ASSUME NEW t \in Tokens, MintNext(r, t)
        PROVE  AchievesOK'
    BY <1>2, <2>5 DEF MintNext
  <2>. QED BY <1>6, <2>1, <2>2, <2>3, <2>4, <2>5 DEF RotateStep
<1>7. ASSUME NEW r \in Requests, AccessStep(r)
      PROVE  AchievesOK'
  <2>1. ASSUME NEW s \in Sessions, BeginAccess(r, s)
        PROVE  AchievesOK'
    BY <1>3, <2>1 DEF BeginAccess, Call, Promises
  <2>2. ASSUME NEW step \in {"loadSession", "authorised"}, Goto(r, step),
               req[r].pc \in {"loadUser", "loadSession"}
        PROVE  AchievesOK'
    <3>. DEFINE q == [req[r] EXCEPT !.pc = step]
    <3>1. Continue(r, q) /\ q.pc = step /\ q.op = req[r].op
      BY <1>0, <2>2 DEF Goto, TypeOK, Request
    <3>2. q.op # "logout" /\ q.op # "revokeAll"
      BY <2>2, <3>1 DEF AchievesOK, Achieves, LogoutEnds, AllEnds
    <3>. HIDE DEF q
    <3>3. req'[r] = q => Achieves(r)'
      BY <2>2, <3>1, <3>2 DEF Achieves, RefreshEnds, LogoutEnds, AllEnds
    <3>. QED BY <1>4, <3>1, <3>3
  <2>. QED BY <1>2, <1>7, <2>1, <2>2 DEF AccessStep, LoadUser, LoadSession
<1>8. ASSUME NEW r \in Requests, RevokeStep(r)
      PROVE  AchievesOK'
  <2>0. /\ req[r] \in Request /\ RequestOK(r) /\ Achieves(r) /\ KnownAtStart(r)
        /\ openAtStart[r] \subseteq Sessions
    BY <1>0 DEF TypeOK, RowsOK, AchievesOK
  <2>1. ASSUME NEW t \in Tokens \cup {None}, Logout(r, t)
        PROVE  AchievesOK'
    <3>. DEFINE q == [pc |-> "endSessions", op |-> "logout", user |-> req[r].user,
                      sid |-> req[r].sid, tok |-> t, ids |-> {req[r].sid}]
    <3>1. Continue(r, q)
      BY <2>1 DEF Logout
    <3>2. q.pc = "endSessions" /\ q.op = "logout" /\ q.ids = {q.sid}
      OBVIOUS
    <3>. HIDE DEF q
    <3>3. req'[r] = q => Achieves(r)'
      BY <3>2 DEF Achieves, RefreshEnds, LogoutEnds, AllEnds
    <3>. QED BY <1>4, <3>1, <3>3
  <2>2. ASSUME NEW q, Begin(r, q) \/ Continue(r, q), q.pc = "findLive", q.op = "revokeAll"
        PROVE  AchievesOK'
    <3>1. req'[r] = q => Achieves(r)'
      BY <2>2 DEF Achieves, RefreshEnds, LogoutEnds, AllEnds
    <3>. QED BY <1>4, <2>2, <3>1
  <2>3. ASSUME NEW keepOwn \in BOOLEAN, LogoutAll(r, keepOwn)
        PROVE  AchievesOK'
    BY <2>2, <2>3 DEF LogoutAll, Call
  <2>4. ASSUME NEW s \in Sessions, RevokeOwn(r, s)
        PROVE  AchievesOK'
    BY <1>3, <2>4 DEF RevokeOwn, Promises
  <2>5. ASSUME NEW u \in Users, BeginRevokeAll(r, u) \/ Disable(r, u)
        PROVE  AchievesOK'
    BY <2>2, <2>5 DEF BeginRevokeAll, Disable, Call
  <2>6. CASE FindLive(r)
    <3>. DEFINE ids == SessionsToEnd(req[r].user, req[r].sid)
                q == [req[r] EXCEPT !.pc = IF ids = {} THEN "done" ELSE "endSessions",
                                    !.ids = ids]
    <3>1. /\ Continue(r, q) /\ UNCHANGED session /\ openAtStart' = openAtStart
          /\ req[r].pc = "findLive" /\ req[r].op = "revokeAll"
      BY <2>0, <2>6 DEF FindLive, Continue, db, Achieves, AllEnds
    <3>2. /\ q.pc \in {"done", "endSessions"} /\ (q.pc = "done" <=> ids = {})
          /\ q.op = "revokeAll" /\ q.user = req[r].user /\ q.sid = req[r].sid /\ q.ids = ids
      BY <2>0, <3>1 DEF Request
    <3>3. \A s \in openAtStart[r] :
            session[s].user = q.user => session[s].revoked \/ s = q.sid \/ s \in ids
      BY <2>0, <3>2 DEF KnownAtStart, SessionsToEnd
    <3>. HIDE DEF q, ids
    <3>4. req'[r] = q => Achieves(r)'
      BY <3>1, <3>2, <3>3 DEF Achieves, RefreshEnds, LogoutEnds, AllEnds
    <3>. QED BY <1>4, <3>1, <3>4
  <2>7. CASE EndSessions(r)
    <3>. DEFINE step == IF req[r].op = "logout" /\ req[r].tok # None THEN "lookupToken" ELSE "done"
                q == [req[r] EXCEPT !.pc = step]
    <3>1. /\ Continue(r, q) /\ openAtStart' = openAtStart /\ req[r].pc = "endSessions"
      BY <2>7 DEF EndSessions, Goto, Continue
    <3>2. /\ q.pc = step /\ q.op = req[r].op /\ q.user = req[r].user /\ q.sid = req[r].sid
          /\ q.tok = req[r].tok /\ q.ids = req[r].ids
      BY <2>0 DEF Request
    <3>3. \A s \in req[r].ids : session'[s].revoked
      BY <2>7, EndSessionsRows
    <3>. HIDE DEF q
    <3>4. req'[r] = q => RefreshEnds(r)'
      <4>1. req[r].op = "refresh" =>
              req[r].tok # None /\ token'[req[r].tok].session = token[req[r].tok].session
        BY <1>0, <2>0, <3>1 DEF Achieves, RefreshEnds, RequestOK, RowsPersist, Request
      <4>. QED BY <2>0, <3>1, <3>2, <3>3, <4>1 DEF Achieves, RefreshEnds
    <3>5. req'[r] = q => LogoutEnds(r)'
      BY <2>0, <3>1, <3>2, <3>3 DEF Achieves, LogoutEnds
    <3>6. req'[r] = q => AllEnds(r)'
      <4>1. \A s \in openAtStart[r] :
              /\ session'[s].user = session[s].user
              /\ session[s].revoked => session'[s].revoked
        BY <1>0, <2>0 DEF KnownAtStart, RowsPersist
      <4>. QED BY <2>0, <3>1, <3>2, <3>3, <4>1 DEF Achieves, AllEnds
    <3>. QED BY <1>4, <3>1, <3>4, <3>5, <3>6 DEF Achieves
  <2>8. ASSUME NEW step \in {"revokeToken", "done"}, Goto(r, step),
               req[r].pc \in {"lookupToken", "revokeToken"},
               step = "done" => token'[req[r].tok].revoked
        PROVE  AchievesOK'
    <3>. DEFINE q == [req[r] EXCEPT !.pc = step]
    <3>1. Continue(r, q)
      BY <2>8 DEF Goto
    <3>2. q.pc = step /\ q.op = req[r].op /\ q.sid = req[r].sid /\ q.tok = req[r].tok
      BY <2>0 DEF Request
    <3>3. req[r].op = "logout" /\ session'[req[r].sid].revoked
      BY <1>0, <2>0, <2>8 DEF Achieves, LogoutEnds, RequestOK, RowsPersist
    <3>. HIDE DEF q
    <3>4. req'[r] = q => Achieves(r)'
      BY <2>8, <3>2, <3>3 DEF Achieves, RefreshEnds, LogoutEnds, AllEnds
    <3>. QED BY <1>4, <3>1, <3>4
  <2>9. CASE LookupToken(r)
    BY <2>8, <2>9 DEF LookupToken, db
  <2>10. CASE RevokeToken(r)
    <3>1. req[r].tok \in Tokens /\ TokenExists(req[r].tok)
      BY <2>0, <2>10 DEF RevokeToken, RequestOK, Request
    <3>2. token[req[r].tok] \in TokenRow
      BY <1>0, <3>1, RowTypes
    <3>3. token'[req[r].tok].revoked
      BY <1>0, <2>10, <3>1, <3>2 DEF RevokeToken, TypeOK, TokenRow
    <3>. QED BY <2>8, <2>10, <3>3 DEF RevokeToken
  <2>. QED BY <1>8, <2>1, <2>3, <2>4, <2>5, <2>6, <2>7, <2>9, <2>10 DEF RevokeStep
<1>9. ASSUME NEW r \in Requests, Respond(r) \/ Fail(r)
      PROVE  AchievesOK'
  BY <1>2, <1>9 DEF Respond, Fail
<1>10. CASE (\E u \in Users : Enable(u)) \/ Tick \/ UNCHANGED vars
  BY <1>1, <1>10 DEF Enable, Tick, vars, history
<1>. QED BY <1>5, <1>6, <1>7, <1>8, <1>9, <1>10 DEF Next

LEMMA AchievesInvariant == Spec => []AchievesOK
<1>1. Init => AchievesOK
  BY DEF Init, AchievesOK, KnownAtStart, Achieves, RefreshEnds, LogoutEnds, AllEnds, Idle
<1>2. Good /\ AchievesOK /\ [Next]_vars => AchievesOK'
  BY NextAchieves
<1>. QED BY GoodInvariant, <1>1, <1>2, PTL DEF Spec

-----------------------------------------------------------------------------
(* Expiry dates *)

(* A step that adds no token keeps every token within its session. *)
LEMMA WithinKept ==
  ASSUME Good, TokenWithinSession, RowsPersist,
         \A t \in Tokens : TokenExists(t)' => TokenExists(t)
  PROVE  TokenWithinSession'
<1>. SUFFICES ASSUME NEW t \in Tokens, TokenExists(t)'
              PROVE  token'[t].expiresAt <= session'[token'[t].session].expiresAt
  BY DEF TokenWithinSession
<1>1. /\ TokenExists(t) /\ token[t].session \in Sessions /\ SessionExists(token[t].session)
      /\ token'[t].session = token[t].session /\ token'[t].expiresAt = token[t].expiresAt
  BY RowTypes DEF Good, RowsOK, TokenRow, RowsPersist
<1>. QED BY <1>1 DEF TokenWithinSession, RowsPersist

(* A mint gives its token the lesser of the two dates. *)
LEMMA MintWithin ==
  ASSUME Good, TokenWithinSession, RowsPersist, UNCHANGED <<session, now>>,
         NEW r \in Requests, NEW t \in Tokens, NEW p \in Tokens \cup {None},
         p # None => TokenExists(p),
         req[r].pc \in {"mintFirst", "mintNext"}, IssueTokenPair(req[r].sid, t, p)
  PROVE  TokenWithinSession'
<1>. DEFINE s == req[r].sid
<1>0. TypeOK /\ RequestOK(r) /\ s \in Sessions /\ SessionExists(s) /\ session[s] \in SessionRow
  BY RowTypes DEF Good, RowsOK, RequestOK
<1>1. session[s].expiresAt \in Nat /\ now + TtlDays(session[s].rememberMe) \in Nat
  BY <1>0, TtlAssumption DEF SessionRow, TtlDays, TypeOK
<1>2. TokenExpiry(s) <= session[s].expiresAt
  BY <1>1 DEF TokenExpiry
<1>3. token'[t].session = s /\ token'[t].expiresAt = TokenExpiry(s)
  BY <1>0, Zenon DEF IssueTokenPair
<1>4. \A x \in Tokens \ {t} : TokenExists(x)' => TokenExists(x)
  BY <1>0, IssueTokenPairRows
<1>5. ASSUME NEW x \in Tokens \ {t}, TokenExists(x)'
      PROVE  token'[x].expiresAt <= session'[token'[x].session].expiresAt
  <2>1. /\ TokenExists(x) /\ token[x].session \in Sessions
        /\ token'[x].session = token[x].session /\ token'[x].expiresAt = token[x].expiresAt
    BY <1>0, <1>4, <1>5, RowTypes DEF TokenRow, RowsPersist
  <2>. QED BY <2>1 DEF TokenWithinSession
<1>6. token'[t].expiresAt <= session'[token'[t].session].expiresAt
  BY <1>2, <1>3
<1>. QED BY <1>5, <1>6 DEF TokenWithinSession

LEMMA NextWithin ==
  ASSUME Good, TokenWithinSession, [Next]_vars
  PROVE  TokenWithinSession'
<1>0. RowsPersist /\ TypeOK /\ RowsOK
  BY NextGood DEF Good
<1>1. ASSUME NEW r \in Requests, NEW t \in Tokens, MintFirst(r, t) \/ MintNext(r, t)
      PROVE  TokenWithinSession'
  <2>1. RequestOK(r) /\ req[r] \in Request
    BY <1>0 DEF RowsOK, TypeOK
  <2>2. CASE MintFirst(r, t)
    BY <1>0, <2>2, MintWithin DEF MintFirst
  <2>3. CASE MintNext(r, t)
    <3>1. req[r].tok \in Tokens /\ TokenExists(req[r].tok)
      BY <2>1, <2>3 DEF MintNext, RequestOK, Request
    <3>. QED BY <1>0, <2>3, <3>1, MintWithin DEF MintNext
  <2>. QED BY <1>1, <2>2, <2>3
<1>2. ASSUME UNCHANGED token
      PROVE  TokenWithinSession'
  BY <1>0, <1>2, WithinKept DEF TokenExists
<1>3. ASSUME NEW r \in Requests, EndSessions(r)
      PROVE  TokenWithinSession'
  BY <1>0, <1>3, EndSessionsRows, WithinKept
<1>4. ASSUME NEW r \in Requests, RevokeToken(r)
      PROVE  TokenWithinSession'
  <2>1. req[r].tok \in Tokens /\ TokenExists(req[r].tok)
    BY <1>0, <1>4 DEF RevokeToken, RowsOK, RequestOK, TypeOK, Request
  <2>2. \A t \in Tokens : TokenExists(t)' => TokenExists(t)
    BY <1>0, <1>4, <2>1 DEF RevokeToken, TokenExists, TypeOK
  <2>. QED BY <1>0, <2>2, WithinKept
<1>5. ASSUME NEW r \in Requests, IssueStep(r)
      PROVE  TokenWithinSession'
  BY <1>1, <1>2, <1>5 DEF IssueStep, BeginLogin, CreateSession, db
<1>6. ASSUME NEW r \in Requests, RotateStep(r)
      PROVE  TokenWithinSession'
  BY <1>1, <1>2, <1>6
  DEF RotateStep, BeginRefresh, LookupRefuses, LookupDetectsReuse, LookupAccepts, db
<1>7. ASSUME NEW r \in Requests, RevokeStep(r)
      PROVE  TokenWithinSession'
  BY <1>2, <1>3, <1>4, <1>7
  DEF RevokeStep, Logout, LogoutAll, RevokeOwn, BeginRevokeAll, Disable, FindLive,
      LookupToken, db
<1>8. CASE \/ \E r \in Requests : AccessStep(r) \/ Respond(r) \/ Fail(r)
           \/ \E u \in Users : Enable(u)
           \/ Tick
           \/ UNCHANGED vars
  BY <1>2, <1>8
  DEF AccessStep, BeginAccess, LoadUser, LoadSession, Respond, Fail, Enable, Tick, db, vars
<1>. QED BY <1>5, <1>6, <1>7, <1>8 DEF Next

-----------------------------------------------------------------------------
(* Theorems about revocation and expiry *)

(* When rotate has answered a request that presented a spent token, the session of that
   token has ended, whoever else exchanged, revoked or failed meanwhile. *)
THEOREM ReuseEnds == Spec => []ReuseEndsSession
<1>1. AchievesOK => ReuseEndsSession
  BY DEF AchievesOK, Achieves, RefreshEnds, ReuseEndsSession
<1>. QED BY AchievesInvariant, <1>1, PTL

(* When revokeAllUserSessions has been answered, every session of the user that was open
   when the request began has ended, other than the one it was asked to keep, although
   they are collected in one statement and ended in another. *)
THEOREM RevokeAllEnds == Spec => []RevokeAllComplete
<1>1. AchievesOK => RevokeAllComplete
  BY DEF AchievesOK, Achieves, AllEnds, RevokeAllComplete
<1>. QED BY AchievesInvariant, <1>1, PTL

(* When a logout has been answered, the caller's session and the refresh token it handed
   in are both spent, whichever session that token is of and whoever exchanged it. *)
THEOREM LogoutEndsSessionAndToken == Spec => []LogoutEndsBoth
<1>1. AchievesOK => LogoutEndsBoth
  BY DEF AchievesOK, Achieves, LogoutEnds, LogoutEndsBoth
<1>. QED BY AchievesInvariant, <1>1, PTL

(* However often a refresh token is exchanged, its successors never outlive the session
   (the lesser of two dates in issueTokenPair): refreshing does not extend a sign-in. *)
THEOREM TokensEndWithSession == Spec => []TokenWithinSession
<1>1. Init => TokenWithinSession
  BY DEF Init, TokenWithinSession, TokenExists
<1>2. Good /\ TokenWithinSession /\ [Next]_vars => TokenWithinSession'
  BY NextWithin
<1>. QED BY GoodInvariant, <1>1, <1>2, PTL DEF Spec

=============================================================================
