-------------------------- MODULE CredentialsProofs --------------------------
(***************************************************************************)
(* Theorems about Credentials for every set of requests, links and         *)
(* sessions, every configuration and every bound.                          *)
(***************************************************************************)
EXTENDS Credentials, FiniteSetTheorems, TLAPS

-----------------------------------------------------------------------------
(* The inductive invariant *)

\* What a request has read by the step it is at.
Keeps(q) ==
  /\ q.pc \in {"failed", "save"} => q.seen \in Row
  /\ q.pc = "failed" => q.seen.failed < MaxFailures
  /\ q.pc = "reset" => q.link \in Links
  /\ q.pc \in {"change", "changeRevoke"} => q.session \in Sessions

Good == TypeOK /\ \A r \in Requests : Keeps(req[r])

\* The password stored is the latest, and so is the one a login may write back.
PasswordOK ==
  "password" \notin raced =>
    /\ account.password = latest
    /\ \A r \in Requests : At(r, {"save"}) /\ req[r].seen.weak => req[r].password = latest

\* The counter counts, and an attempt that failed counts from what is stored.
CounterOK ==
  "counter" \notin raced =>
    /\ account.failed = failures
    /\ failures >= MaxFailed => account.lockedUntil # 0
    /\ \A r \in Requests : At(r, {"failed"}) => req[r].seen.failed = failures

Unspent == {l \in Links : links[l].issued /\ ~links[l].used}

\* One link is neither spent nor superseded, and whoever issues the next knows it.
LinksOK ==
  "forgot" \notin raced =>
    /\ \A k, l \in Unspent : k = l
    /\ \A r \in Requests : At(r, {"create"}) => Unspent \subseteq req[r].stale

-----------------------------------------------------------------------------
(* Types *)

LEMMA IdleTyped == Idle \in Request /\ Idle.pc = "idle" /\ 0 \in Passwords
<1>1. 0 \in Passwords
  BY ConfigAssumption DEF Passwords
<1> QED BY <1>1 DEF Idle, Request

\* Every request but r is where it was.
Rest(r) == \A o \in Others(r) : req'[o] = req[o]

LEMMA MoveTo ==
  ASSUME Good, NEW r \in Requests, NEW q \in Request, Keeps(q), Goto(r, q)
  PROVE  /\ req' \in [Requests -> Request]
         /\ \A o \in Requests : Keeps(req'[o])
         /\ req'[r] = q
         /\ Rest(r)
<1>1. req \in [Requests -> Request] /\ \A o \in Requests : Keeps(req[o])
  BY DEF Good, TypeOK
<1>2. \A o \in Requests : req'[o] = IF o = r THEN q ELSE req[o]
  BY <1>1 DEF Goto
<1>3. req' \in [Requests -> Request]
  BY <1>1 DEF Goto
<1>4. \A o \in Requests : Keeps(req'[o])
  BY <1>1, <1>2
<1> QED BY <1>2, <1>3, <1>4 DEF Rest, Others

LEMMA FinishMoves ==
  ASSUME Good, NEW r \in Requests, Finish(r)
  PROVE  /\ req' \in [Requests -> Request]
         /\ \A o \in Requests : Keeps(req'[o])
         /\ req'[r].pc = "idle"
         /\ Rest(r)
<1>1. Idle \in Request /\ Idle.pc = "idle"
  BY IdleTyped
<1>2. Keeps(Idle)
  BY <1>1 DEF Keeps
<1> QED BY <1>1, <1>2, MoveTo DEF Finish

LEMMA RacesTyped ==
  ASSUME Good, NEW r \in Requests
  PROVE  CounterRace(r) \cup PasswordRace(r) \subseteq Races
BY DEF CounterRace, PasswordRace, Race, Races

\* The parts of TypeOK, to be cited without the whole.
LEMMA Typed ==
  ASSUME Good
  PROVE  /\ now \in Nat /\ now >= 1 /\ now <= MaxNow
         /\ account \in Account
         /\ links \in [Links -> Link]
         /\ sessions \in [Sessions -> Session]
         /\ req \in [Requests -> Request]
         /\ chosen \in Passwords /\ latest \in Passwords
         /\ failures \in 0 .. MaxFailures
         /\ raced \subseteq Races
         /\ missed \subseteq Sessions
         /\ 0 \in Passwords /\ 0 \in 0 .. MaxFailures /\ 0 \in Times
         /\ now + Lockout \in Times /\ now + LinkTtl \in Times
         /\ Columns \in Row /\ account.password \in Passwords
<1>1. MaxNow \in Nat /\ Lockout \in Nat /\ LinkTtl \in Nat
      /\ MaxPasswords \in Nat /\ MaxFailures \in Nat
  BY ConfigAssumption
<1>2. now \in 1 .. MaxNow
  BY DEF Good, TypeOK
<1>3. now \in Nat /\ now >= 1 /\ now <= MaxNow
  BY <1>1, <1>2
<1>4. 0 \in Passwords /\ 0 \in 0 .. MaxFailures /\ 0 \in Times
      /\ now + Lockout \in Times /\ now + LinkTtl \in Times
  BY <1>1, <1>3 DEF Passwords, Times
<1>5. Columns \in Row /\ account.password \in Passwords
  BY DEF Good, TypeOK, Account, Columns, Row
<1> QED BY <1>3, <1>4, <1>5 DEF Good, TypeOK

-----------------------------------------------------------------------------
(* What each action does to the request it serves, and that it keeps Good *)

LEMMA RejectPasswordMoves ==
  ASSUME Good, NEW r \in Requests, RejectPassword(r)
  PROVE  /\ Good'
         /\ Rest(r)
         /\ req'[r].pc = "failed" /\ req'[r].seen = Columns
<1> DEFINE q == [Idle EXCEPT !.pc = "failed", !.seen = Columns]
<1>1. q \in Request /\ q.pc = "failed" /\ q.seen = Columns
  BY Typed, IdleTyped DEF Idle, Request
<1>2. Columns \in Row /\ Columns.failed < MaxFailures
  BY Typed DEF RejectPassword, Columns
<1>3. Keeps(q)
  BY <1>1, <1>2 DEF Keeps
<1>4. Goto(r, q)
  BY DEF RejectPassword
<1> HIDE DEF q
<1> QED BY <1>1, <1>3, <1>4, MoveTo DEF Good, TypeOK, RejectPassword

LEMMA AcceptPasswordMoves ==
  ASSUME Good, NEW r \in Requests, AcceptPassword(r)
  PROVE  /\ Good'
         /\ Rest(r)
         /\ req'[r].pc = "save" /\ req'[r].password = account.password
<1> DEFINE q == [Idle EXCEPT !.pc = "save", !.password = account.password,
                                !.seen = Columns]
<1>1. q \in Request /\ q.pc = "save" /\ q.password = account.password
      /\ q.seen = Columns
  BY Typed, IdleTyped DEF Idle, Request
<1>2. Keeps(q)
  BY <1>1, Typed DEF Keeps
<1>3. Goto(r, q)
  BY DEF AcceptPassword
<1> HIDE DEF q
<1> QED BY <1>1, <1>2, <1>3, MoveTo DEF Good, TypeOK, AcceptPassword

LEMMA RegisterFailedAttemptMoves ==
  ASSUME Good, NEW r \in Requests, RegisterFailedAttempt(r)
  PROVE  /\ Good'
         /\ Rest(r)
         /\ req'[r].pc = "idle"
<1>1. /\ req' \in [Requests -> Request]
      /\ \A o \in Requests : Keeps(req'[o])
      /\ req'[r].pc = "idle"
      /\ Rest(r)
  BY FinishMoves DEF RegisterFailedAttempt
<1>2. req[r].seen \in Row /\ req[r].seen.failed < MaxFailures
  BY DEF RegisterFailedAttempt, At, Good, Keeps
<1>3. account' \in Account
  <2>1. req[r].seen.failed + 1 \in 0 .. MaxFailures
    BY <1>2, ConfigAssumption DEF Row
  <2>2. req[r].seen.lockedUntil \in Times
    BY <1>2 DEF Row
  <2> QED BY <2>1, <2>2, Typed DEF RegisterFailedAttempt, Account
<1>4. failures' \in 0 .. MaxFailures
  BY Typed, ConfigAssumption DEF RegisterFailedAttempt
<1>5. raced' \subseteq Races
  BY Typed, RacesTyped DEF RegisterFailedAttempt
<1> QED BY <1>1, <1>3, <1>4, <1>5 DEF Good, TypeOK, RegisterFailedAttempt

LEMMA SaveLoginMoves ==
  ASSUME Good, NEW r \in Requests, SaveLogin(r)
  PROVE  /\ Good'
         /\ Rest(r)
         /\ req'[r].pc = "session" /\ req'[r].password = req[r].password
<1> DEFINE q == [req[r] EXCEPT !.pc = "session", !.seen = None]
<1>1. q \in Request /\ q.pc = "session" /\ q.password = req[r].password
  <2>1. req[r] \in Request
    BY Typed
  <2> QED BY <2>1 DEF Request
<1>2. Keeps(q)
  BY <1>1 DEF Keeps
<1>3. Goto(r, q)
  BY DEF SaveLogin
<1>4. account' \in Account
  <2>1. req[r].password \in Passwords
    BY Typed DEF Request
  <2>2. WithRehash(r) \in Account
    BY <2>1, Typed DEF WithRehash, Account
  <2> QED BY <2>2, Typed DEF SaveLogin, Account
<1>5. raced' \subseteq Races
  BY Typed, RacesTyped DEF SaveLogin
<1>6. failures' \in 0 .. MaxFailures
  BY Typed DEF SaveLogin
<1> HIDE DEF q
<1> QED BY <1>1, <1>2, <1>3, <1>4, <1>5, <1>6, MoveTo DEF Good, TypeOK, SaveLogin

LEMMA IssueSessionMoves ==
  ASSUME Good, NEW r \in Requests, NEW s \in Sessions, IssueSession(r, s)
  PROVE  /\ Good'
         /\ Rest(r)
         /\ req'[r].pc = "idle"
<1>1. /\ req' \in [Requests -> Request]
      /\ \A o \in Requests : Keeps(req'[o])
      /\ req'[r].pc = "idle"
      /\ Rest(r)
  BY FinishMoves DEF IssueSession
<1>2. req[r].password \in Passwords
  BY Typed DEF Request
<1>3. sessions' \in [Sessions -> Session]
  BY <1>2, Typed DEF IssueSession, Session
<1> QED BY <1>1, <1>3 DEF Good, TypeOK, IssueSession

LEMMA LookupForgotMoves ==
  ASSUME Good, NEW r \in Requests, LookupForgot(r)
  PROVE  /\ Good'
         /\ Rest(r)
         /\ req'[r].pc = "forgot"
<1> DEFINE q == [Idle EXCEPT !.pc = "forgot"]
<1>1. q \in Request /\ q.pc = "forgot"
  BY IdleTyped DEF Idle, Request
<1>2. Keeps(q)
  BY <1>1 DEF Keeps
<1>3. Goto(r, q)
  BY DEF LookupForgot
<1> HIDE DEF q
<1> QED BY <1>1, <1>2, <1>3, MoveTo DEF Good, TypeOK, LookupForgot

LEMMA SpendLinksMoves ==
  ASSUME Good, NEW r \in Requests, SpendLinks(r)
  PROVE  /\ Good'
         /\ Rest(r)
         /\ req'[r].pc = "create" /\ req'[r].stale = Unspent
<1> DEFINE q == [req[r] EXCEPT !.pc = "create", !.stale = Unspent]
<1>1. q \in Request /\ q.pc = "create" /\ q.stale = Unspent
  <2>1. Unspent \in SUBSET Links
    BY DEF Unspent
  <2>2. req[r] \in Request
    BY Typed
  <2> QED BY <2>1, <2>2 DEF Request
<1>2. Keeps(q)
  BY <1>1 DEF Keeps
<1>3. Goto(r, q)
  BY DEF SpendLinks, Unspent
<1> HIDE DEF q
<1> QED BY <1>1, <1>2, <1>3, MoveTo DEF Good, TypeOK, SpendLinks

LEMMA CreateLinkMoves ==
  ASSUME Good, NEW r \in Requests, NEW l \in Links, CreateLink(r, l)
  PROVE  /\ Good'
         /\ Rest(r)
         /\ req'[r].pc = "idle"
<1>1. /\ req' \in [Requests -> Request]
      /\ \A o \in Requests : Keeps(req'[o])
      /\ req'[r].pc = "idle"
      /\ Rest(r)
  BY FinishMoves DEF CreateLink
<1>2. links' \in [Links -> Link]
  BY Typed DEF CreateLink, LinksWith, Link
<1>3. raced' \subseteq Races
  BY Typed DEF CreateLink, Race, Races
<1> QED BY <1>1, <1>2, <1>3 DEF Good, TypeOK, CreateLink

LEMMA LookupResetMoves ==
  ASSUME Good, NEW r \in Requests, NEW l \in Links, LookupReset(r, l)
  PROVE  /\ Good'
         /\ Rest(r)
         /\ req'[r].pc = "reset" /\ req'[r].link = l
<1> DEFINE q == [Idle EXCEPT !.pc = "reset", !.password = chosen + 1, !.link = l]
<1>1. chosen + 1 \in Passwords
  BY Typed, ConfigAssumption DEF LookupReset, Passwords
<1>2. q \in Request /\ q.pc = "reset" /\ q.link = l
  BY <1>1, IdleTyped DEF Idle, Request
<1>3. Keeps(q)
  BY <1>2 DEF Keeps
<1>4. Goto(r, q)
  BY DEF LookupReset
<1> HIDE DEF q
<1> QED BY <1>1, <1>2, <1>3, <1>4, MoveTo DEF Good, TypeOK, LookupReset

LEMMA SaveResetMoves ==
  ASSUME Good, NEW r \in Requests, SaveReset(r)
  PROVE  /\ Good'
         /\ Rest(r)
         /\ req'[r].pc = "resetRevoke"
<1> DEFINE q == [req[r] EXCEPT !.pc = "resetRevoke"]
<1>1. q \in Request /\ q.pc = "resetRevoke"
  <2>1. req[r] \in Request
    BY Typed
  <2> QED BY <2>1 DEF Request
<1>2. Keeps(q)
  BY <1>1 DEF Keeps
<1>3. Goto(r, q)
  BY DEF SaveReset
<1>4. req[r].password \in Passwords
  BY Typed DEF Request
<1>5. account' \in Account
  BY <1>4, Typed DEF SaveReset, Account
<1>6. links' \in [Links -> Link]
  BY Typed DEF SaveReset, Link
<1>7. raced' \subseteq Races
  BY Typed, RacesTyped DEF SaveReset
<1>8. failures' \in 0 .. MaxFailures
  BY Typed DEF SaveReset
<1> HIDE DEF q
<1>9. /\ req' \in [Requests -> Request]
      /\ \A o \in Requests : Keeps(req'[o])
      /\ req'[r].pc = "resetRevoke"
      /\ Rest(r)
  BY <1>1, <1>2, <1>3, MoveTo
<1> QED BY <1>4, <1>5, <1>6, <1>7, <1>8, <1>9 DEF Good, TypeOK, SaveReset

LEMMA RevokeAfterResetMoves ==
  ASSUME Good, NEW r \in Requests, RevokeAfterReset(r)
  PROVE  /\ Good'
         /\ Rest(r)
         /\ req'[r].pc = "idle"
<1>1. /\ req' \in [Requests -> Request]
      /\ \A o \in Requests : Keeps(req'[o])
      /\ req'[r].pc = "idle"
      /\ Rest(r)
  BY FinishMoves DEF RevokeAfterReset
<1>2. sessions' \in [Sessions -> Session]
  BY Typed DEF RevokeAfterReset, EndSessions, Session
<1> QED BY <1>1, <1>2 DEF Good, TypeOK, RevokeAfterReset

LEMMA LookupChangeMoves ==
  ASSUME Good, NEW r \in Requests, NEW s \in Sessions, LookupChange(r, s)
  PROVE  /\ Good'
         /\ Rest(r)
         /\ req'[r].pc = "change" /\ req'[r].session = s
<1> DEFINE q == [Idle EXCEPT !.pc = "change", !.password = chosen + 1, !.session = s]
<1>1. chosen + 1 \in Passwords
  BY Typed, ConfigAssumption DEF LookupChange, Passwords
<1>2. q \in Request /\ q.pc = "change" /\ q.session = s
  BY <1>1, IdleTyped DEF Idle, Request
<1>3. Keeps(q)
  BY <1>2 DEF Keeps
<1>4. Goto(r, q)
  BY DEF LookupChange
<1> HIDE DEF q
<1> QED BY <1>1, <1>2, <1>3, <1>4, MoveTo DEF Good, TypeOK, LookupChange

LEMMA SaveChangeMoves ==
  ASSUME Good, NEW r \in Requests, SaveChange(r)
  PROVE  /\ Good'
         /\ Rest(r)
         /\ req'[r].pc = "changeRevoke" /\ req'[r].session = req[r].session
<1> DEFINE q == [req[r] EXCEPT !.pc = "changeRevoke"]
<1>1. q \in Request /\ q.pc = "changeRevoke" /\ q.session = req[r].session
  <2>1. req[r] \in Request
    BY Typed
  <2> QED BY <2>1 DEF Request
<1>2. Keeps(q)
  BY <1>1 DEF SaveChange, Good, Keeps, At
<1>3. Goto(r, q)
  BY DEF SaveChange
<1>4. req[r].password \in Passwords
  BY Typed DEF Request
<1>5. account' \in Account
  BY <1>4, Typed DEF SaveChange, Account
<1>6. sessions' \in [Sessions -> Session]
  BY <1>4, Typed DEF SaveChange, Session
<1>7. raced' \subseteq Races
  BY Typed, RacesTyped DEF SaveChange
<1> HIDE DEF q
<1> QED BY <1>1, <1>2, <1>3, <1>4, <1>5, <1>6, <1>7, MoveTo DEF Good, TypeOK, SaveChange

LEMMA RevokeAfterChangeMoves ==
  ASSUME Good, NEW r \in Requests, RevokeAfterChange(r)
  PROVE  /\ Good'
         /\ Rest(r)
         /\ req'[r].pc = "idle"
<1>1. /\ req' \in [Requests -> Request]
      /\ \A o \in Requests : Keeps(req'[o])
      /\ req'[r].pc = "idle"
      /\ Rest(r)
  BY FinishMoves DEF RevokeAfterChange
<1>2. sessions' \in [Sessions -> Session]
  BY Typed DEF RevokeAfterChange, EndSessions, Session
<1> QED BY <1>1, <1>2 DEF Good, TypeOK, RevokeAfterChange

LEMMA FailMoves ==
  ASSUME Good, NEW r \in Requests, Fail(r)
  PROVE  /\ Good'
         /\ Rest(r)
         /\ req'[r].pc = "idle"
<1>1. /\ req' \in [Requests -> Request]
      /\ \A o \in Requests : Keeps(req'[o])
      /\ req'[r].pc = "idle"
      /\ Rest(r)
  BY FinishMoves DEF Fail
<1>2. raced' \subseteq Races
  BY Typed DEF Fail, Race, Races
<1> QED BY <1>1, <1>2 DEF Good, TypeOK, Fail

LEMMA GoodStep ==
  ASSUME Good, [Next]_vars
  PROVE  Good'
<1>1. ASSUME NEW r \in Requests, RejectPassword(r)
      PROVE  Good'
  BY <1>1, RejectPasswordMoves
<1>2. ASSUME NEW r \in Requests, AcceptPassword(r)
      PROVE  Good'
  BY <1>2, AcceptPasswordMoves
<1>3. ASSUME NEW r \in Requests, RegisterFailedAttempt(r)
      PROVE  Good'
  BY <1>3, RegisterFailedAttemptMoves
<1>4. ASSUME NEW r \in Requests, SaveLogin(r)
      PROVE  Good'
  BY <1>4, SaveLoginMoves
<1>5. ASSUME NEW r \in Requests, NEW s \in Sessions, IssueSession(r, s)
      PROVE  Good'
  BY <1>5, IssueSessionMoves
<1>6. ASSUME NEW r \in Requests, LookupForgot(r)
      PROVE  Good'
  BY <1>6, LookupForgotMoves
<1>7. ASSUME NEW r \in Requests, SpendLinks(r)
      PROVE  Good'
  BY <1>7, SpendLinksMoves
<1>8. ASSUME NEW r \in Requests, NEW l \in Links, CreateLink(r, l)
      PROVE  Good'
  BY <1>8, CreateLinkMoves
<1>9. ASSUME NEW r \in Requests, NEW l \in Links, LookupReset(r, l)
      PROVE  Good'
  BY <1>9, LookupResetMoves
<1>10. ASSUME NEW r \in Requests, SaveReset(r)
      PROVE  Good'
  BY <1>10, SaveResetMoves
<1>11. ASSUME NEW r \in Requests, RevokeAfterReset(r)
      PROVE  Good'
  BY <1>11, RevokeAfterResetMoves
<1>12. ASSUME NEW r \in Requests, NEW s \in Sessions, LookupChange(r, s)
      PROVE  Good'
  BY <1>12, LookupChangeMoves
<1>13. ASSUME NEW r \in Requests, SaveChange(r)
      PROVE  Good'
  BY <1>13, SaveChangeMoves
<1>14. ASSUME NEW r \in Requests, RevokeAfterChange(r)
      PROVE  Good'
  BY <1>14, RevokeAfterChangeMoves
<1>15. ASSUME NEW r \in Requests, Fail(r)
      PROVE  Good'
  BY <1>15, FailMoves
<1>16. CASE SetStatus
  BY <1>16, Typed, ConfigAssumption DEF SetStatus, Good, TypeOK, Account
<1>17. CASE Tick
  BY <1>17, Typed, ConfigAssumption DEF Tick, Good, TypeOK, Account
<1>18. CASE UNCHANGED vars
  BY <1>18, Typed, ConfigAssumption DEF vars, Good, TypeOK, Account
<1> QED BY <1>1, <1>2, <1>3, <1>4, <1>5, <1>6, <1>7, <1>8, <1>9,
    <1>10, <1>11, <1>12, <1>13, <1>14, <1>15, <1>16, <1>17, <1>18
    DEF Next

-----------------------------------------------------------------------------
(* Each further invariant is kept by every step *)

LEMMA PasswordStep ==
  ASSUME Good, PasswordOK, [Next]_vars
  PROVE  PasswordOK'
<1>1. ASSUME NEW r \in Requests, RejectPassword(r)
      PROVE  PasswordOK'
  BY <1>1, RejectPasswordMoves DEF RejectPassword, PasswordOK, Rest, Others, At
<1>2. ASSUME NEW r \in Requests, AcceptPassword(r)
      PROVE  PasswordOK'
  BY <1>2, AcceptPasswordMoves DEF AcceptPassword, PasswordOK, Rest, Others, At
<1>3. ASSUME NEW r \in Requests, RegisterFailedAttempt(r)
      PROVE  PasswordOK'
  <2>1. account'.password = account.password
    BY <1>3, Typed DEF RegisterFailedAttempt, Account
  <2> QED BY <1>3, <2>1, RegisterFailedAttemptMoves, Zenon
          DEF RegisterFailedAttempt, PasswordOK, Rest, Others, At
<1>4. ASSUME NEW r \in Requests, SaveLogin(r)
      PROVE  PasswordOK'
  <2>1. Rest(r) /\ req'[r].pc = "session"
    BY <1>4, SaveLoginMoves
  <2>2. account'.password = IF req[r].seen.weak THEN req[r].password ELSE account.password
    BY <1>4, Typed DEF SaveLogin, WithRehash, Account
  <2>3. raced \subseteq raced' /\ latest' = latest /\ At(r, {"save"})
    BY <1>4 DEF SaveLogin
  <2> QED BY <2>1, <2>2, <2>3 DEF PasswordOK, Rest, Others, At
<1>5. ASSUME NEW r \in Requests, NEW s \in Sessions, IssueSession(r, s)
      PROVE  PasswordOK'
  BY <1>5, IssueSessionMoves DEF IssueSession, PasswordOK, Rest, Others, At
<1>6. ASSUME NEW r \in Requests, LookupForgot(r)
      PROVE  PasswordOK'
  BY <1>6, LookupForgotMoves DEF LookupForgot, PasswordOK, Rest, Others, At
<1>7. ASSUME NEW r \in Requests, SpendLinks(r)
      PROVE  PasswordOK'
  <2>1. UNCHANGED <<now, account, links, sessions, chosen, latest, failures, raced>>
    BY <1>7 DEF SpendLinks
  <2>2. Rest(r) /\ req'[r].pc = "create" /\ req'[r].stale = Unspent
    BY <1>7, SpendLinksMoves
  <2>. QED BY <2>1, <2>2, Zenon DEF PasswordOK, Rest, Others, At
<1>8. ASSUME NEW r \in Requests, NEW l \in Links, CreateLink(r, l)
      PROVE  PasswordOK'
  BY <1>8, CreateLinkMoves DEF CreateLink, PasswordOK, Rest, Others, At
<1>9. ASSUME NEW r \in Requests, NEW l \in Links, LookupReset(r, l)
      PROVE  PasswordOK'
  BY <1>9, LookupResetMoves, Zenon DEF LookupReset, PasswordOK, Rest, Others, At
<1>10. ASSUME NEW r \in Requests, SaveReset(r)
      PROVE  PasswordOK'
  <2>1. Rest(r) /\ req'[r].pc = "resetRevoke"
    BY <1>10, SaveResetMoves
  <2>2. account'.password = req[r].password /\ latest' = req[r].password
    BY <1>10, Typed DEF SaveReset, Account
  <2>3. "password" \notin raced' =>
          \A o \in Others(r) : ~(At(o, {"save"}) /\ req[o].seen.weak)
    BY <1>10 DEF SaveReset, PasswordRace, Race
  <2> QED BY <2>1, <2>2, <2>3 DEF PasswordOK, Rest, Others, At
<1>11. ASSUME NEW r \in Requests, RevokeAfterReset(r)
      PROVE  PasswordOK'
  BY <1>11, RevokeAfterResetMoves DEF RevokeAfterReset, PasswordOK, Rest, Others, At
<1>12. ASSUME NEW r \in Requests, NEW s \in Sessions, LookupChange(r, s)
      PROVE  PasswordOK'
  BY <1>12, LookupChangeMoves, Zenon DEF LookupChange, PasswordOK, Rest, Others, At
<1>13. ASSUME NEW r \in Requests, SaveChange(r)
      PROVE  PasswordOK'
  <2>1. Rest(r) /\ req'[r].pc = "changeRevoke"
    BY <1>13, SaveChangeMoves
  <2>2. account'.password = req[r].password /\ latest' = req[r].password
    BY <1>13, Typed DEF SaveChange, Account
  <2>3. "password" \notin raced' =>
          \A o \in Others(r) : ~(At(o, {"save"}) /\ req[o].seen.weak)
    BY <1>13 DEF SaveChange, PasswordRace, Race
  <2> QED BY <2>1, <2>2, <2>3 DEF PasswordOK, Rest, Others, At
<1>14. ASSUME NEW r \in Requests, RevokeAfterChange(r)
      PROVE  PasswordOK'
  BY <1>14, RevokeAfterChangeMoves DEF RevokeAfterChange, PasswordOK, Rest, Others, At
<1>15. ASSUME NEW r \in Requests, Fail(r)
      PROVE  PasswordOK'
  BY <1>15, FailMoves DEF Fail, PasswordOK, Rest, Others, At
<1>16. CASE SetStatus
  BY <1>16, Typed DEF SetStatus, PasswordOK, Account, At
<1>17. CASE Tick
  BY <1>17, Typed DEF Tick, PasswordOK, Account, At
<1>18. CASE UNCHANGED vars
  BY <1>18, Typed DEF vars, PasswordOK, Account, At
<1> QED BY <1>1, <1>2, <1>3, <1>4, <1>5, <1>6, <1>7, <1>8, <1>9,
    <1>10, <1>11, <1>12, <1>13, <1>14, <1>15, <1>16, <1>17, <1>18
    DEF Next

LEMMA CounterStep ==
  ASSUME Good, CounterOK, [Next]_vars
  PROVE  CounterOK'
<1>1. ASSUME NEW r \in Requests, RejectPassword(r)
      PROVE  CounterOK'
  <2>1. Columns.failed = account.failed
    BY DEF Columns
  <2> QED BY <1>1, <2>1, RejectPasswordMoves
          DEF RejectPassword, CounterOK, Rest, Others, At
<1>2. ASSUME NEW r \in Requests, AcceptPassword(r)
      PROVE  CounterOK'
  BY <1>2, AcceptPasswordMoves DEF AcceptPassword, CounterOK, Rest, Others, At
<1>3. ASSUME NEW r \in Requests, RegisterFailedAttempt(r)
      PROVE  CounterOK'
  <2>1. Rest(r) /\ req'[r].pc = "idle"
    BY <1>3, RegisterFailedAttemptMoves
  <2>2. /\ account'.failed = req[r].seen.failed + 1
        /\ LockAt(req[r].seen.failed + 1) => account'.lockedUntil = now + Lockout
        /\ failures' = failures + 1
        /\ raced \subseteq raced'
        /\ At(r, {"failed"})
    BY <1>3, Typed DEF RegisterFailedAttempt, Account
  <2>3. "counter" \notin raced' => \A o \in Others(r) : ~At(o, {"failed"})
    BY <1>3 DEF RegisterFailedAttempt, CounterRace, Race
  <2>4. now + Lockout # 0
    BY Typed, ConfigAssumption
  <2>5. "counter" \notin raced' => req[r].seen.failed = failures
    BY <2>2 DEF CounterOK
  <2>6. "counter" \notin raced' =>
          account'.failed = failures' /\ (failures' >= MaxFailed => account'.lockedUntil # 0)
    BY <2>2, <2>4, <2>5 DEF LockAt
  <2> QED BY <2>1, <2>3, <2>6 DEF CounterOK, Rest, Others, At
<1>4. ASSUME NEW r \in Requests, SaveLogin(r)
      PROVE  CounterOK'
  <2>1. Rest(r) /\ req'[r].pc = "session"
    BY <1>4, SaveLoginMoves
  <2>2. WithRehash(r) \in Account
    <3>1. req[r].password \in Passwords
      BY Typed DEF Request
    <3> QED BY <3>1, Typed DEF WithRehash, Account
  <2>3. account'.failed = 0 /\ failures' = 0 /\ raced \subseteq raced'
    BY <1>4, <2>2 DEF SaveLogin, Account
  <2>4. "counter" \notin raced' => \A o \in Others(r) : ~At(o, {"failed"})
    BY <1>4 DEF SaveLogin, CounterRace, Race
  <2>5. ~(0 >= MaxFailed)
    BY ConfigAssumption
  <2> QED BY <2>1, <2>3, <2>4, <2>5 DEF CounterOK, Rest, Others, At
<1>5. ASSUME NEW r \in Requests, NEW s \in Sessions, IssueSession(r, s)
      PROVE  CounterOK'
  BY <1>5, IssueSessionMoves DEF IssueSession, CounterOK, Rest, Others, At
<1>6. ASSUME NEW r \in Requests, LookupForgot(r)
      PROVE  CounterOK'
  BY <1>6, LookupForgotMoves DEF LookupForgot, CounterOK, Rest, Others, At
<1>7. ASSUME NEW r \in Requests, SpendLinks(r)
      PROVE  CounterOK'
  <2>1. UNCHANGED <<now, account, links, sessions, chosen, latest, failures, raced>>
    BY <1>7 DEF SpendLinks
  <2>2. Rest(r) /\ req'[r].pc = "create" /\ req'[r].stale = Unspent
    BY <1>7, SpendLinksMoves
  <2>. QED BY <2>1, <2>2, Zenon DEF CounterOK, Rest, Others, At
<1>8. ASSUME NEW r \in Requests, NEW l \in Links, CreateLink(r, l)
      PROVE  CounterOK'
  BY <1>8, CreateLinkMoves DEF CreateLink, CounterOK, Rest, Others, At
<1>9. ASSUME NEW r \in Requests, NEW l \in Links, LookupReset(r, l)
      PROVE  CounterOK'
  BY <1>9, LookupResetMoves, Zenon DEF LookupReset, CounterOK, Rest, Others, At
<1>10. ASSUME NEW r \in Requests, SaveReset(r)
      PROVE  CounterOK'
  <2>1. Rest(r) /\ req'[r].pc = "resetRevoke"
    BY <1>10, SaveResetMoves
  <2>2. account'.failed = 0 /\ failures' = 0 /\ raced \subseteq raced'
    BY <1>10, Typed DEF SaveReset, Account
  <2>3. "counter" \notin raced' => \A o \in Others(r) : ~At(o, {"failed"})
    BY <1>10 DEF SaveReset, CounterRace, Race
  <2>4. ~(0 >= MaxFailed)
    BY ConfigAssumption
  <2> QED BY <2>1, <2>2, <2>3, <2>4 DEF CounterOK, Rest, Others, At
<1>11. ASSUME NEW r \in Requests, RevokeAfterReset(r)
      PROVE  CounterOK'
  BY <1>11, RevokeAfterResetMoves DEF RevokeAfterReset, CounterOK, Rest, Others, At
<1>12. ASSUME NEW r \in Requests, NEW s \in Sessions, LookupChange(r, s)
      PROVE  CounterOK'
  BY <1>12, LookupChangeMoves, Zenon DEF LookupChange, CounterOK, Rest, Others, At
<1>13. ASSUME NEW r \in Requests, SaveChange(r)
      PROVE  CounterOK'
  <2>1. account'.failed = account.failed /\ account'.lockedUntil = account.lockedUntil
    BY <1>13, Typed DEF SaveChange, Account
  <2> QED BY <1>13, <2>1, SaveChangeMoves, Zenon DEF SaveChange, CounterOK, Rest, Others, At
<1>14. ASSUME NEW r \in Requests, RevokeAfterChange(r)
      PROVE  CounterOK'
  BY <1>14, RevokeAfterChangeMoves DEF RevokeAfterChange, CounterOK, Rest, Others, At
<1>15. ASSUME NEW r \in Requests, Fail(r)
      PROVE  CounterOK'
  BY <1>15, FailMoves DEF Fail, CounterOK, Rest, Others, At
<1>16. CASE SetStatus
  BY <1>16, Typed DEF SetStatus, CounterOK, Account, At
<1>17. CASE Tick
  BY <1>17, Typed DEF Tick, CounterOK, Account, At
<1>18. CASE UNCHANGED vars
  BY <1>18, Typed DEF vars, CounterOK, Account, At
<1> QED BY <1>1, <1>2, <1>3, <1>4, <1>5, <1>6, <1>7, <1>8, <1>9,
    <1>10, <1>11, <1>12, <1>13, <1>14, <1>15, <1>16, <1>17, <1>18
    DEF Next

LEMMA LinksStep ==
  ASSUME Good, LinksOK, [Next]_vars
  PROVE  LinksOK'
<1>1. ASSUME NEW r \in Requests, RejectPassword(r)
      PROVE  LinksOK'
  BY <1>1, RejectPasswordMoves DEF RejectPassword, LinksOK, Unspent, Rest, Others, At
<1>2. ASSUME NEW r \in Requests, AcceptPassword(r)
      PROVE  LinksOK'
  BY <1>2, AcceptPasswordMoves DEF AcceptPassword, LinksOK, Unspent, Rest, Others, At
<1>3. ASSUME NEW r \in Requests, RegisterFailedAttempt(r)
      PROVE  LinksOK'
  BY <1>3, RegisterFailedAttemptMoves, Zenon
  DEF RegisterFailedAttempt, LinksOK, Unspent, Rest, Others, At
<1>4. ASSUME NEW r \in Requests, SaveLogin(r)
      PROVE  LinksOK'
  BY <1>4, SaveLoginMoves, Zenon DEF SaveLogin, LinksOK, Unspent, Rest, Others, At
<1>5. ASSUME NEW r \in Requests, NEW s \in Sessions, IssueSession(r, s)
      PROVE  LinksOK'
  BY <1>5, IssueSessionMoves DEF IssueSession, LinksOK, Unspent, Rest, Others, At
<1>6. ASSUME NEW r \in Requests, LookupForgot(r)
      PROVE  LinksOK'
  BY <1>6, LookupForgotMoves DEF LookupForgot, LinksOK, Unspent, Rest, Others, At
<1>7. ASSUME NEW r \in Requests, SpendLinks(r)
      PROVE  LinksOK'
  <2>1. UNCHANGED <<now, account, links, sessions, chosen, latest, failures, raced>>
    BY <1>7 DEF SpendLinks
  <2>2. Rest(r) /\ req'[r].pc = "create" /\ req'[r].stale = Unspent
    BY <1>7, SpendLinksMoves
  <2>. QED BY <2>1, <2>2, Zenon DEF LinksOK, Unspent, Rest, Others, At
<1>8. ASSUME NEW r \in Requests, NEW l \in Links, CreateLink(r, l)
      PROVE  LinksOK'
  <2>1. Rest(r) /\ req'[r].pc = "idle" /\ At(r, {"create"})
    BY <1>8, CreateLinkMoves DEF CreateLink
  <2>2. \A k \in Links :
          k # l => /\ links'[k].issued = links[k].issued
                   /\ links'[k].used = (links[k].used \/ k \in req[r].stale)
    BY <1>8, Typed DEF CreateLink, LinksWith, Link
  <2>3. links'[l].used = FALSE
    BY <1>8, Typed DEF CreateLink, LinksWith, Link
  <2>4. raced \subseteq raced'
    BY <1>8 DEF CreateLink
  <2>5. ASSUME "forgot" \notin raced'
        PROVE  /\ \A k, m \in Unspent' : k = m
               /\ \A o \in Requests : At(o, {"create"})' => Unspent' \subseteq req'[o].stale
    <3>1. \A o \in Others(r) : ~At(o, {"create"})
      BY <1>8, <2>5 DEF CreateLink, Race
    <3>2. Unspent \subseteq req[r].stale
      BY <2>1, <2>4, <2>5 DEF LinksOK
    <3>3. Unspent' \subseteq {l}
      BY <2>2, <3>2 DEF Unspent
    <3> QED BY <2>1, <3>1, <3>3 DEF Rest, Others, At
  <2> QED BY <2>5 DEF LinksOK
<1>9. ASSUME NEW r \in Requests, NEW l \in Links, LookupReset(r, l)
      PROVE  LinksOK'
  BY <1>9, LookupResetMoves DEF LookupReset, LinksOK, Unspent, Rest, Others, At
<1>10. ASSUME NEW r \in Requests, SaveReset(r)
      PROVE  LinksOK'
  <2>1. Rest(r) /\ req'[r].pc = "resetRevoke"
    BY <1>10, SaveResetMoves
  <2>2. \A k \in Links : /\ links'[k].issued = links[k].issued
                        /\ links'[k].used = (links[k].used \/ k = req[r].link)
    BY <1>10, Typed DEF SaveReset, Link
  <2>3. raced \subseteq raced'
    BY <1>10 DEF SaveReset
  <2>5. Unspent' \subseteq Unspent
    BY <2>2 DEF Unspent
  <2>8. ASSUME "forgot" \notin raced'
        PROVE  /\ \A k, m \in Unspent' : k = m
               /\ \A o \in Requests : At(o, {"create"})' => Unspent' \subseteq req'[o].stale
    BY <2>1, <2>3, <2>5, <2>8 DEF LinksOK, Rest, Others, At
  <2> QED BY <2>8 DEF LinksOK
<1>11. ASSUME NEW r \in Requests, RevokeAfterReset(r)
      PROVE  LinksOK'
  BY <1>11, RevokeAfterResetMoves DEF RevokeAfterReset, LinksOK, Unspent, Rest, Others, At
<1>12. ASSUME NEW r \in Requests, NEW s \in Sessions, LookupChange(r, s)
      PROVE  LinksOK'
  BY <1>12, LookupChangeMoves, Zenon DEF LookupChange, LinksOK, Unspent, Rest, Others, At
<1>13. ASSUME NEW r \in Requests, SaveChange(r)
      PROVE  LinksOK'
  BY <1>13, SaveChangeMoves, Zenon DEF SaveChange, LinksOK, Unspent, Rest, Others, At
<1>14. ASSUME NEW r \in Requests, RevokeAfterChange(r)
      PROVE  LinksOK'
  BY <1>14, RevokeAfterChangeMoves DEF RevokeAfterChange, LinksOK, Unspent, Rest, Others, At
<1>15. ASSUME NEW r \in Requests, Fail(r)
      PROVE  LinksOK'
  BY <1>15, FailMoves DEF Fail, LinksOK, Unspent, Rest, Others, At
<1>16. CASE SetStatus
  BY <1>16 DEF SetStatus, LinksOK, Unspent, At
<1>17. CASE Tick
  BY <1>17 DEF Tick, LinksOK, Unspent, At
<1>18. CASE UNCHANGED vars
  BY <1>18 DEF vars, LinksOK, Unspent, At
<1> QED BY <1>1, <1>2, <1>3, <1>4, <1>5, <1>6, <1>7, <1>8, <1>9,
    <1>10, <1>11, <1>12, <1>13, <1>14, <1>15, <1>16, <1>17, <1>18
    DEF Next

\* A step that ends no session, opens none and writes no password keeps what ends.
LEMMA SessionsQuiet ==
  ASSUME OldSessionsEnd, NEW r \in Requests, Rest(r),
         latest' = latest, sessions' = sessions, missed' = missed,
         ~At(r, {"resetRevoke", "changeRevoke"})
  PROVE  OldSessionsEnd'
<1>1. \A o \in Requests, s \in Sessions : Ends(o, s) => Ends(o, s)'
  BY DEF Ends, Rest, Others, At
<1> QED BY <1>1 DEF OldSessionsEnd

LEMMA SessionsStep ==
  ASSUME Good, OldSessionsEnd, [Next]_vars
  PROVE  OldSessionsEnd'
<1>1. ASSUME NEW r \in Requests, RejectPassword(r)
      PROVE  OldSessionsEnd'
  <2>1. Rest(r)
    BY <1>1, RejectPasswordMoves
  <2>2. /\ latest' = latest /\ sessions' = sessions /\ missed' = missed
        /\ ~At(r, {"resetRevoke", "changeRevoke"})
    BY <1>1 DEF RejectPassword, At
  <2> QED BY <2>1, <2>2, SessionsQuiet
<1>2. ASSUME NEW r \in Requests, AcceptPassword(r)
      PROVE  OldSessionsEnd'
  <2>1. Rest(r)
    BY <1>2, AcceptPasswordMoves
  <2>2. /\ latest' = latest /\ sessions' = sessions /\ missed' = missed
        /\ ~At(r, {"resetRevoke", "changeRevoke"})
    BY <1>2 DEF AcceptPassword, At
  <2> QED BY <2>1, <2>2, SessionsQuiet
<1>3. ASSUME NEW r \in Requests, RegisterFailedAttempt(r)
      PROVE  OldSessionsEnd'
  <2>1. Rest(r)
    BY <1>3, RegisterFailedAttemptMoves
  <2>2. /\ latest' = latest /\ sessions' = sessions /\ missed' = missed
        /\ ~At(r, {"resetRevoke", "changeRevoke"})
    BY <1>3 DEF RegisterFailedAttempt, At
  <2> QED BY <2>1, <2>2, SessionsQuiet
<1>4. ASSUME NEW r \in Requests, SaveLogin(r)
      PROVE  OldSessionsEnd'
  <2>1. Rest(r)
    BY <1>4, SaveLoginMoves
  <2>2. /\ latest' = latest /\ sessions' = sessions /\ missed' = missed
        /\ ~At(r, {"resetRevoke", "changeRevoke"})
    BY <1>4 DEF SaveLogin, At
  <2> QED BY <2>1, <2>2, SessionsQuiet
<1>5. ASSUME NEW r \in Requests, NEW s \in Sessions, IssueSession(r, s)
      PROVE  OldSessionsEnd'
  <2>1. Rest(r) /\ At(r, {"session"})
    BY <1>5, IssueSessionMoves DEF IssueSession
  <2>2. \A t \in Sessions : t # s => sessions'[t] = sessions[t]
    BY <1>5, Typed DEF IssueSession
  <2>3. sessions'[s].proved = req[r].password
    BY <1>5, Typed DEF IssueSession
  <2>4. /\ missed \subseteq missed' /\ latest' = latest
        /\ req[r].password # latest => s \in missed'
    BY <1>5 DEF IssueSession
  <2>5. \A o \in Requests, t \in Sessions : Ends(o, t) => Ends(o, t)'
    BY <2>1 DEF Ends, Rest, Others, At
  <2> QED BY <2>2, <2>3, <2>4, <2>5 DEF OldSessionsEnd
<1>6. ASSUME NEW r \in Requests, LookupForgot(r)
      PROVE  OldSessionsEnd'
  <2>1. Rest(r)
    BY <1>6, LookupForgotMoves
  <2>2. /\ latest' = latest /\ sessions' = sessions /\ missed' = missed
        /\ ~At(r, {"resetRevoke", "changeRevoke"})
    BY <1>6 DEF LookupForgot, At
  <2> QED BY <2>1, <2>2, SessionsQuiet
<1>7. ASSUME NEW r \in Requests, SpendLinks(r)
      PROVE  OldSessionsEnd'
  <2>1. Rest(r)
    BY <1>7, SpendLinksMoves
  <2>2. /\ latest' = latest /\ sessions' = sessions /\ missed' = missed
        /\ ~At(r, {"resetRevoke", "changeRevoke"})
    BY <1>7 DEF SpendLinks, At
  <2> QED BY <2>1, <2>2, SessionsQuiet
<1>8. ASSUME NEW r \in Requests, NEW l \in Links, CreateLink(r, l)
      PROVE  OldSessionsEnd'
  <2>1. Rest(r)
    BY <1>8, CreateLinkMoves
  <2>2. /\ latest' = latest /\ sessions' = sessions /\ missed' = missed
        /\ ~At(r, {"resetRevoke", "changeRevoke"})
    BY <1>8 DEF CreateLink, At
  <2> QED BY <2>1, <2>2, SessionsQuiet
<1>9. ASSUME NEW r \in Requests, NEW l \in Links, LookupReset(r, l)
      PROVE  OldSessionsEnd'
  <2>1. Rest(r)
    BY <1>9, LookupResetMoves
  <2>2. /\ latest' = latest /\ sessions' = sessions /\ missed' = missed
        /\ ~At(r, {"resetRevoke", "changeRevoke"})
    BY <1>9 DEF LookupReset, At
  <2> QED BY <2>1, <2>2, SessionsQuiet
<1>10. ASSUME NEW r \in Requests, SaveReset(r)
      PROVE  OldSessionsEnd'
  <2>1. req'[r].pc = "resetRevoke"
    BY <1>10, SaveResetMoves
  <2> QED BY <2>1 DEF OldSessionsEnd, Ends, At
<1>11. ASSUME NEW r \in Requests, RevokeAfterReset(r)
      PROVE  OldSessionsEnd'
  <2>1. \A s \in Sessions : sessions'[s].state # "live"
    BY <1>11, Typed, ConfigAssumption DEF RevokeAfterReset, EndSessions, Session
  <2> QED BY <2>1 DEF OldSessionsEnd
<1>12. ASSUME NEW r \in Requests, NEW s \in Sessions, LookupChange(r, s)
      PROVE  OldSessionsEnd'
  <2>1. Rest(r)
    BY <1>12, LookupChangeMoves
  <2>2. /\ latest' = latest /\ sessions' = sessions /\ missed' = missed
        /\ ~At(r, {"resetRevoke", "changeRevoke"})
    BY <1>12 DEF LookupChange, At
  <2> QED BY <2>1, <2>2, SessionsQuiet
<1>13. ASSUME NEW r \in Requests, SaveChange(r)
      PROVE  OldSessionsEnd'
  <2>1. req'[r].pc = "changeRevoke" /\ req'[r].session = req[r].session
    BY <1>13, SaveChangeMoves
  <2>2. \A s \in Sessions : s = req[r].session => sessions'[s].proved = latest'
    BY <1>13, Typed DEF SaveChange, Session
  <2>3. \A s \in Sessions : s # req[r].session => Ends(r, s)'
    BY <2>1 DEF Ends, At
  <2> QED BY <2>2, <2>3 DEF OldSessionsEnd
<1>14. ASSUME NEW r \in Requests, RevokeAfterChange(r)
      PROVE  OldSessionsEnd'
  <2>1. Rest(r) /\ At(r, {"changeRevoke"})
    BY <1>14, RevokeAfterChangeMoves DEF RevokeAfterChange
  <2>2. \A s \in Sessions :
          sessions'[s].state = "live" =>
            s = req[r].session /\ sessions[s].state = "live"
            /\ sessions'[s].proved = sessions[s].proved
    BY <1>14, Typed DEF RevokeAfterChange, EndSessions, Session
  <2>3. \A o \in Requests, s \in Sessions :
          s = req[r].session /\ Ends(o, s) => Ends(o, s)'
    BY <2>1 DEF Ends, Rest, Others, At
  <2>4. missed' = missed /\ latest' = latest
    BY <1>14 DEF RevokeAfterChange
  <2> QED BY <2>2, <2>3, <2>4 DEF OldSessionsEnd
<1>15. ASSUME NEW r \in Requests, Fail(r)
      PROVE  OldSessionsEnd'
  <2>1. Rest(r)
    BY <1>15, FailMoves
  <2>2. latest' = latest /\ sessions' = sessions /\ missed \subseteq missed'
    BY <1>15 DEF Fail
  <2>3. \A s \in Sessions : sessions[s].state = "live" /\ Ends(r, s) => s \in missed'
    BY <1>15 DEF Fail
  <2>4. \A o \in Others(r), s \in Sessions : Ends(o, s) => Ends(o, s)'
    BY <2>1 DEF Ends, Rest, Others, At
  <2> QED BY <2>2, <2>3, <2>4 DEF OldSessionsEnd, Others
<1>16. CASE SetStatus
  BY <1>16 DEF SetStatus, OldSessionsEnd, Ends, At
<1>17. CASE Tick
  BY <1>17 DEF Tick, OldSessionsEnd, Ends, At
<1>18. CASE UNCHANGED vars
  BY <1>18 DEF vars, OldSessionsEnd, Ends, At
<1> QED BY <1>1, <1>2, <1>3, <1>4, <1>5, <1>6, <1>7, <1>8, <1>9,
    <1>10, <1>11, <1>12, <1>13, <1>14, <1>15, <1>16, <1>17, <1>18
    DEF Next

-----------------------------------------------------------------------------

Strong == Good /\ PasswordOK /\ CounterOK /\ LinksOK /\ OldSessionsEnd

LEMMA InitStrong == ASSUME Init PROVE Strong
<1>1. Idle \in Request /\ Idle.pc = "idle" /\ 0 \in Passwords
  BY IdleTyped
<1>2. 0 \in Times /\ 0 \in 0 .. MaxFailures /\ 1 \in 1 .. MaxNow
  BY ConfigAssumption DEF Times
<1>3. \A o \in Requests : req[o] = Idle
  BY DEF Init
<1>4. account \in Account
  BY <1>1, <1>2 DEF Init, Account
<1>5. links \in [Links -> Link]
  BY <1>2 DEF Init, Link
<1>6. sessions \in [Sessions -> Session]
  BY <1>1 DEF Init, Session
<1>7. req \in [Requests -> Request]
  BY <1>1 DEF Init
<1>8. Good
  BY <1>1, <1>2, <1>3, <1>4, <1>5, <1>6, <1>7 DEF Init, Good, TypeOK, Keeps
<1>9. PasswordOK
  BY <1>1, <1>3 DEF Init, PasswordOK, At
<1>10. CounterOK
  <2>1. ~(0 >= MaxFailed)
    BY ConfigAssumption
  <2> QED BY <1>1, <1>3, <2>1 DEF Init, CounterOK, At
<1>11. LinksOK
  BY <1>1, <1>3 DEF Init, LinksOK, Unspent, At
<1>12. OldSessionsEnd
  BY DEF Init, OldSessionsEnd
<1> QED BY <1>8, <1>9, <1>10, <1>11, <1>12 DEF Strong

\* The inductive invariant holds in every reachable state of login, forgotPassword,
\* resetPassword and changePassword, whatever their interleaving.
THEOREM StrongInvariant == Spec => []Strong
<1>1. Init => Strong
  BY InitStrong
<1>2. Strong /\ [Next]_vars => Strong'
  BY GoodStep, PasswordStep, CounterStep, LinksStep, SessionsStep DEF Strong
<1> QED BY <1>1, <1>2, PTL DEF Spec

\* Every variable keeps its type: the columns of the users row, of the links and of
\* the sessions hold what the code can have written.
THEOREM TypeCorrect == Spec => []TypeOK
<1>1. Strong => TypeOK
  BY DEF Strong, Good
<1> QED BY <1>1, StrongInvariant, PTL

\* The stored password is the one last reset or changed to; a re-hash on login does
\* not bring an older one back unless it began before the change.
THEOREM LatestPassword == Spec => []LatestPasswordStands
<1>1. Strong => LatestPasswordStands
  BY DEF Strong, PasswordOK, LatestPasswordStands
<1> QED BY <1>1, StrongInvariant, PTL

\* resetPassword and changePassword end every session that proved only an older
\* password, or are about to; what is left was opened when its password was already
\* replaced, or its request stopped before revoking.
THEOREM OldSessionsEnded == Spec => []OldSessionsEnd
<1>1. Strong => OldSessionsEnd
  BY DEF Strong
<1> QED BY <1>1, StrongInvariant, PTL

\* The stored counter is the number of wrong passwords in a row, and the account is
\* locked once it reaches the limit, while no two attempts count from one row.
THEOREM FailuresLocked == Spec => []FailuresLock
<1>1. Strong => FailuresLock
  BY DEF Strong, CounterOK, FailuresLock
<1> QED BY <1>1, StrongInvariant, PTL

\* forgotPassword supersedes what it issued before: one link at most is open.
THEOREM OneLinkOpen == Spec => []OneOpenLink
<1>1. Strong => OneOpenLink
  <2> SUFFICES ASSUME Strong, "forgot" \notin raced
               PROVE  Cardinality({l \in Links : LinkOpen(l)}) <= 1
    BY DEF OneOpenLink, NewestLinkOnly
  <2> DEFINE Open == {l \in Links : LinkOpen(l)}
  <2>1. \A k, l \in Open : k = l
    BY DEF Strong, LinksOK, Unspent, LinkOpen
  <2>2. CASE Open = {}
    BY <2>2, FS_EmptySet
  <2>3. CASE Open # {}
    <3>1. PICK l \in Open : TRUE
      BY <2>3
    <3>2. Open = {l}
      BY <2>1, <3>1
    <3>3. Cardinality({l}) = 1
      BY FS_Singleton
    <3> QED BY <3>2, <3>3
  <2> QED BY <2>2, <2>3
<1> QED BY <1>1, StrongInvariant, PTL

=============================================================================
