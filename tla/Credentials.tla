----------------------------- MODULE Credentials -----------------------------
(***************************************************************************)
(* The password of one account and everything that reads or writes it:     *)
(* AuthService.login with its lockout counter and its re-hash of old       *)
(* hashes, forgotPassword, resetPassword and changePassword.               *)
(*                                                                         *)
(* Passwords are numbered in the order they are chosen, so the stored hash *)
(* is the number it verifies.  A request holds what it read of the row     *)
(* until it writes; between two steps other requests run, and a request    *)
(* may stop there for good.  Ending sessions is one step here; its own     *)
(* interleavings are TokenService's.                                       *)
(***************************************************************************)
EXTENDS Integers, FiniteSets

CONSTANTS
  Requests,       \* requests in flight at the same time
  Links,          \* password_reset_tokens rows
  Sessions,       \* sessions rows
  MaxFailed,      \* LOGIN_MAX_FAILED_ATTEMPTS
  Lockout,        \* LOGIN_LOCKOUT_MINUTES
  LinkTtl,        \* PASSWORD_RESET_TTL_MINUTES
  MaxPasswords,   \* bound: how many passwords are chosen after the first
  MaxFailures,    \* bound: failed logins in a row
  MaxNow,         \* bound: minutes that pass
  None            \* no link, no session

ASSUME ConfigAssumption ==
  /\ MaxFailed \in Nat /\ MaxFailed >= 3
  /\ Lockout \in Nat \ {0}
  /\ LinkTtl \in Nat \ {0}
  /\ {MaxPasswords, MaxFailures} \subseteq Nat
  /\ MaxNow \in Nat \ {0}
  /\ None \notin Links \cup Sessions

VARIABLES
  now,       \* minutes, from 1; 0 stands for a null timestamp
  account,   \* the users row
  links,     \* the password_reset_tokens rows
  sessions,  \* the sessions rows, with the password each has proved
  req,       \* the requests being handled
  chosen,    \* passwords chosen so far
  latest,    \* history: the password last written by a reset or a change
  failures,  \* history: failed logins since the last success or reset
  raced,     \* history: which writes landed inside another request's window
  missed     \* history: sessions opened on a password already replaced, or left by a
             \* request that stopped when it was to end them

vars == <<now, account, links, sessions, req, chosen, latest, failures, raced, missed>>

Passwords == 0 .. MaxPasswords
Times == 0 .. MaxNow + Lockout + LinkTtl

Account == [password: Passwords, weak: BOOLEAN, enabled: BOOLEAN,
            failed: 0 .. MaxFailures, lockedUntil: Times]

Link == [issued: BOOLEAN, used: BOOLEAN, expiresAt: Times]

Session == [state: {"unused", "live", "ended"}, proved: Passwords]

Row == [failed: 0 .. MaxFailures, lockedUntil: Times, weak: BOOLEAN]

Request == [pc: {"idle", "failed", "save", "session", "forgot", "create",
                 "reset", "resetRevoke", "change", "changeRevoke"},
            password: Passwords, seen: {None} \cup Row,
            link: Links \cup {None}, stale: SUBSET Links,
            session: Sessions \cup {None}]

Idle == [pc |-> "idle", password |-> 0, seen |-> None, link |-> None,
         stale |-> {}, session |-> None]

\* "counter": a failed login counted from a row another login had changed since;
\* "password": a re-hash began before a new password was written;
\* "forgot": a link was issued while another request was issuing one.
Races == {"counter", "password", "forgot"}

TypeOK ==
  /\ now \in 1 .. MaxNow
  /\ account \in Account
  /\ links \in [Links -> Link]
  /\ sessions \in [Sessions -> Session]
  /\ req \in [Requests -> Request]
  /\ {chosen, latest} \subseteq Passwords
  /\ failures \in 0 .. MaxFailures
  /\ raced \subseteq Races
  /\ missed \subseteq Sessions

Init ==
  /\ now = 1
  /\ \E weak \in BOOLEAN :
       account = [password |-> 0, weak |-> weak, enabled |-> TRUE,
                  failed |-> 0, lockedUntil |-> 0]
  /\ links = [l \in Links |-> [issued |-> FALSE, used |-> FALSE, expiresAt |-> 0]]
  /\ sessions = [s \in Sessions |-> [state |-> "unused", proved |-> 0]]
  /\ req = [r \in Requests |-> Idle]
  /\ chosen = 0 /\ latest = 0 /\ failures = 0
  /\ raced = {} /\ missed = {}

-----------------------------------------------------------------------------

Others(r) == Requests \ {r}
At(r, steps) == req[r].pc \in steps
Goto(r, request) == req' = [req EXCEPT ![r] = request]
Finish(r) == Goto(r, Idle)
Race(kind, happens) == IF happens THEN {kind} ELSE {}

\* Writing the counter while a failed login has yet to write its own.
CounterRace(r) == Race("counter", \E o \in Others(r) : At(o, {"failed"}))

Locked == account.lockedUntil > now

\* The columns of the row a login uses after it has checked the password.
Columns == [failed |-> account.failed, lockedUntil |-> account.lockedUntil,
            weak |-> account.weak]

LinkOpen(l) == links[l].issued /\ ~links[l].used /\ links[l].expiresAt > now

-----------------------------------------------------------------------------
(* login *)

\* findByEmail and what is decided from the row it returned: a locked account is
\* refused before the password is looked at, a disabled one after it.
RejectPassword(r) ==
  /\ At(r, {"idle"})
  /\ ~Locked
  /\ account.failed < MaxFailures /\ failures < MaxFailures
  /\ Goto(r, [Idle EXCEPT !.pc = "failed", !.seen = Columns])
  /\ UNCHANGED <<now, account, links, sessions, chosen, latest, failures, raced, missed>>

AcceptPassword(r) ==
  /\ At(r, {"idle"})
  /\ ~Locked
  /\ account.enabled
  /\ Goto(r, [Idle EXCEPT !.pc = "save", !.password = account.password, !.seen = Columns])
  /\ UNCHANGED <<now, account, links, sessions, chosen, latest, failures, raced, missed>>

\* Mutant: the attempt that reaches the limit does not lock yet.
LockAfter(count) == count > MaxFailed

LockAt(count) == count >= MaxFailed

RegisterFailedAttempt(r) ==
  LET seen == req[r].seen
  IN  /\ At(r, {"failed"})
      /\ failures < MaxFailures
      /\ account' = [account EXCEPT !.failed = seen.failed + 1,
                                    !.lockedUntil = IF LockAt(seen.failed + 1)
                                                    THEN now + Lockout
                                                    ELSE seen.lockedUntil]
      /\ failures' = failures + 1
      /\ raced' = raced \cup CounterRace(r)
      /\ Finish(r)
      /\ UNCHANGED <<now, links, sessions, chosen, latest, missed>>

\* Mutant: every login writes its password's hash.
WithRehashAlways(r) == [account EXCEPT !.password = req[r].password, !.weak = FALSE]

\* The hash is replaced when the one that was read was weak.
WithRehash(r) ==
  IF req[r].seen.weak
  THEN [account EXCEPT !.password = req[r].password, !.weak = FALSE]
  ELSE account

SaveLogin(r) ==
  /\ At(r, {"save"})
  /\ account' = [WithRehash(r) EXCEPT !.failed = 0, !.lockedUntil = 0]
  /\ failures' = 0
  /\ raced' = raced \cup CounterRace(r)
  /\ Goto(r, [req[r] EXCEPT !.pc = "session", !.seen = None])
  /\ UNCHANGED <<now, links, sessions, chosen, latest, missed>>

IssueSession(r, s) ==
  /\ At(r, {"session"})
  /\ sessions[s].state = "unused"
  /\ sessions' = [sessions EXCEPT ![s] = [state |-> "live", proved |-> req[r].password]]
  /\ missed' = missed \cup {t \in {s} : req[r].password # latest}
  /\ Finish(r)
  /\ UNCHANGED <<now, account, links, chosen, latest, failures, raced>>

-----------------------------------------------------------------------------
(* forgotPassword: the updateMany and the create of one transaction *)

LookupForgot(r) ==
  /\ At(r, {"idle"})
  /\ account.enabled
  /\ Goto(r, [Idle EXCEPT !.pc = "forgot"])
  /\ UNCHANGED <<now, account, links, sessions, chosen, latest, failures, raced, missed>>

\* The rows the update sees; they are spent when the transaction commits.
SpendLinks(r) ==
  /\ At(r, {"forgot"})
  /\ Goto(r, [req[r] EXCEPT !.pc = "create",
                            !.stale = {l \in Links : links[l].issued /\ ~links[l].used}])
  /\ UNCHANGED <<now, account, links, sessions, chosen, latest, failures, raced, missed>>

\* Mutant: the old links stay open.
LinksWithNewOnly(stale, l) ==
  [links EXCEPT ![l] = [issued |-> TRUE, used |-> FALSE, expiresAt |-> now + LinkTtl]]

\* The stale links spent, l issued.
LinksWith(stale, l) ==
  [k \in Links |->
     IF k = l THEN [issued |-> TRUE, used |-> FALSE, expiresAt |-> now + LinkTtl]
     ELSE [links[k] EXCEPT !.used = @ \/ k \in stale]]

CreateLink(r, l) ==
  /\ At(r, {"create"})
  /\ ~links[l].issued
  /\ links' = LinksWith(req[r].stale, l)
  /\ raced' = raced \cup Race("forgot", \E o \in Others(r) : At(o, {"create"}))
  /\ Finish(r)
  /\ UNCHANGED <<now, account, sessions, chosen, latest, failures, missed>>

-----------------------------------------------------------------------------
(* resetPassword and changePassword *)

\* A new password is written while a login is to write back the old one.
PasswordRace(r) ==
  Race("password", \E o \in Others(r) : At(o, {"save"}) /\ req[o].seen.weak)

LookupReset(r, l) ==
  /\ At(r, {"idle"})
  /\ LinkOpen(l)
  /\ account.enabled
  /\ chosen < MaxPasswords
  /\ chosen' = chosen + 1
  /\ Goto(r, [Idle EXCEPT !.pc = "reset", !.password = chosen + 1, !.link = l])
  /\ UNCHANGED <<now, account, links, sessions, latest, failures, raced, missed>>

\* One transaction: the link is used, the password is written, the lock is lifted.
SaveReset(r) ==
  /\ At(r, {"reset"})
  /\ links' = [links EXCEPT ![req[r].link].used = TRUE]
  /\ account' = [account EXCEPT !.password = req[r].password, !.weak = FALSE,
                                !.failed = 0, !.lockedUntil = 0]
  /\ latest' = req[r].password
  /\ failures' = 0
  /\ raced' = raced \cup PasswordRace(r) \cup CounterRace(r)
  /\ Goto(r, [req[r] EXCEPT !.pc = "resetRevoke"])
  /\ UNCHANGED <<now, sessions, chosen, missed>>

\* r has written a password and has still to end session s.
Ends(r, s) ==
  \/ At(r, {"resetRevoke"})
  \/ At(r, {"changeRevoke"}) /\ req[r].session # s

\* revokeAllUserSessions, sparing the session a change was made from.
EndSessions(spared) ==
  [s \in Sessions |-> IF s # spared /\ sessions[s].state = "live"
                      THEN [sessions[s] EXCEPT !.state = "ended"]
                      ELSE sessions[s]]

RevokeAfterReset(r) ==
  /\ At(r, {"resetRevoke"})
  /\ sessions' = EndSessions(None)
  /\ Finish(r)
  /\ UNCHANGED <<now, account, links, chosen, latest, failures, raced, missed>>

\* The caller is signed in with session s and proves the current password.
LookupChange(r, s) ==
  /\ At(r, {"idle"})
  /\ account.enabled
  /\ sessions[s].state = "live"
  /\ chosen < MaxPasswords
  /\ chosen' = chosen + 1
  /\ Goto(r, [Idle EXCEPT !.pc = "change", !.password = chosen + 1, !.session = s])
  /\ UNCHANGED <<now, account, links, sessions, latest, failures, raced, missed>>

SaveChange(r) ==
  /\ At(r, {"change"})
  /\ account' = [account EXCEPT !.password = req[r].password, !.weak = FALSE]
  /\ latest' = req[r].password
  /\ sessions' = [sessions EXCEPT ![req[r].session].proved = req[r].password]
  /\ raced' = raced \cup PasswordRace(r)
  /\ Goto(r, [req[r] EXCEPT !.pc = "changeRevoke"])
  /\ UNCHANGED <<now, links, chosen, failures, missed>>

\* Mutant: the other sessions are left alone.
RevokeNothing(r) ==
  /\ At(r, {"changeRevoke"})
  /\ Finish(r)
  /\ UNCHANGED <<now, account, links, sessions, chosen, latest, failures, raced, missed>>

RevokeAfterChange(r) ==
  /\ At(r, {"changeRevoke"})
  /\ sessions' = EndSessions(req[r].session)
  /\ Finish(r)
  /\ UNCHANGED <<now, account, links, chosen, latest, failures, raced, missed>>

-----------------------------------------------------------------------------

\* The process dies or a statement fails.
Fail(r) ==
  /\ ~At(r, {"idle"})
  /\ missed' = missed \cup {s \in Sessions : sessions[s].state = "live" /\ Ends(r, s)}
  /\ Finish(r)
  /\ UNCHANGED <<now, account, links, sessions, chosen, latest, failures, raced>>

\* UserService.update: an administrator disables or enables the account.
SetStatus ==
  /\ account' = [account EXCEPT !.enabled = ~@]
  /\ UNCHANGED <<now, links, sessions, req, chosen, latest, failures, raced, missed>>

Tick ==
  /\ now < MaxNow
  /\ now' = now + 1
  /\ UNCHANGED <<account, links, sessions, req, chosen, latest, failures, raced, missed>>

Next ==
  \/ \E r \in Requests :
       \/ RejectPassword(r)
       \/ AcceptPassword(r)
       \/ RegisterFailedAttempt(r)
       \/ SaveLogin(r)
       \/ \E s \in Sessions : IssueSession(r, s)
       \/ LookupForgot(r)
       \/ SpendLinks(r)
       \/ \E l \in Links : CreateLink(r, l)
       \/ \E l \in Links : LookupReset(r, l)
       \/ SaveReset(r)
       \/ RevokeAfterReset(r)
       \/ \E s \in Sessions : LookupChange(r, s)
       \/ SaveChange(r)
       \/ RevokeAfterChange(r)
       \/ Fail(r)
  \/ SetStatus
  \/ Tick

Spec == Init /\ [][Next]_vars

-----------------------------------------------------------------------------
(* Properties *)

\* The password that signs in is the one last set by a reset or a change; only a
\* login that read a weak hash before and re-hashed after can bring another back.
LatestPasswordStands == "password" \notin raced => account.password = latest

\* A session that proved only an older password is about to be ended by the request
\* that wrote a newer one, whatever writes cross; what is left open was opened when
\* its password was already replaced, or its request stopped before revoking.
OldSessionsEnd ==
  \A s \in Sessions :
    sessions[s].state = "live" =>
      sessions[s].proved = latest \/ s \in missed \/ \E r \in Requests : Ends(r, s)

\* Refuted.  The comment on resetPassword (auth.service.ts:434): consuming the token, writing the
\* new hash "and revoking every session happen together", so that no session on an
\* older password stays.
NoSessionSurvives ==
  \A s \in Sessions :
    sessions[s].state = "live" =>
      sessions[s].proved = latest \/ \E r \in Requests : Ends(r, s)

\* As many wrong passwords in a row as the limit allows lock the account, unless
\* two attempts were counted from the same row.
FailuresLock ==
  "counter" \notin raced =>
    /\ account.failed = failures
    /\ failures >= MaxFailed => account.lockedUntil # 0

\* Refuted.  The comment on the limit (env.schema.ts:73), "Consecutive failed logins before the
\* account is locked", for attempts at any time.
LimitLocks == failures >= MaxFailed => account.lockedUntil # 0

\* Refuted.  The comment in forgotPassword (auth.service.ts:396): "Only the newest link should
\* work", whoever else asks for one.
NewestLinkOnly == Cardinality({l \in Links : LinkOpen(l)}) <= 1

\* Issuing a link invalidates the one before: at most one can be redeemed, unless two
\* were issued at the same time.
OneOpenLink == "forgot" \notin raced => NewestLinkOnly

\* Refuted.  The comment on the table of reset tokens (schema.prisma:223), "single-use": nobody
\* sets a password with a link that was used before.
LinkSingleUse ==
  [][\A r \in Requests :
       At(r, {"reset"}) /\ req'[r].pc = "resetRevoke" => ~links[req[r].link].used]_vars

=============================================================================
