# VendorOS: specifications of sessions, accounts, data and the web app

VendorOS is a multi-tenant back office for delivery-service companies: a NestJS
API over Prisma and PostgreSQL, a React single-page client, and a package of
shared schemas and role definitions. This directory holds TLA+ models of the
parts where requests of different people, tabs or pages meet, TLC
configurations that check them, and TLAPS proofs about the most important ones.
All paths below are relative to the repository.

## 1. The system

| component | source | state | operations |
| --- | --- | --- | --- |
| sessions and refresh tokens | `apps/api/src/modules/auth/{token,session}.service.ts`, `jwt.strategy.ts` | tables `sessions`, `refresh_tokens` | issueSession, rotate, revokeSession, revokeAllUserSessions, revokeRefreshToken, revokeOwn, validate |
| passwords | `auth/auth.service.ts`, `common/crypto` | `users` (hash, failedLoginCount, lockedUntil, status), `password_reset_tokens` | login, logout, refresh, forgotPassword, resetPassword, changePassword |
| registration | `auth/auth.service.ts`, `tenants` | `tenants`, `users`, `email_verification_tokens` | register, resendVerification, verifyEmail |
| invitations | `users/invitation.service.ts` | `invitations`, `invitation_roles` | invite, preview, accept, revoke, list |
| user administration | `users/user.service.ts` | `users.status`, `user_roles` | update, assignRoles, revokeSessions |
| roles and permissions | `packages/shared/src/rbac`, `common/rbac` | constants, mirrored into `roles`, `permissions` by a seeder | canManageRole, highestRank, permissionsForRoles, PermissionsGuard |
| tenant isolation | `common/tenancy`, `prisma/prisma.service.ts` | an AsyncLocalStorage flag per call | tenant-scope middleware, TenantContextGuard, unscoped |
| clients and projects | `modules/clients`, `modules/projects` | `clients`, `projects` | create, update, remove, findOne, list |
| audit trail | `common/audit`, `modules/audit` | `audit_logs` | record (never fails its caller), list |
| web session client | `apps/web/src/lib/{apiClient,authStorage}.ts`, `features/auth/AuthContext.tsx` | localStorage, the refresh in flight, React state | request, refresh, replay, signIn, signOut, boot |
| web screens | `apps/web/src/features`, `lib/queryClient.ts` | the query cache, the open dialog | lists, searches, forms, deletions, role changes, sign-out |
| the rest | error filter, envelope, health, Redis, mail, configuration, seeders | none that another part depends on | |

How they interact. The browser sends an access token; `JwtStrategy.validate`
reads the user and the session of that token and hands the handler a
`RequestUser`, a snapshot of roles and permissions. Guards decide on the
snapshot; handlers then run a few statements, some of them grouped in a
transaction, each of which passes the tenant-scope middleware. When the access
token has expired the browser exchanges its refresh token, once for all the calls
of a tab. Whatever ends a person's access (logout, a reset, a changed
role, a disabled account, a replayed token) goes through
`TokenService.revokeSession` or `revokeAllUserSessions`. A page reads through one
query cache, changes something, and asks for the lists the change touches again.

What is hard. There is no lock or version column anywhere: nearly every handler
reads a row, decides, and writes in a later statement, and PostgreSQL runs the
transactions at READ COMMITTED. Two requests may therefore both decide on what
neither will find when it writes. Handlers also end half way: the process may
die, or a statement fail, between two commits of one operation. Lifetimes
(sessions, tokens, links, locks) end on their own in the middle of it
all. In the browser, several tabs share localStorage and nothing else, responses
are lost, and an answer may arrive after what it belongs to is gone: the session,
the page, the dialog. `PROJECT.json` lists the places one by one as hazards.

What makes each part correct. The repository says more than the code keeps: where the
two differ, section 3 has a configuration for what is said and one for what is kept.

- Sessions: one live refresh token per session, spent tokens recognised,
  revocation complete and final, nobody let in after the session ended.
- Passwords: the newest password is the one that works, sessions opened on an
  older one end, reset links work once and only the newest one, the lock comes
  after exactly as many failures as configured.
- User administration: nobody gives or takes a role ranked above his own, a change
  leaves exactly the roles it names, a tenant keeps an active Super Admin, a user keeps
  a role.
- Invitations and registration: one account per address, with the invited roles,
  only from the one invitation that is open; every tenant has an owner.
- Tenant isolation: a query that passes the check touches rows of one tenant, and the
  lookups that cannot name one run without the check, alone.
- Clients and projects: no project without its client, one project per code, and
  whoever loses a race is told so.
- Web session: a refresh token is presented once, the user is signed out only when
  the session is gone, every call comes to an end.
- Screens: a list that passes for current holds the changes its user was told had
  succeeded, a dialog closes over lists that show what it saved, and the rows on the
  screen are those of the user who is signed in.

## 2. The modules

| module | models | run by |
| --- | --- | --- |
| `TokenService` | sessions, refresh tokens, access | `MCTokenService` |
| `SessionChain` | what a session promises: the abstract specification `TokenService` implements and `WebClient` relies on | `MCTokenService`, `MCWebClient` |
| `Credentials` | one account's password, links, lock, sessions | `MCCredentials` |
| `Roles` | the catalogue of roles and permissions and the rules on ranks, as operators | `MCUserAdmin`, `MCInvitations` |
| `UserAdmin` | status and roles of a tenant's users | `MCUserAdmin` |
| `Invitations` | invitations, registration, verification | `MCInvitations` |
| `TenantScope` | the where-clause check, what a clause matches, the exemption, as operators | `MCDelivery` |
| `Delivery` | clients and projects behind the middleware, in front of the exception filter | `MCDelivery` |
| `WebClient` | tabs, calls and refreshes over `SessionChain` | `MCWebClient` |
| `Screens` | pages over the query cache | `MCScreens` |
| `TokenServiceProofs`, `SessionChainProofs`, `CredentialsProofs`, `UserAdminProofs`, `InvitationProofs`, `DeliveryProofs`, `WebClientProofs`, `ScreensProofs` | theorems | |

The modules of the API follow one scheme. An HTTP request is a process: a record in
`req` with `pc`, the statement that comes next, and what the handler has read so
far. One action is one database statement, or one transaction when the statements
in it cannot be told apart by anyone else; hashing and other work between
statements is where other requests run. A refusal frees the slot. `Fail` drops
the request after any committed step: that is a crash, a lost connection or a
statement error. Mail and most audit rows are left out; they are written last and
their failure changes no other state (`record` catches its own errors).

**Transactions.** The transaction of `issueTokenPair` and those of
`revokeSession` and `revokeAllUserSessions` are single actions. Their updates
name rows by id, or re-check their condition when they get the row, so at READ
COMMITTED they act on the rows as they are when the locks are held. The two
transactions for which that is not enough are split: `assignRoles` (the delete
does not see rows committed after it started, `DeleteRoles` and `CreateRoles`)
and `forgotPassword` (likewise, `SpendLinks` and `CreateLink`). In both, the
effects appear at the commit. That the database may abort one of two
transactions that lock rows in opposite order is `Fail`.

**TokenService.** `session` and `token` are the two tables; `active` is
`users.status`; `now` counts days. Logins start where `AuthService.login` has
accepted the password. `LookupAccepts` to `MintNext` is `rotate`: all its checks
come before the transaction and are not repeated in it. `LookupDetectsReuse`
goes on to end the session. `BeginAccess`, `LoadUser`, `LoadSession` are
`JwtStrategy.validate`; a request that gets to `authorised` may log out, log out
everywhere, revoke one of its own sessions, or simply be answered. The variables
marked history record what the tables do not: which sessions were open when a
request began, which token was exchanged for which, and the sessions in which
two exchanges of one token overlapped. The tenant column is left out because
each user has one tenant and every where-clause also names a user or a row of
his. Unknown tokens are `None`. Access tokens are not kept: one exists for
every refresh token and only its session id matters, so `BeginAccess` may use
any session that has ever had a token, with the signature and the short expiry
of the JWT left out (they only make access rarer).

**SessionChain.** A session is opened and ended once. While it is open it has one
live token at most, and a new one takes the place of the old. Once two exchanges
of one token overlapped it is `forked` and promises nothing but that it can end.
`TokenService` implements it (`ImplementsChain`, checked by `token_rotation` and
proved in `SessionChainProofs`): `status` of a session is computed from its row
and `overlapped`, `live` from the tokens that are not revoked, `issued` from the
tokens' session column. `WebClient` instantiates it with its own variables and
takes every step of the server from it, so what is checked of the client holds
against any server that keeps these promises.

**Credentials.** Passwords are numbered in order of choice, so a hash is the
number it verifies; `weak` says that `needsRehash` is true of it. A login keeps
the columns it read until it writes the counter, and writes the hash if what it
read was weak. A failed attempt in a locked account only writes an audit row and
is no step. `raced` records which kinds of windows another request's write fell
into (`counter`: two attempts counted from one row; `password`: a re-hash of a password
read before; `forgot`: two requests for a link), and `missed` the sessions that were
opened on a password already replaced, or left open by a request that stopped before it
was to end them. Each property names what excuses it. Ending sessions is one step here,
since `TokenService` has its details.

**UserAdmin.** `assignments` are the `user_roles` rows, with an id so that a row
written again is not the row deleted. A request is authorised with the roles its
actor has at that moment and keeps them (`actorRoles`), as `RequestUser` does; the
guard and the ranks are those of `Roles`. `LoadTarget` takes every decision that is
made on the target as read; `CountSuperAdmins` is the count. A change of nothing but
a name is left out. `previous` is what a role change read of its target's roles.
`overlapped` becomes true when a request has read its target while another is between
that read and its write.

**Invitations.** An account is known by its address (`users.email` is unique across
tenants), a tenant by the candidate number of its slug. `accept` reads the
invitation, hashes, and then creates the account and marks the invitation in one
transaction in which only the unique index can stop it; `revoke` and the superseding
of `invite` are stamps that do not ask again. `register` provisions tenant and owner
in one transaction and then stores the link and the session one by one. `crossed`
and `raced` record the addresses two invites overlapped on and the invitations taken
back while they were being accepted. Roles of an account change in one step
(`AssignRoles`): how two such changes overlap is the matter of `UserAdmin`. `reassigned`
records whose roles were changed since he joined.

**TenantScope and Delivery.** A where-clause is a set of constraints with nested AND, OR
and NOT; `Matches` is what Prisma makes of it and `WhereConstrainsTenant` what the
middleware requires of it. Both recurse in the code. Here the body of each is an operator
that is given what the function says of the clauses inside (`ConstrainsGiven`,
`MatchesGiven`), and the function is that body over itself for clauses nested two deep;
`SoundAtEveryDepth` (section 4) is about the recursion itself. `Delivery` sends every
statement of the two services through that check; `exempt` holds the calls inside
`unscoped`. The query of such a call is built on entering and sent when it is awaited
(`UnscopedQuery`), which has to be before the call leaves (`LeaveUnscoped`). A project's
foreign key and the unique index on its code are enforced by the statement that writes;
their violations become answers through the exception filter (`answer`). `removals` counts
the DELETE rows of the audit trail. Contact and date columns are data no rule reads.

**WebClient.** A tab is `user`, `loading` and at most one refresh; a call goes from `sent`
to `answered`, perhaps to `awaiting` a refresh and back to `sent` with `retried`.
`storage` is localStorage: a pair, named by its refresh token, and a user, named by the
session he signed in to, so that each sign-in is told from every other. `AwaitRefresh`
joins the refresh of the tab or starts one; `RefreshSucceeds` and `RefreshFails` settle it
for all the calls that wait. `blame` records what the client has no answer to: two tabs
that refreshed one token (`overlap`), a reload in the middle of a refresh (`reload`), an
answer that concerns another session than the one stored (`late`). `dropped` records with
which answer the client gave up a session that was open: `replay`, the token was presented
before; `denied`, any other refusal; `failed`, any other error, a lost answer included, of
the refresh or of the replayed request. An access token does not expire again before the
one replay it was fetched for. A login answer that arrives after the tab was reloaded is
left out, and React's double invocation of effects (development only) too.

**Screens.** Each page is a record of the lists it reads and the changes made on it, a
change a record of its dialog, its table, and the lists asked for again, in order. A list
shows something of one or more tables (`Reads`): the clients page also counts projects,
the projects page also names clients, the audit log has an entry of everything. What a
change asks for again are the keys its mutation names, and some lists that show the change
are not among them. `LeftAlone` names these, and `KeptUpWith` the others. The cache keeps
for each key (list, search) its answer, the fetch under way, and whether it was
invalidated. What a list says is the number of the last change the API had made when it
read it, and for which account; `mine` is the last change of an account that a list should
say. The cache itself is TanStack Query's and modelled from how the pages use it
(external): a key has one fetch at a time, asking again after a change restarts it only
where there is an answer and a page that shows it. Whether an answer is older than
`staleTime` is a choice at mount; a retry is a longer fetch. What is on the screen
(`Shown`) is the answer of the key the page reads or, on the two pages that ask for it,
the one of the key before. Changes made by other people, navigation and the gating of
pages and buttons by permission are left out: any account may open any page in play.

## 3. What is checked

| run | bounds | shows |
| --- | --- | --- |
| `token_rotation` | 1 user, 1 session, 4 tokens, 2 requests, two days, lifetimes 1 and 2 | one live token, entry only to open sessions, expiry, reuse detection, revocation is final, the refinement of `SessionChain` |
| `token_revocation` | 2 users, 2 sessions, 2 tokens, 2 requests | revoke-all is complete, logout ends both the session and the token given |
| `credentials` | 2 requests, 2 links, 2 sessions, 1 new password, 4 failures with a limit of 3, lock and link of 1 of 2 minutes | the newest password stands, old sessions end, one open link, the counter counts and the limit locks |
| `user_admin` | 2 Super Admins, 1 Admin, 2 requests, 2 role changes, any number of status changes | somebody active stays Super Admin, nobody is without a role, no rank above one's own is given, or taken from who had it when read |
| `invitations` | an owner, a recruiter and a guest's address, 2 invitations, 1 verification link, 2 requests, 2 tenants, one day, one role to invite with and one to assign | accounts match invitations, one open invitation, revoked ones never join, every tenant has an owner |
| `delivery` | 2 tenants, 2 clients, 2 projects, 2 codes, 2 requests, pages of 1 | foreign key and unique code under races, no server error for a legal request or a lookup in `unscoped`, rows of one tenant only, pages and totals, one audit row per removal |
| `web_tabs` | 2 tabs, 2 calls, 1 session, 3 tokens, 1 reload | tokens presented once, no refusal ends an open session, no call waits for nothing |
| `web_session` | 1 tab, 1 call, 2 sessions, 3 tokens, 1 reload | the user shown is the one whose token is sent; calls, sign-outs and boots end |
| `screens` | 2 accounts, the team, client and profile pages, 2 searches, 1 change, 2 moves | own changes stay in the lists kept up with them, dialogs close over fresh lists |

Each of the following runs checks one sentence of the repository and finds a behaviour of
the code that breaks it.

| run | bounds | violated |
| --- | --- | --- |
| `second_live_token` | as `token_rotation` | one parent token never has two live successors |
| `last_super_admin` | as `user_admin`, one role in play | the last Super Admin cannot be demoted |
| `surviving_session` | as `credentials`, 1 session, no failures | a reset consumes the token, writes and revokes together |

The sentences below do not hold of the code either. Each is a definition of its module that
no run checks by itself, and TLC refutes it with the configuration beside it.

| definition | configuration | the sentence |
| --- | --- | --- |
| `UserAdmin!ManagesWithinRank` | `StaleRank` | no role above one's own is revoked |
| `UserAdmin!ReplacesExactly` | `UnionOfRoles` | a user is left with exactly the set given |
| `UserAdmin!ManagesBelowRank` | `EqualRank` | no role at one's own rank is assigned |
| `Credentials!LinkSingleUse` | `LinkTwice` | a reset link is single-use |
| `Credentials!NewestLinkOnly` | `TwoOpenLinks` | only the newest link works |
| `Credentials!LimitLocks` | `MissedLock` | that many failures in a row lock the account |
| `Invitations!ReinvitingSupersedes` | `TwoOpenInvitations` | re-inviting supersedes |
| `Invitations!RevokedLeavesNothing` | `RevokedJoins` | a revoked invitation leaves nothing behind |
| `Invitations!GrantsWithinRank` | `DemotedInviter` | nobody grants a role above his own |
| `WebClient!GivesUpOnlyWhatIsGone` | `LostAnswer` | the session is given up when it cannot be recovered |
| `WebClient!NeverReplays` | `TwoTabs` | one refresh is shared by every request |
| `WebClient!NeverReplays` | `CutOff` | an expired token is refreshed transparently |
| `Screens!OwnRowsShown` | `OtherRows` | nobody is shown another tenant's data |

Why the bounds are enough to be of use. Every race described above is between two requests
(tabs, calls), and each handler holds at most one token, link, target, invitation or row;
a third request only repeats the part of one of them. Four tokens in one session give a
chain of three exchanges next to a competing one; two sessions of two users distinguish
"mine", "my other one" and "someone else's". One new password is enough for a login that
verified the old one, and the theorems take any number; a link redeemed twice needs two
(`LinkTwice`). Three failures is the smallest limit `env.schema.ts` allows, and a fourth
attempt goes past it and past an expired lock. Two invitations of one address are the
least that supersede each other; a guest who registers and an owner who invites him give
the two ways to one address. Two rows on pages of one row make a second page. Two tabs are
the least that overlap, three tokens the least with an exchange after an exchange (four
were tried as well). On the screens the team page has the changes that wait for two lists,
the clients page those that do not, and the profile page the one that asks for no list;
the other pages are instances of the same operators (the theorems take any of them), and
two moves leave a page and come back. The clock moves far enough for the shorter lifetime
to end inside a request. Requests, users alike, links, sessions, tokens, tabs and calls
are symmetric, and the symmetry is used only with safety properties, in which nothing
tells them apart.

The runs of `UserAdmin`, `Delivery`, `WebClient` and `Screens` do not check for deadlock: a
tenant whose users are all disabled can do nothing more, and in the others ids, tokens or
moves run out, which is a bound of the instance.

**Disagreements found.** The first, the second and the sixth have a run, and are described with
their lines under `findings` in `PROJECT.json`; the comment on each of the definitions above
quotes the line it states.

1. `rotate` can mint two live tokens from one parent; the comment says it never can.
2. The last two Super Admins can remove each other at the same time.
3. An Admin whose role change read its target just before a Super Admin promoted it takes
   the Super Admin role away again.
4. Two role changes of one user can leave the roles of both, not "exactly the set given".
5. `roles.ts:29-31` rules out roles "at or above" one's own rank; the code, and
   `docs/identity-and-tenancy.md:130-132`, allow an equal rank.
6. A reset revokes the sessions after its transaction, not together with it: it may stop in
   between, and a login that verified the old password may open its session afterwards.
7. A reset link works twice when both requests look it up before either uses it.
8. Two requests for a link at one time leave two that work.
9. Failed logins in parallel count once, so more of them than the limit pass.
10. Two invites of one address at one time leave two invitations open.
11. An invitation that is revoked while it is being accepted becomes an account.
12. `accept` grants what the inviter was allowed when he invited, although he may have been
    demoted since.
13. The web client ends a session that is open when the answer of a refresh is lost, or
    when the replayed request fails for whatever reason.
14. Two tabs do not share a refresh: both present the token, and the session ends.
15. A reload between the exchange of a token and its storing presents the spent token.
16. Signing out leaves the query cache, and the next user of the tab is shown its rows.

**What the passing properties excuse.** A property that does not hold in every
interleaving says what it excuses, as a history variable that only the excused case sets:

| property | excused | shown by |
| --- | --- | --- |
| `OneLiveTokenUnlessOverlap` | sessions in which two exchanges of one token overlapped | `NoSecondLiveToken` |
| `SuperAdminUnlessOverlap` | two requests between read and write at one time | `SuperAdminRemains` |
| `ManagesWhatItRead` | a role the target was given after it was read, or of the actor's own rank | `ManagesWithinRank`, `ManagesBelowRank` |
| `LatestPasswordStands` | `password`: a login that upgrades a weak hash writes back the password it read before a new one was set | no sentence of the repository denies it |
| `OldSessionsEnd` | `missed`: sessions opened late, or left by a request that stopped | `NoSessionSurvives` |
| `OneOpenLink` | `forgot`: two requests for a link that overlap | `NewestLinkOnly` |
| `FailuresLock` | `counter`: two attempts counted from one row | `LimitLocks` |
| `OneOpenInvitation` | `crossed`: invites of one address that overlap | `ReinvitingSupersedes` |
| `RevokedNeverJoins` | `raced`: taken back while being accepted | `RevokedLeavesNothing` |
| `AcceptedMeansJoined` | `reassigned`: an account's roles after they were changed | nothing to show |
| `PresentedOnce` | `overlap`, `reload` | `NeverReplays` |
| `KeptWhileOpen` | `late`: an answer to an earlier session's token; it speaks of refusals only | `GivesUpOnlyWhatIsGone` for other failures; nothing denies the late answer |
| `ShowsBearer` | `late`, in one tab | no sentence denies it |
| `PageFits` | `crossed`: a write between the two statements of a list | no sentence denies it |
| `OwnChangesKept` | `raced`: an answer that was on its way when the change succeeded; `LeftAlone` | no sentence denies it |
| `ShownOnClose` | the same, lists that failed to load, and a refresh restarted by another change (`cut`) | no sentence denies it |

So the cases these exclude are not safe: they are the ones where the code does not keep the
property, and what is left is what can be relied on. `TokenWithinSession`,
`EntryOnlyToOpenSession`, `ReuseEndsSession`, `RevocationIsFinal`, `RevokeAllComplete`,
`LogoutEndsBoth`, `NeverWithoutRole`, `TenantsOwned`, `WaitersHaveRefresh` and, of
`Delivery`, all but `PageFits` excuse nothing, but those that speak of a request that is
answered say nothing of one that stops half way; `ImplementsChain` admits overlaps as forks.

Noticed on the way, and not a matter of any property: the lists of clients and projects
show New, Edit and Delete to every reader, unlike what the comment on `Can` says
(`RequirePermission.tsx:35-36`); the dashboard asks for clients and projects also for
roles the API refuses.

**Fairness.** Only `WebClient` states any: weak fairness of every call's and of every
refresh's progress (`CallProgress`, `RefreshProgress`). Every request the browser sends
is answered or ends in an error, and the event loop runs the continuation of a settled
promise; neither depends on the user, another tab or the server's goodwill, since `Lose`
and `LoseRefresh` count as progress. Sign-ins, new calls, reloads, expiry and what ends a
session have none. Under it `web_session` checks that every call, every sign-out and
every boot comes to an end. The API's modules state no fairness: a client may give up and
a process may die at any step, and no scheduler of the program promises that a handler
ends.

## 4. What is proved

`TokenServiceProofs` proves for all sets of users, sessions, tokens and
requests, and all lifetimes:

- `TypeCorrect`: `TypeOK` is invariant;
- `RevocationFinal`: no step revives a session or a token or moves it;
- `OneLiveToken`: without overlapping exchanges a session has at most one live
  refresh token;
- `EntryOnlyToOpen`: a request that began after its session ended is not let in;
- `ReuseEnds`: when a request with a spent token is answered, that token's session has
  ended;
- `RevokeAllEnds`: when a sign-out from everywhere is answered, so have all the sessions
  that were open when it began, except the one to be kept;
- `LogoutEndsSessionAndToken`: when a logout is answered, session and token are spent;
- `TokensEndWithSession`: no chain of exchanges extends a session.

The assumptions are the two of `TokenService`: lifetimes are natural numbers and
`None` is not an id or a row.

The argument. `TypeOK` alone is not inductive: a step that follows a token to
its session needs the session to exist and the request to hold what its `pc`
says. `RowsOK` adds that: tokens point to existing sessions, and a request names
rows that exist and their owner. `TypeOK /\ RowsOK` is inductive
(`GoodInvariant`), and `RevocationFinal` follows from it step by step. "At most
one live token" is broken by a mint, so the invariant must say what an exchange
in flight knows: `ChainOK(s)`, for a session that never saw an overlap, says that
at most one request is between lookup and mint, that the only live token is the
one it is about to retire, and that before the first mint there is no token at
all. For access, `EntryOK(r)` says that a session the request will still find
open was open when the request began; time and revocation only shrink the set of
open sessions, so every step keeps it.
For the operations that end sessions, `Achieves(r)` says at every step of a request
what it has reached so far: what a handler collected is exactly what it was to end, and
what it has passed is revoked. Rows only ever move towards revocation (`RowsPersist`),
so nobody else can undo it. `TokenWithinSession` needs no strengthening beyond the
types: only a mint adds a token, and it takes the lesser of two dates.

`SessionChainProofs` proves `Implements`: every behaviour of `TokenService` is one of
`SessionChain` under the mapping above. The initial states map to the initial state;
each action maps to opening, extending, forking or ending a session, or to a stutter.
The steps that change no row and no overlap are grouped first; a mint uses `ChainsOK`
(the token it retires is the one live token), and a revocation that ends several
sessions is one `End`.

`CredentialsProofs` proves for all sets of requests, links and sessions, every limit and
lifetime `env.schema.ts` allows, and all bounds:

- `TypeCorrect`: `TypeOK` is invariant;
- `LatestPassword`: the stored password is the newest, unless a re-hash had begun before
  it was written;
- `OldSessionsEnded`: whatever writes cross, a session that proved only an older password
  has a request about to end it, unless it was opened when its password was already
  replaced or its request stopped before revoking;
- `FailuresLocked`: the counter counts, and reaching the limit locks, unless two attempts
  counted from one row;
- `OneLinkOpen`: at most one reset link is open, unless two were asked for at one time.

It assumes `ConfigAssumption`: limits, lifetimes and bounds are natural numbers, the limit
of failures is at least three, and `None` is no id.

The argument. None of the properties is inductive, because each depends on what the
requests in flight have read. Each gets a companion that says it: a login that will
write back a hash holds the latest one (`PasswordOK`); an attempt that failed counted from
what is stored (`CounterOK`); whoever is about to issue a link knows of all that are
unspent (`LinksOK`). Every companion is excused by its kind of `raced`, and a write that
would break it adds that kind. `OldSessionsEnd` needs none: only a write of a password makes
a live session's proof old, the request that writes is then about to end it
(`SessionsStep`), and a session that is opened late or left is `missed` by the step that
does so. First a lemma per action says where the request goes and that types are kept; the
companions are then taken action by action.

`UserAdminProofs` proves for all sets of users, requests and roles in play, any
set of administrators with a Super Admin among them, and any bound on changes:

- `TypeCorrect`: `TypeOK` is invariant;
- `RolesKept`: nobody is ever left without a role;
- `SuperAdminKept`: while requests decide one at a time, somebody active is
  Super Admin;
- `ChangesManaged`: whatever requests overlap, a commit gives no role ranked above all its
  actor was authorised with, and takes away such a role only if it was given after the
  request had read its target.

It assumes `UsersAssumption`: Super Admins and Admins are users, at least one
Super Admin exists, `NoUser` is no user, and the roles in play are role keys.

The argument. A commit writes at least one row because a request that reached it
is a role change with roles (`RequestsOK`), so `Good` (types, `RequestsOK`, roles)
is inductive. That a Super Admin remains is not inductive even without overlaps:
a write does not count again. `DecisionsOK` adds what the count left behind. At
most one request decides at a time, and if what it will write takes the role from
its target (`WillTake`), another active Super Admin exists. A request that skips
the count does not take the role, one that passes it found another, and no other
request writes before it does; the write frees the only slot that decides. For
`ChangesManaged`, `PermittedOK` says that the roles a change asks for, and those its target
was read with, stay within the actor's rank from the check to the commit; `CommitManages`
compares that with the rows the commit leaves, those of a change that crossed it included.

`InvitationProofs` proves for all sets of addresses, invitations, links and requests, any
number of tenants and all lifetimes:

- `TypeCorrect`: `TypeOK` is invariant;
- `InvitationsMatchAccounts`: an invitation is accepted exactly when its account exists,
  which has the invited roles until they are changed;
- `OneInvitationOpen`: one open invitation per tenant and address, unless two invites
  for it overlapped;
- `RevokedStaysOut`: what was taken back never becomes an account, unless it was taken
  back while being accepted;
- `TenantsHaveOwners`: every tenant has an owner, every account a tenant, through any
  changes of roles made one at a time.

It assumes that the two members of staff are different addresses, that the roles in play
are role keys, that lifetimes are natural numbers and there is at least one tenant, and that
`None` is no id and no row.

The argument. Rows are never deleted, and what identifies them does not change (`Persist`,
shown once per action). So what a request was admitted with still exists when it writes
(`Backed`), and the tenant of an invitation too (`Vouched`). An account's roles are the
invited ones until `AssignRoles` changes them, and that step leaves a Super Admin in the
tenant (`OwnersOK`). `OpenOK` adds that at most
one request is between the two statements of an invite for an address, and that it has seen
the invitation that is open; `RevokedOK` that nobody accepts what somebody is taking back.
`crossed` and `raced` excuse both exactly where the code looks and then writes.

`WebClientProofs` proves for all sets of tabs, calls, sessions and tokens and any number
of reloads:

- `TypeCorrect`: `TypeOK` is invariant;
- `WaitersKept`: no call waits for a refresh its tab no longer has;
- `RefreshesOnce`: the client presents no token of an open session twice unless two
  tabs refreshed at once or a reload cut a refresh off;
- `KeptInOpenSession`: whatever other tabs and reloads do, a refusal of what was not
  presented before signs the user out only when his session has ended, unless a late answer
  concerned an earlier session; lost and failed answers are not refusals;
- `ShownIsBearer`: in one tab, the user shown owns the tokens sent next, with the same
  exemption.

It assumes `NamesAssumption`: `None` is no id, and what a refresh is answered when it
brings no token is no token.

The argument. `Good` says what client and server know of each other: a session has one
live token at most and it was issued in it (`LiveOK`), the tokens stored and sent were
issued, and what a refresh brings belongs to the session of what it sent (`TokensIssued`),
and a call that waits has a refresh to wait for (`CallsOK`). A lemma per kind of step
(`CallSteps`, `RefreshSteps`, `OtherSteps`) keeps it; on the server every step is one of
`SessionChain` (`ServerMoves`). That no token is presented twice is far from inductive.
`TokensHeldOnce` adds, as long as nobody is to blame, who holds which token: what a tab is
sending can still be exchanged (`Usable`), what an exchange brought is held by nobody else
and is not stored yet, no two tabs send one token, and a stored token that is spent is the
one some tab is exchanging. The server only takes usability from the token it exchanges
(`ServerKeeps`); most steps only give tokens up (`Abandons`); the steps that hand a token
on, a sign-in, a new refresh, an exchange and its success, are taken one by one. `Denials`
leads to `KeptInOpenSession`: what the server refused, a refresh or a call, names a
session that is not open, and that stays so while the refusal travels back, waits for a
refresh or is tried again; sessions end and do not open again (`ServerEnds`). `Unlate`
does for `ShownIsBearer`: the session of the stored pair is the stored user's, and the tab
shows him or nobody; a refresh that brings back the token of another session is late. The
theorem is about one tab because the property is: a second tab that signs in changes
localStorage under the first, whose screen learns of it at its next load.

`DeliveryProofs` proves for all sets of tenants, rows, codes and requests and every page
size:

- `SoundAtEveryDepth`: however deep AND, OR and NOT are nested, a clause that the check
  accepts matches no row of another tenant;
- `OwnRows`: no request is shown a row of another tenant;
- `ProjectsHaveClients`, `CodesStayUnique`: what the foreign key and the unique index are
  there for holds although the services check first and write later;
- `LosersTold`: whoever loses a race is refused, not answered with a server error, and no
  statement of the two services, or lookup of `unscoped`, is stopped by the middleware;
- `PagesFit`: a page agrees with its total unless somebody wrote in between;
- `RemovedAtMostOnce`: one audited removal per row.

It assumes `UndefinedAssumption` (the absent value is no tenant), `PageAssumption` (a page has
a row at least) and `NamesAssumption`: clients and projects have ids of their own, and what
stands for no id, no answer or no row is none.

The argument. `SoundAtEveryDepth` takes the two recursions as functions on any set of
clauses whose nesting is measured by a natural number, assumes only that each satisfies its
equation, and looks at the least deep clause that is accepted and matches a foreign row
(`LeastNatural`): its accepted branch is less deep. The steps of `Delivery` need little of
one another, since each statement names the tenant and the schema decides; what the
properties need is what a request has read: `Prepared` says which tenant and row a request
stands for at each `pc`, `ReadOwn` that what it found was its own tenant's, `PageKept` that
the page read has the length that the coming count will call for, `RemovalsOK` that a counted
removal belongs to a row that is gone, `LookupRuns` that a call of `unscoped` sends its query
while it is exempt. `Good`, their conjunction, is inductive.

`ScreensProofs` proves for all sets of accounts, searches and calls, any of the pages, and
any number of changes and moves:

- `TypeCorrect`: `TypeOK` is invariant;
- `OwnChangesStay`: a list that passes for current holds the last change its user was told
  of, of those it is kept up with, unless its last answer raced one of them;
- `ShownBehindDialog`: when a dialog closes on a save, the lists behind it that are kept up
  with the change have it, but for those that failed, were cut short or raced.

Neither says anything of the lists a change leaves alone. It assumes `BoundsAssumption` and
`NamesAssumption`: the bounds are natural numbers, a list opens with one of its searches, the
pages visited are pages of the app, and `None` is no id, page, answer or request.

The argument. `Good` adds to the types that a page is on the screen exactly when somebody is
signed in and that no call or history names a change not yet made; it is inductive.
`Renewed` says what asking for a list may do to a query, whoever asks and why (a page
opened, searched or refreshed, a retry, an invalidation): the answer stays, a fetch is kept,
replaced by one that has read nothing, or overtaken, and nothing becomes valid. `AsksRenew`
shows it once for every such step, and with it the properties are preserved by all of them
together. Two companions say per query what a property says of all: `Current` what an
answer, and a fetch that is not late, has read, and `Behind` what the queries behind a
waiting dialog have read or hold. A change that succeeds breaks neither, because the families
it asks for again cover the lists it is kept up in: `FamilyCovers`, over every page and change
of the app, is where a forgotten query key would fail. That a dialog can close on a save only
when its call is through or the app is loaded again is `OthersWait`.

TLC checked each inductive invariant, as an invariant of the runs above, before it was
proved.

Only model-checked: the liveness properties of `WebClient`, since the prover handles neither
fairness nor ENABLED. That clauses of two levels pass the check only if they are harmless
(`ScopeSound`) is checked as well, over all of them.

## 5. What is not modelled

- Row locks and the aborts of deadlocked transactions: a transaction is one action; the
  aborted one is `Fail`. The exchange locks its token and then the session
  (`token.service.ts:209,221`), a revocation the session and then its tokens (248, 252), so
  the two can meet that way.
- What no sentence of the repository decides, though the models contain it: `changePassword`
  overwrites a password that was reset while it verified the old one (`auth.service.ts:520`),
  and a form that was closed while saving and opened for another row is closed by that save
  (`ClientFormDialog.tsx:90`).
- The trail as such: a row that cannot be written is lost with a log line, as
  `audit.service.ts:96` says of itself.
- Reads that nothing decides on: `preview`, the lists of invitations, users, sessions and
  audit rows, `GET /tenants/current`; updates of names and contact data.
- The signed-out forms, layout, theme and navigation, and the zod schemas that validate
  input: they keep no state another part reads. The pages' permission gating.
- Health checks, Redis, configuration, mail and seeders: no state another part decides on.
  The limits of `env.schema.ts` are assumptions on constants, the constraints of
  `schema.prisma` part of the actions.
- Hash functions, JWT signatures and the randomness of tokens are taken as ideal.
- Failures of localStorage (quota, private mode).

## 6. Reading and running

Start with `TokenService` and `SessionChain`, then `WebClient`; the others stand alone. A run
is `tlc -config <Run>.cfg <MCModule>`; each MC module only adds the symmetry sets. A proof is
`tlapm <Module>Proofs.tla`. Definitions whose comment starts with "Mutant" are no part of a
specification: each is a plausible bug of the code that stands in for the definition it is
written before, and the properties named with it in `PROJECT.json` must then fail.
