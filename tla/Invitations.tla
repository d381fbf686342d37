----------------------------- MODULE Invitations -----------------------------
(***************************************************************************)
(* How an account comes to be: InvitationService.invite, accept and        *)
(* revoke, AuthService.register, which provisions a tenant and its owner,  *)
(* and the e-mail verification that follows it.                            *)
(*                                                                         *)
(* An account is known by its address: users.email is unique across        *)
(* tenants.  A tenant is known by its slug; candidate n of the one name    *)
(* everybody asks for here is the number n.  Links are known to their      *)
(* holders as soon as they are stored.  UserService.assignRoles changes    *)
(* the roles of accounts meanwhile, in one step here: what its statements  *)
(* let overlap is UserAdmin's.  A request is a process, as in              *)
(* TokenService; a refusal frees its slot.                                 *)
(***************************************************************************)
EXTENDS Roles, FiniteSets

CONSTANTS
  Addresses,        \* e-mail addresses
  Owner,            \* the Super Admin of the first tenant
  Recruiter,        \* its HR user, who may invite but not assign roles
  InvitableRoles,   \* the role keys somebody is invited with
  AssignableRoles,  \* the role keys an account is given later
  Invites,          \* ids an invitation row may get
  Links,            \* ids a verification link may get
  Requests,         \* HTTP requests in flight at the same time
  MaxTenants,       \* slug candidates that are tried
  InvitationTtl,    \* INVITATION_TTL_DAYS
  VerificationTtl,  \* EMAIL_VERIFICATION_TTL_HOURS, in days
  MaxNow,           \* bound: the clock stops here
  None              \* null

Tenants == 1 .. MaxTenants

AccountRow == [tenant: Tenants, roles: SUBSET RoleKeys, verified: BOOLEAN,
               via: Invites \cup {None}]

InvitationRow == [tenant: Tenants, address: Addresses, roles: SUBSET RoleKeys,
                  invitedBy: Addresses, expiresAt: Nat,
                  accepted: BOOLEAN, revoked: BOOLEAN]

LinkRow == [address: Addresses, expiresAt: Nat, used: BOOLEAN]

ASSUME StaffAssumption ==
  /\ Owner \in Addresses /\ Recruiter \in Addresses /\ Owner # Recruiter
  /\ InvitableRoles \subseteq RoleKeys /\ AssignableRoles \subseteq RoleKeys

ASSUME BoundsAssumption ==
  /\ MaxTenants \in Nat \ {0}
  /\ InvitationTtl \in Nat /\ VerificationTtl \in Nat /\ MaxNow \in Nat

ASSUME NoneAssumption ==
  /\ None \notin Addresses \cup Invites \cup Links \cup Tenants
  /\ None \notin AccountRow /\ None \notin InvitationRow /\ None \notin LinkRow

VARIABLES
  tenants,      \* tenants: the slugs taken
  account,      \* users with their user_roles
  invitation,   \* invitations with their invitation_roles
  link,         \* email_verification_tokens
  now,          \* the clock, in days
  req,          \* the requests being handled
  crossed,      \* history: <<tenant, address>> for which two invites overlapped
  raced,        \* history: invitations taken back while someone was accepting them
  reassigned    \* history: addresses whose roles were changed since they joined

db == <<tenants, account, invitation, link>>
vars == <<tenants, account, invitation, link, now, req, crossed, raced, reassigned>>

Exists(table, id) == table[id] # None

\* Neither accepted nor revoked; what invite supersedes and the list shows.
Open(i) ==
  /\ Exists(invitation, i)
  /\ ~invitation[i].accepted
  /\ ~invitation[i].revoked

\* findRedeemable.
Redeemable(i) == Open(i) /\ invitation[i].expiresAt > now

OpenFor(tenant, a) ==
  {i \in Invites : Open(i) /\ invitation[i].tenant = tenant /\ invitation[i].address = a}

Steps == {"idle", "supersede", "create", "join", "stamp",
          "findSlug", "provision", "storeLink", "session", "confirm"}

Request == [pc: Steps, actor: Addresses \cup {None}, tenant: Tenants \cup {None},
            address: Addresses \cup {None}, roles: SUBSET RoleKeys,
            inv: Invites \cup {None}, ids: SUBSET Invites, link: Links \cup {None}]

Idle == [pc |-> "idle", actor |-> None, tenant |-> None, address |-> None,
         roles |-> {}, inv |-> None, ids |-> {}, link |-> None]

TypeOK ==
  /\ tenants \subseteq Tenants
  /\ account \in [Addresses -> AccountRow \cup {None}]
  /\ invitation \in [Invites -> InvitationRow \cup {None}]
  /\ link \in [Links -> LinkRow \cup {None}]
  /\ now \in Nat
  /\ req \in [Requests -> Request]
  /\ crossed \subseteq Tenants \X Addresses
  /\ raced \subseteq Invites
  /\ reassigned \subseteq Addresses

StaffRow(role) == [tenant |-> 1, roles |-> {role}, verified |-> FALSE, via |-> None]

Init ==
  /\ tenants = {1}
  /\ account = [a \in Addresses |->
       IF a = Owner THEN StaffRow("SUPER_ADMIN")
       ELSE IF a = Recruiter THEN StaffRow("HR_COMPLIANCE") ELSE None]
  /\ invitation = [i \in Invites |-> None]
  /\ link = [l \in Links |-> None]
  /\ now = 0
  /\ req = [r \in Requests |-> Idle]
  /\ crossed = {}
  /\ raced = {}
  /\ reassigned = {}

Continue(r, request) == req' = [req EXCEPT ![r] = request]
Goto(r, step) == req' = [req EXCEPT ![r].pc = step]
Leave(r) == req' = [req EXCEPT ![r] = Idle]

\* Requests that found i open and will stamp it without asking again.
Accepting(i) == \E r \in Requests : req[r].pc = "join" /\ req[r].inv = i
Revoking(i) == \E r \in Requests : req[r].pc = "stamp" /\ req[r].inv = i

-----------------------------------------------------------------------------
(* InvitationService.invite *)

\* Another invite for the address is between its two statements.
Inviting(tenant, a) ==
  \E r \in Requests : req[r].pc = "create" /\ req[r].tenant = tenant /\ req[r].address = a

\* PermissionsGuard, assertCanGrant and the look-up of the address in all tenants.
BeginInvite(r, actor, a, roles) ==
  /\ req[r].pc = "idle"
  /\ Exists(account, actor)
  /\ Admits(account[actor].roles, {"users:invite"})
  /\ roles # {}
  /\ \A role \in roles : CanManageRole(account[actor].roles, role)
  /\ ~Exists(account, a)
  /\ Continue(r, [Idle EXCEPT !.pc = "supersede", !.actor = actor, !.address = a,
                              !.tenant = account[actor].tenant, !.roles = roles])
  /\ UNCHANGED <<db, now, crossed, raced, reassigned>>

\* Mutant: expired invitations are left as they are.
SupersedeRedeemable(r) ==
  LET tenant == req[r].tenant
      a == req[r].address
  IN  /\ req[r].pc = "supersede"
      /\ Continue(r, [req[r] EXCEPT !.pc = "create",
                                    !.ids = {i \in OpenFor(tenant, a) : Redeemable(i)}])
      /\ crossed' = IF Inviting(tenant, a) THEN crossed \cup {<<tenant, a>>} ELSE crossed
      /\ UNCHANGED <<db, now, raced, reassigned>>

\* The updateMany of invite sees the rows committed when it starts.
Supersede(r) ==
  LET tenant == req[r].tenant
      a == req[r].address
  IN  /\ req[r].pc = "supersede"
      /\ Continue(r, [req[r] EXCEPT !.pc = "create", !.ids = OpenFor(tenant, a)])
      /\ crossed' = IF Inviting(tenant, a) THEN crossed \cup {<<tenant, a>>} ELSE crossed
      /\ UNCHANGED <<db, now, raced, reassigned>>

\* The commit: the rows it saw are revoked, unless they were closed meanwhile,
\* and the new one is there.
CreateInvitation(r, i) ==
  LET superseded == {j \in req[r].ids : Open(j)}
  IN  /\ req[r].pc = "create"
      /\ ~Exists(invitation, i)
      /\ invitation' = [j \in Invites |->
           IF j = i THEN [tenant |-> req[r].tenant, address |-> req[r].address,
                          roles |-> req[r].roles, invitedBy |-> req[r].actor,
                          expiresAt |-> now + InvitationTtl,
                          accepted |-> FALSE, revoked |-> FALSE]
           ELSE IF j \in superseded THEN [invitation[j] EXCEPT !.revoked = TRUE]
           ELSE invitation[j]]
      /\ raced' = raced \cup {j \in superseded : Accepting(j)}
      /\ Leave(r)
      /\ UNCHANGED <<tenants, account, link, now, crossed, reassigned>>

-----------------------------------------------------------------------------
(* InvitationService.accept *)

\* findRedeemable; the password is hashed next.
BeginAccept(r, i) ==
  /\ req[r].pc = "idle"
  /\ Redeemable(i)
  /\ Continue(r, [Idle EXCEPT !.pc = "join", !.inv = i])
  /\ raced' = IF Revoking(i) THEN raced \cup {i} ELSE raced
  /\ UNCHANGED <<db, now, crossed, reassigned>>

JoinedRow(i) ==
  [tenant |-> invitation[i].tenant, roles |-> invitation[i].roles,
   verified |-> TRUE, via |-> i]

\* Mutant: the invitation is not stamped.
JoinUnstamped(r) ==
  LET i == req[r].inv
      a == invitation[i].address
  IN  /\ req[r].pc = "join"
      /\ IF Exists(account, a) THEN Leave(r) /\ UNCHANGED <<account, invitation>>
         ELSE /\ account' = [account EXCEPT ![a] = JoinedRow(i)]
              /\ UNCHANGED invitation
              /\ Goto(r, "session")
      /\ UNCHANGED <<tenants, link, now, crossed, raced, reassigned>>

\* The transaction: refused when the address is taken by now, by the check or by
\* the unique index; else the account and the stamp appear together.
Join(r) ==
  LET i == req[r].inv
      a == invitation[i].address
  IN  /\ req[r].pc = "join"
      /\ IF Exists(account, a) THEN Leave(r) /\ UNCHANGED <<account, invitation>>
         ELSE /\ account' = [account EXCEPT ![a] = JoinedRow(i)]
              /\ invitation' = [invitation EXCEPT ![i].accepted = TRUE]
              /\ Goto(r, "session")
      /\ UNCHANGED <<tenants, link, now, crossed, raced, reassigned>>

\* The account can sign in; TokenService does the rest.
IssueSession(r) ==
  /\ req[r].pc = "session"
  /\ Leave(r)
  /\ UNCHANGED <<db, now, crossed, raced, reassigned>>

-----------------------------------------------------------------------------
(* InvitationService.revoke *)

\* Mutant: the invitation is not asked for being open.
BeginRevokeAny(r, actor, i) ==
  /\ req[r].pc = "idle"
  /\ Exists(account, actor)
  /\ Admits(account[actor].roles, {"users:invite"})
  /\ Exists(invitation, i) /\ invitation[i].tenant = account[actor].tenant
  /\ Continue(r, [Idle EXCEPT !.pc = "stamp", !.actor = actor, !.inv = i])
  /\ raced' = IF Accepting(i) THEN raced \cup {i} ELSE raced
  /\ UNCHANGED <<db, now, crossed, reassigned>>

BeginRevoke(r, actor, i) ==
  /\ req[r].pc = "idle"
  /\ Exists(account, actor)
  /\ Admits(account[actor].roles, {"users:invite"})
  /\ Open(i) /\ invitation[i].tenant = account[actor].tenant
  /\ Continue(r, [Idle EXCEPT !.pc = "stamp", !.actor = actor, !.inv = i])
  /\ raced' = IF Accepting(i) THEN raced \cup {i} ELSE raced
  /\ UNCHANGED <<db, now, crossed, reassigned>>

StampRevoked(r) ==
  /\ req[r].pc = "stamp"
  /\ invitation' = [invitation EXCEPT ![req[r].inv].revoked = TRUE]
  /\ Leave(r)
  /\ UNCHANGED <<tenants, account, link, now, crossed, raced, reassigned>>

-----------------------------------------------------------------------------
(* AuthService.register *)

BeginRegister(r, a) ==
  /\ req[r].pc = "idle"
  /\ Continue(r, [Idle EXCEPT !.pc = "findSlug", !.address = a])
  /\ UNCHANGED <<db, now, crossed, raced, reassigned>>

\* The first reads of the transaction: the address, and resolveTenantSlug.
FindSlug(r) ==
  LET free == Tenants \ tenants
  IN  /\ req[r].pc = "findSlug"
      /\ IF Exists(account, req[r].address) \/ free = {} THEN Leave(r)
         ELSE \E n \in free :
                /\ \A m \in free : n <= m
                /\ Continue(r, [req[r] EXCEPT !.pc = "provision", !.tenant = n])
      /\ UNCHANGED <<db, now, crossed, raced, reassigned>>

OwnerRow(n) == [tenant |-> n, roles |-> {"SUPER_ADMIN"}, verified |-> FALSE, via |-> None]

\* Mutant: the tenant is committed before the account is created.
ProvisionTenantFirst(r) ==
  LET a == req[r].address
      n == req[r].tenant
  IN  /\ req[r].pc = "provision"
      /\ IF n \in tenants \/ Exists(account, a)
         THEN Leave(r) /\ tenants' = tenants \cup {n} /\ UNCHANGED account
         ELSE /\ tenants' = tenants \cup {n}
              /\ account' = [account EXCEPT ![a] = OwnerRow(n)]
              /\ Goto(r, "storeLink")
      /\ UNCHANGED <<invitation, link, now, crossed, raced, reassigned>>

\* The writes and the commit: a slug or an address taken since is a unique
\* violation, and nothing stays.
Provision(r) ==
  LET a == req[r].address
      n == req[r].tenant
  IN  /\ req[r].pc = "provision"
      /\ IF n \in tenants \/ Exists(account, a)
         THEN Leave(r) /\ UNCHANGED <<tenants, account>>
         ELSE /\ tenants' = tenants \cup {n}
              /\ account' = [account EXCEPT ![a] = OwnerRow(n)]
              /\ Goto(r, "storeLink")
      /\ UNCHANGED <<invitation, link, now, crossed, raced, reassigned>>

\* sendEmailVerification, after the commit.
StoreLink(r, l) ==
  /\ req[r].pc = "storeLink"
  /\ ~Exists(link, l)
  /\ link' = [link EXCEPT ![l] = [address |-> req[r].address,
                                  expiresAt |-> now + VerificationTtl, used |-> FALSE]]
  /\ Goto(r, "session")
  /\ UNCHANGED <<tenants, account, invitation, now, crossed, raced, reassigned>>

-----------------------------------------------------------------------------
(* E-mail verification *)

\* resendEmailVerification by a signed-in user; nothing is issued afterwards, which
\* the step "session" does not do either.
BeginResend(r, a) ==
  /\ req[r].pc = "idle"
  /\ Exists(account, a)
  /\ ~account[a].verified
  /\ Continue(r, [Idle EXCEPT !.pc = "storeLink", !.address = a])
  /\ UNCHANGED <<db, now, crossed, raced, reassigned>>

\* verifyEmail reads the link.  No operation changes an account's address, so the
\* link's address is still the account's.
BeginVerify(r, l) ==
  /\ req[r].pc = "idle"
  /\ Exists(link, l)
  /\ ~link[l].used
  /\ link[l].expiresAt > now
  /\ Continue(r, [Idle EXCEPT !.pc = "confirm", !.address = link[l].address, !.link = l])
  /\ UNCHANGED <<db, now, crossed, raced, reassigned>>

Confirm(r) ==
  /\ req[r].pc = "confirm"
  /\ link' = [link EXCEPT ![req[r].link].used = TRUE]
  /\ account' = [account EXCEPT ![req[r].address].verified = TRUE]
  /\ Leave(r)
  /\ UNCHANGED <<tenants, invitation, now, crossed, raced, reassigned>>

-----------------------------------------------------------------------------

\* The process dies, the database refuses or the mail server does: what is
\* committed stays.
Fail(r) ==
  /\ req[r].pc # "idle"
  /\ Leave(r)
  /\ UNCHANGED <<db, now, crossed, raced, reassigned>>

Tick ==
  /\ now < MaxNow
  /\ now' = now + 1
  /\ UNCHANGED <<db, req, crossed, raced, reassigned>>

\* UserService.assignRoles: by somebody else of the tenant, of a role no lower than
\* the account's, who may grant the new roles; the last Super Admin is not demoted.
AssignRoles(actor, a, roles) ==
  /\ Exists(account, actor) /\ Exists(account, a) /\ actor # a
  /\ account[actor].tenant = account[a].tenant
  /\ Admits(account[actor].roles, {"roles:assign"})
  /\ ~RanksAbove(account[a].roles, account[actor].roles)
  /\ roles # {}
  /\ \A role \in roles : CanManageRole(account[actor].roles, role)
  /\ "SUPER_ADMIN" \in account[a].roles \ roles =>
       \E b \in Addresses \ {a} :
         /\ Exists(account, b) /\ account[b].tenant = account[a].tenant
         /\ "SUPER_ADMIN" \in account[b].roles
  /\ account' = [account EXCEPT ![a].roles = roles]
  /\ reassigned' = IF roles = account[a].roles THEN reassigned ELSE reassigned \cup {a}
  /\ UNCHANGED <<tenants, invitation, link, now, req, crossed, raced>>

InviteStep(r) ==
  \/ \E actor, a \in Addresses, roles \in SUBSET InvitableRoles : BeginInvite(r, actor, a, roles)
  \/ Supersede(r)
  \/ \E i \in Invites : CreateInvitation(r, i)

AcceptStep(r) ==
  \/ \E i \in Invites : BeginAccept(r, i)
  \/ Join(r)
  \/ IssueSession(r)

RevokeStep(r) ==
  \/ \E actor \in Addresses, i \in Invites : BeginRevoke(r, actor, i)
  \/ StampRevoked(r)

RegisterStep(r) ==
  \/ \E a \in Addresses : BeginRegister(r, a) \/ BeginResend(r, a)
  \/ FindSlug(r)
  \/ Provision(r)
  \/ \E l \in Links : StoreLink(r, l) \/ BeginVerify(r, l)
  \/ Confirm(r)

Next ==
  \/ \E r \in Requests :
       InviteStep(r) \/ AcceptStep(r) \/ RevokeStep(r) \/ RegisterStep(r) \/ Fail(r)
  \/ Tick
  \/ \E actor, a \in Addresses, roles \in SUBSET AssignableRoles : AssignRoles(actor, a, roles)

Spec == Init /\ [][Next]_vars

-----------------------------------------------------------------------------
(* Properties *)

\* An invitation is accepted exactly when an account came of it, at the invited
\* address, in the inviting tenant and with the invited roles, until they are changed:
\* "the roles come from the invitation row" (invitation.service.ts:156), however often
\* a link is followed.
AcceptedMeansJoined ==
  /\ \A a \in Addresses : Exists(account, a) /\ account[a].via # None =>
       LET row == invitation[account[a].via]
       IN  /\ row # None /\ row.accepted /\ row.address = a
           /\ account[a].tenant = row.tenant
           /\ a \notin reassigned => account[a].roles = row.roles
  /\ \A i \in Invites : Exists(invitation, i) /\ invitation[i].accepted =>
       LET a == invitation[i].address
       IN  Exists(account, a) /\ account[a].via = i

\* Re-inviting supersedes any outstanding invitation (invitation.service.ts:94): a
\* tenant has one open invitation per address at most, unless two of its invites
\* for that address overlapped.
OneOpenInvitation ==
  \A tenant \in Tenants, a \in Addresses :
    <<tenant, a>> \notin crossed => \A i, j \in OpenFor(tenant, a) : i = j

\* A revoked invitation "leaves nothing behind" (invitation.service.ts:37-38): it
\* never becomes an account, unless it was taken back while being accepted.
RevokedNeverJoins ==
  \A i \in Invites \ raced :
    Exists(invitation, i) => ~(invitation[i].accepted /\ invitation[i].revoked)

\* Every tenant has an owner and every account a tenant: "a tenant with no way to
\* sign in, or a user with no tenant, are both unrecoverable" (auth.service.ts:47-48).
TenantsOwned ==
  /\ \A n \in tenants : \E a \in Addresses :
       Exists(account, a) /\ account[a].tenant = n /\ "SUPER_ADMIN" \in account[a].roles
  /\ \A a \in Addresses : Exists(account, a) => account[a].tenant \in tenants

\* Refuted.  "Re-inviting supersedes any outstanding invitation for the address"
\* (invitation.service.ts:94): of two that overlap neither sees the other's row.
ReinvitingSupersedes ==
  \A tenant \in Tenants, a \in Addresses : \A i, j \in OpenFor(tenant, a) : i = j

\* Refuted.  An invitation that was revoked "leaves nothing behind"
\* (invitation.service.ts:37-38): accept does not ask again after the hash.
RevokedLeavesNothing ==
  [][\A i \in Invites :
       Exists(invitation, i) /\ invitation[i].revoked /\ ~invitation[i].accepted =>
         ~invitation'[i].accepted]_vars

\* Refuted.  "A user may never grant a role ranked above their own"
\* (schema.prisma:114): the roles of a new account are stored as assigned by the
\* inviter (invitation.service.ts:184), who may have been demoted since he was asked.
GrantsWithinRank ==
  [][\A a \in Addresses :
       ~Exists(account, a) /\ Exists(account', a) /\ account'[a].via # None =>
         LET inviter == account[invitation[account'[a].via].invitedBy]
         IN  \A role \in account'[a].roles : CanManageRole(inviter.roles, role)]_vars

=============================================================================
