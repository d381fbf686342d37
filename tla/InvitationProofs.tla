-------------------------- MODULE InvitationProofs --------------------------
(***************************************************************************)
(* Theorems about Invitations for every set of addresses, invitations,     *)
(* links, requests and roles in play, any number of tenants and any        *)
(* lifetimes.                                                              *)
(***************************************************************************)
EXTENDS Invitations, TLAPS

-----------------------------------------------------------------------------
(* The inductive invariant *)

\* What a request holds at the step it is at.
Keeps(q) ==
  /\ q.pc \in {"supersede", "create"} =>
       q.actor \in Addresses /\ q.tenant \in Tenants /\ q.address \in Addresses
  /\ q.pc \in {"join", "stamp"} => q.inv \in Invites
  /\ q.pc = "provision" => q.tenant \in Tenants
  /\ q.pc \in {"findSlug", "provision", "storeLink", "confirm"} => q.address \in Addresses
  /\ q.pc = "confirm" => q.link \in Links

\* The rows a request refers to exist, and an invite is for its actor's tenant.
Backed(r) ==
  LET q == req[r]
  IN  /\ q.pc \in {"supersede", "create"} =>
           /\ Exists(account, q.actor)
           /\ account[q.actor].tenant = q.tenant
      /\ q.pc \in {"join", "stamp"} => Exists(invitation, q.inv)
      /\ q.pc \in {"storeLink", "confirm"} => Exists(account, q.address)
      /\ q.pc = "confirm" => Exists(link, q.link)

\* An invitation is of a tenant that exists.
Vouched(i) == Exists(invitation, i) => invitation[i].tenant \in tenants

RowsOK ==
  /\ \A r \in Requests : Backed(r)
  /\ \A i \in Invites : Vouched(i)
  /\ \A l \in Links : Exists(link, l) => Exists(account, link[l].address)
  /\ \A a \in Addresses : Exists(account, a) => account[a].tenant \in tenants

Typed == TypeOK /\ \A r \in Requests : Keeps(req[r])

Good == Typed /\ RowsOK

\* One invite at a time for an address that was never crossed, and it has seen the
\* one invitation that is open.
OpenOK ==
  \A t \in Tenants, a \in Addresses :
    <<t, a>> \notin crossed =>
      /\ \A i, j \in OpenFor(t, a) : i = j
      /\ \A r \in Requests :
           req[r].pc = "create" /\ req[r].tenant = t /\ req[r].address = a =>
             /\ OpenFor(t, a) \subseteq req[r].ids
             /\ \A o \in Requests :
                  req[o].pc = "create" /\ req[o].tenant = t /\ req[o].address = a => o = r

\* Nobody takes back what somebody is accepting, or accepts what is being taken back.
RevokedOK ==
  \A i \in Invites \ raced :
    /\ Exists(invitation, i) => ~(invitation[i].accepted /\ invitation[i].revoked)
    /\ Accepting(i) => ~invitation[i].revoked /\ ~Revoking(i)
    /\ Revoking(i) => ~invitation[i].accepted

OwnersOK ==
  \A n \in tenants : \E a \in Addresses :
    Exists(account, a) /\ account[a].tenant = n /\ "SUPER_ADMIN" \in account[a].roles

-----------------------------------------------------------------------------
(* Types *)

LEMMA StaffRoles == {"SUPER_ADMIN", "HR_COMPLIANCE"} \subseteq RoleKeys
BY DEF RoleKeys, Rank

LEMMA IdleTyped == Idle \in Request /\ Idle.pc = "idle" /\ Keeps(Idle)
BY DEF Idle, Request, Steps, Keeps

\* Every request but r is where it was.
Rest(r) == \A o \in Requests \ {r} : req'[o] = req[o]

LEMMA MoveTo ==
  ASSUME Typed, NEW r \in Requests, NEW q \in Request, Keeps(q), Continue(r, q)
  PROVE  /\ req' \in [Requests -> Request]
         /\ \A o \in Requests : Keeps(req'[o])
         /\ req'[r] = q
         /\ Rest(r)
<1>1. req \in [Requests -> Request] /\ \A o \in Requests : Keeps(req[o])
  BY DEF Typed, TypeOK
<1>2. \A o \in Requests : req'[o] = IF o = r THEN q ELSE req[o]
  BY <1>1 DEF Continue
<1>3. req' \in [Requests -> Request]
  BY <1>1 DEF Continue
<1>4. \A o \in Requests : Keeps(req'[o])
  BY <1>1, <1>2
<1> QED BY <1>2, <1>3, <1>4 DEF Rest

LEMMA LeaveMoves ==
  ASSUME Typed, NEW r \in Requests, Leave(r)
  PROVE  /\ req' \in [Requests -> Request]
         /\ \A o \in Requests : Keeps(req'[o])
         /\ req'[r].pc = "idle"
         /\ Rest(r)
<1>1. Continue(r, Idle)
  BY DEF Continue, Leave
<1> QED BY <1>1, IdleTyped, MoveTo

LEMMA GotoMoves ==
  ASSUME Typed, NEW r \in Requests, NEW step \in {"session", "storeLink"}, Goto(r, step),
         step = "storeLink" => req[r].address \in Addresses
  PROVE  /\ req' \in [Requests -> Request]
         /\ \A o \in Requests : Keeps(req'[o])
         /\ req'[r].pc = step /\ req'[r].address = req[r].address
         /\ Rest(r)
<1> DEFINE q == [req[r] EXCEPT !.pc = step]
<1>1. req[r] \in Request
  BY DEF Typed, TypeOK
<1>2. q \in Request /\ q.pc = step /\ q.address = req[r].address
  BY <1>1 DEF Request, Steps
<1>3. Keeps(q)
  BY <1>2 DEF Keeps
<1>4. Continue(r, q)
  BY <1>1 DEF Continue, Goto, Typed, TypeOK
<1> HIDE DEF q
<1> QED BY <1>2, <1>3, <1>4, MoveTo

\* The tables and what the requests hold, to be cited without the rest.
LEMMA Shapes ==
  ASSUME Typed
  PROVE  /\ tenants \subseteq Tenants
         /\ account \in [Addresses -> AccountRow \cup {None}]
         /\ invitation \in [Invites -> InvitationRow \cup {None}]
         /\ link \in [Links -> LinkRow \cup {None}]
         /\ now \in Nat
         /\ req \in [Requests -> Request]
         /\ \A r \in Requests : req[r] \in Request /\ Keeps(req[r])
         /\ \A a \in Addresses : Exists(account, a) => account[a] \in AccountRow
         /\ \A i \in Invites : Exists(invitation, i) => invitation[i] \in InvitationRow
         /\ \A l \in Links : Exists(link, l) => link[l] \in LinkRow
BY DEF Typed, TypeOK, Exists

-----------------------------------------------------------------------------
(* What a step leaves of the rows, and what each action does to its request *)

\* Of a step that changes no roles: no row disappears, and what identifies it and
\* what it grants stay.
Persist ==
  /\ reassigned' = reassigned
  /\ tenants \subseteq tenants'
  /\ \A a \in Addresses : Exists(account, a) =>
       /\ Exists(account', a)
       /\ account'[a].tenant = account[a].tenant
       /\ account'[a].roles = account[a].roles
       /\ account'[a].via = account[a].via
  /\ \A i \in Invites : Exists(invitation, i) =>
       /\ Exists(invitation', i)
       /\ invitation'[i].tenant = invitation[i].tenant
       /\ invitation'[i].address = invitation[i].address
       /\ invitation'[i].roles = invitation[i].roles
       /\ invitation'[i].invitedBy = invitation[i].invitedBy
  /\ \A l \in Links : Exists(link, l) =>
       Exists(link', l) /\ link'[l].address = link[l].address

LEMMA SamePersists == UNCHANGED <<db, reassigned>> => Persist
BY DEF db, Persist, Exists

LEMMA BeginInviteMoves ==
  ASSUME Good, NEW r \in Requests, NEW actor \in Addresses, NEW a \in Addresses,
         NEW roles \in SUBSET InvitableRoles, BeginInvite(r, actor, a, roles)
  PROVE  /\ Typed' /\ Persist /\ Rest(r)
         /\ req'[r].pc = "supersede" /\ req'[r].actor = actor /\ req'[r].roles = roles
            /\ req'[r].tenant = account[actor].tenant /\ req'[r].address = a
<1> DEFINE q == [Idle EXCEPT !.pc = "supersede", !.actor = actor, !.address = a,
                                !.tenant = account[actor].tenant, !.roles = roles]
<1>1. account[actor].tenant \in Tenants /\ roles \subseteq RoleKeys
  BY Shapes, StaffAssumption DEF BeginInvite, AccountRow, Good
<1>2. q \in Request /\ q.pc = "supersede" /\ q.actor = actor /\ q.roles = roles
            /\ q.tenant = account[actor].tenant /\ q.address = a
  BY <1>1 DEF Idle, Request, Steps
<1>3. Keeps(q)
  BY <1>1, <1>2 DEF Keeps
<1>4. Continue(r, q)
  BY DEF BeginInvite
<1> HIDE DEF q
<1> QED BY <1>2, <1>3, <1>4, MoveTo, SamePersists DEF Good, Typed, TypeOK, BeginInvite, db

LEMMA SupersedeMoves ==
  ASSUME Good, NEW r \in Requests, Supersede(r)
  PROVE  /\ Typed' /\ Persist /\ Rest(r)
         /\ req'[r].pc = "create" /\ req'[r].actor = req[r].actor
            /\ req'[r].roles = req[r].roles /\ req'[r].tenant = req[r].tenant
            /\ req'[r].address = req[r].address
            /\ req'[r].ids = OpenFor(req[r].tenant, req[r].address)
<1> DEFINE q == [req[r] EXCEPT !.pc = "create", !.ids = OpenFor(req[r].tenant, req[r].address)]
<1>1. /\ req[r] \in Request
      /\ OpenFor(req[r].tenant, req[r].address) \subseteq Invites
      /\ req[r].actor \in Addresses /\ req[r].tenant \in Tenants
      /\ req[r].address \in Addresses
  BY Shapes DEF Supersede, Keeps, OpenFor, Good
<1>2. q \in Request /\ q.pc = "create" /\ q.actor = req[r].actor
            /\ q.roles = req[r].roles /\ q.tenant = req[r].tenant
            /\ q.address = req[r].address
            /\ q.ids = OpenFor(req[r].tenant, req[r].address)
  BY <1>1 DEF Request, Steps
<1>3. Keeps(q)
  BY <1>1, <1>2 DEF Keeps
<1>4. Continue(r, q)
  BY DEF Supersede
<1>5. crossed' \subseteq Tenants \X Addresses
  BY <1>1 DEF Supersede, Good, Typed, TypeOK
<1> HIDE DEF q
<1> QED BY <1>2, <1>3, <1>4, <1>5, MoveTo, SamePersists DEF Good, Typed, TypeOK, Supersede, db

LEMMA CreateInvitationMoves ==
  ASSUME Good, NEW r \in Requests, NEW i \in Invites, CreateInvitation(r, i)
  PROVE  /\ Typed' /\ Persist /\ Rest(r)
         /\ req'[r].pc = "idle"
<1>1. /\ req[r].actor \in Addresses /\ req[r].tenant \in Tenants
      /\ req[r].address \in Addresses /\ req[r].roles \subseteq RoleKeys
  BY Shapes DEF CreateInvitation, Good, Keeps, Request
<1>2. /\ req' \in [Requests -> Request]
      /\ \A o \in Requests : Keeps(req'[o])
      /\ req'[r].pc = "idle"
      /\ Rest(r)
  BY LeaveMoves DEF CreateInvitation, Good
<1>3. invitation' \in [Invites -> InvitationRow \cup {None}]
  <2> DEFINE new == [tenant |-> req[r].tenant, address |-> req[r].address,
                     roles |-> req[r].roles, invitedBy |-> req[r].actor,
                     expiresAt |-> now + InvitationTtl,
                     accepted |-> FALSE, revoked |-> FALSE]
  <2>1. new \in InvitationRow
    BY <1>1, Shapes, BoundsAssumption DEF InvitationRow, Good
  <2>2. \A j \in Invites : Exists(invitation, j) =>
          [invitation[j] EXCEPT !.revoked = TRUE] \in InvitationRow
    BY Shapes DEF InvitationRow, Good
  <2>3. \A j \in Invites : Open(j) => Exists(invitation, j)
    BY DEF Open
  <2>4. \A j \in req[r].ids : j \in Invites
    BY Shapes DEF Request, Good
  <2> HIDE DEF new
  <2>5. invitation' = [j \in Invites |->
           IF j = i THEN new
           ELSE IF j \in {k \in req[r].ids : Open(k)}
                THEN [invitation[j] EXCEPT !.revoked = TRUE]
                ELSE invitation[j]]
    BY DEF CreateInvitation, new
  <2>6. \A j \in Invites : invitation[j] \in InvitationRow \cup {None}
    BY Shapes DEF Good
  <2> QED BY <2>1, <2>2, <2>3, <2>5, <2>6
<1>4. \A j \in Invites : Exists(invitation, j) =>
        invitation'[j] \in {invitation[j], [invitation[j] EXCEPT !.revoked = TRUE]}
  BY Shapes DEF CreateInvitation, Good, Exists
<1>5. Persist
  <2>1. \A j \in Invites : Exists(invitation, j) =>
          /\ Exists(invitation', j)
          /\ invitation'[j].tenant = invitation[j].tenant
          /\ invitation'[j].address = invitation[j].address
          /\ invitation'[j].roles = invitation[j].roles
          /\ invitation'[j].invitedBy = invitation[j].invitedBy
    <3> SUFFICES ASSUME NEW j \in Invites, Exists(invitation, j)
                 PROVE  /\ Exists(invitation', j)
                        /\ invitation'[j].tenant = invitation[j].tenant
                        /\ invitation'[j].address = invitation[j].address
                        /\ invitation'[j].roles = invitation[j].roles
                        /\ invitation'[j].invitedBy = invitation[j].invitedBy
      OBVIOUS
    <3>1. invitation[j] \in InvitationRow
      BY Shapes DEF Good
    <3>2. [invitation[j] EXCEPT !.revoked = TRUE] \in InvitationRow
      BY <3>1 DEF InvitationRow
    <3> QED BY <1>4, <3>1, <3>2, NoneAssumption DEF Exists, InvitationRow
  <2> QED BY <2>1 DEF CreateInvitation, Persist
<1>6. raced' \subseteq Invites
  BY Shapes DEF CreateInvitation, Good, Typed, TypeOK, Request
<1> QED BY <1>2, <1>3, <1>5, <1>6 DEF CreateInvitation, Good, Typed, TypeOK

LEMMA BeginAcceptMoves ==
  ASSUME Good, NEW r \in Requests, NEW i \in Invites, BeginAccept(r, i)
  PROVE  /\ Typed' /\ Persist /\ Rest(r)
         /\ req'[r].pc = "join" /\ req'[r].inv = i
<1> DEFINE q == [Idle EXCEPT !.pc = "join", !.inv = i]
<1>1. i \in Invites
  BY Shapes DEF Good, Typed
<1>2. q \in Request /\ q.pc = "join" /\ q.inv = i
  BY <1>1 DEF Idle, Request, Steps
<1>3. Keeps(q)
  BY <1>1, <1>2 DEF Keeps
<1>4. Continue(r, q)
  BY DEF BeginAccept
<1>5. raced' \subseteq Invites
  BY DEF Good, Typed, TypeOK, BeginAccept
<1> HIDE DEF q
<1> QED BY <1>2, <1>3, <1>4, <1>5, MoveTo, SamePersists DEF Good, Typed, TypeOK, BeginAccept, db

LEMMA BeginRevokeMoves ==
  ASSUME Good, NEW r \in Requests, NEW actor \in Addresses, NEW i \in Invites, BeginRevoke(r, actor, i)
  PROVE  /\ Typed' /\ Persist /\ Rest(r)
         /\ req'[r].pc = "stamp" /\ req'[r].inv = i
<1> DEFINE q == [Idle EXCEPT !.pc = "stamp", !.actor = actor, !.inv = i]
<1>1. i \in Invites
  BY Shapes DEF Good, Typed
<1>2. q \in Request /\ q.pc = "stamp" /\ q.inv = i
  BY <1>1 DEF Idle, Request, Steps
<1>3. Keeps(q)
  BY <1>1, <1>2 DEF Keeps
<1>4. Continue(r, q)
  BY DEF BeginRevoke
<1>5. raced' \subseteq Invites
  BY DEF Good, Typed, TypeOK, BeginRevoke
<1> HIDE DEF q
<1> QED BY <1>2, <1>3, <1>4, <1>5, MoveTo, SamePersists DEF Good, Typed, TypeOK, BeginRevoke, db

LEMMA BeginRegisterMoves ==
  ASSUME Good, NEW r \in Requests, NEW a \in Addresses, BeginRegister(r, a)
  PROVE  /\ Typed' /\ Persist /\ Rest(r)
         /\ req'[r].pc = "findSlug" /\ req'[r].address = a
<1> DEFINE q == [Idle EXCEPT !.pc = "findSlug", !.address = a]
<1>1. a \in Addresses
  BY Shapes DEF Good, Typed
<1>2. q \in Request /\ q.pc = "findSlug" /\ q.address = a
  BY <1>1 DEF Idle, Request, Steps
<1>3. Keeps(q)
  BY <1>1, <1>2 DEF Keeps
<1>4. Continue(r, q)
  BY DEF BeginRegister
<1> HIDE DEF q
<1> QED BY <1>2, <1>3, <1>4, MoveTo, SamePersists DEF Good, Typed, TypeOK, BeginRegister, db

LEMMA BeginResendMoves ==
  ASSUME Good, NEW r \in Requests, NEW a \in Addresses, BeginResend(r, a)
  PROVE  /\ Typed' /\ Persist /\ Rest(r)
         /\ req'[r].pc = "storeLink" /\ req'[r].address = a
<1> DEFINE q == [Idle EXCEPT !.pc = "storeLink", !.address = a]
<1>1. a \in Addresses
  BY Shapes DEF Good, Typed
<1>2. q \in Request /\ q.pc = "storeLink" /\ q.address = a
  BY <1>1 DEF Idle, Request, Steps
<1>3. Keeps(q)
  BY <1>1, <1>2 DEF Keeps
<1>4. Continue(r, q)
  BY DEF BeginResend
<1> HIDE DEF q
<1> QED BY <1>2, <1>3, <1>4, MoveTo, SamePersists DEF Good, Typed, TypeOK, BeginResend, db

LEMMA BeginVerifyMoves ==
  ASSUME Good, NEW r \in Requests, NEW l \in Links, BeginVerify(r, l)
  PROVE  /\ Typed' /\ Persist /\ Rest(r)
         /\ req'[r].pc = "confirm" /\ req'[r].address = link[l].address /\ req'[r].link = l
<1> DEFINE q == [Idle EXCEPT !.pc = "confirm", !.address = link[l].address, !.link = l]
<1>1. link[l].address \in Addresses
  BY Shapes DEF BeginVerify, LinkRow, Good
<1>2. q \in Request /\ q.pc = "confirm" /\ q.address = link[l].address /\ q.link = l
  BY <1>1 DEF Idle, Request, Steps
<1>3. Keeps(q)
  BY <1>1, <1>2 DEF Keeps
<1>4. Continue(r, q)
  BY DEF BeginVerify
<1> HIDE DEF q
<1> QED BY <1>2, <1>3, <1>4, MoveTo, SamePersists DEF Good, Typed, TypeOK, BeginVerify, db

LEMMA JoinMoves ==
  ASSUME Good, NEW r \in Requests, Join(r)
  PROVE  /\ Typed' /\ Persist /\ Rest(r)
         /\ req'[r].pc \in {"idle", "session"}
<1> DEFINE i == req[r].inv
           a == invitation[i].address
<1>1. /\ i \in Invites /\ Exists(invitation, i)
      /\ invitation[i] \in InvitationRow
  BY Shapes DEF Join, Good, RowsOK, Keeps, Backed
<1>2. a \in Addresses /\ JoinedRow(i) \in AccountRow
  BY <1>1 DEF InvitationRow, AccountRow, JoinedRow
<1>3. [invitation[i] EXCEPT !.accepted = TRUE] \in InvitationRow
  BY <1>1 DEF InvitationRow
<1>4. CASE Exists(account, a)
  <2>1. Leave(r) /\ UNCHANGED db
    BY <1>4 DEF Join, db
  <2> QED BY <2>1, LeaveMoves, SamePersists DEF Join, db, Good, Typed, TypeOK
<1>5. CASE ~Exists(account, a)
  <2>1. /\ account' = [account EXCEPT ![a] = JoinedRow(i)]
        /\ invitation' = [invitation EXCEPT ![i].accepted = TRUE]
        /\ Goto(r, "session")
        /\ UNCHANGED <<tenants, link, now, crossed, raced, reassigned>>
    BY <1>5 DEF Join
  <2> HIDE DEF i, a
  <2>2. /\ req' \in [Requests -> Request]
        /\ \A o \in Requests : Keeps(req'[o])
        /\ req'[r].pc = "session"
        /\ Rest(r)
    BY <2>1, GotoMoves DEF Good
  <2>3. invitation' = [invitation EXCEPT ![i] = [invitation[i] EXCEPT !.accepted = TRUE]]
    BY <2>1
  <2>4. /\ account' \in [Addresses -> AccountRow \cup {None}]
        /\ invitation' \in [Invites -> InvitationRow \cup {None}]
    BY <1>2, <1>3, <2>1, <2>3, Shapes DEF Good
  <2>5. \A b \in Addresses : Exists(account, b) => account'[b] = account[b]
    BY <1>5, <2>1, Shapes DEF Good
  <2>6. \A j \in Invites : Exists(invitation, j) =>
          /\ Exists(invitation', j)
          /\ invitation'[j].tenant = invitation[j].tenant
          /\ invitation'[j].address = invitation[j].address
          /\ invitation'[j].roles = invitation[j].roles
          /\ invitation'[j].invitedBy = invitation[j].invitedBy
    BY <1>1, <1>3, <2>3, Shapes, NoneAssumption DEF Good, Exists, InvitationRow
  <2>7. Persist
    BY <2>1, <2>5, <2>6 DEF Persist, Exists
  <2> QED BY <2>1, <2>2, <2>4, <2>7 DEF Good, Typed, TypeOK
<1> QED BY <1>4, <1>5

\* A role change touches the roles of one account, and marks it if they differ.
LEMMA AssignRolesMoves ==
  ASSUME Good, NEW actor \in Addresses, NEW a \in Addresses,
         NEW roles \in SUBSET AssignableRoles, AssignRoles(actor, a, roles)
  PROVE  /\ Typed'
         /\ UNCHANGED <<tenants, invitation, link, now, req, crossed, raced>>
         /\ Exists(account, a) /\ account'[a].roles = roles
         /\ \A b \in Addresses :
              /\ Exists(account', b) <=> Exists(account, b)
              /\ Exists(account, b) =>
                   /\ account'[b].tenant = account[b].tenant
                   /\ account'[b].via = account[b].via
                   /\ b # a \/ b \notin reassigned' => account'[b].roles = account[b].roles
         /\ reassigned \subseteq reassigned'
<1> DEFINE row == [account[a] EXCEPT !.roles = roles]
<1>1. account[a] \in AccountRow /\ Exists(account, a) /\ roles \subseteq RoleKeys
  BY Shapes, StaffAssumption DEF AssignRoles, Good
<1>2. /\ row \in AccountRow /\ row.roles = roles
      /\ row.tenant = account[a].tenant /\ row.via = account[a].via
  BY <1>1 DEF AccountRow
<1>3. account' = [account EXCEPT ![a] = row]
  BY DEF AssignRoles
<1>4. /\ reassigned' \subseteq Addresses /\ reassigned \subseteq reassigned'
      /\ a \notin reassigned' => roles = account[a].roles
  BY DEF AssignRoles, Good, Typed, TypeOK
<1>5. UNCHANGED <<tenants, invitation, link, now, req, crossed, raced>>
  BY DEF AssignRoles
<1> HIDE DEF row
<1>6. account' \in [Addresses -> AccountRow \cup {None}]
  BY <1>2, <1>3, Shapes DEF Good
<1>7. Typed'
  BY <1>4, <1>5, <1>6 DEF Good, Typed, TypeOK
<1>8. row # None
  BY <1>2, NoneAssumption
<1>9. account'[a] = row /\ \A b \in Addresses \ {a} : account'[b] = account[b]
  BY <1>3, Shapes DEF Good
<1> QED BY <1>1, <1>2, <1>4, <1>5, <1>7, <1>8, <1>9 DEF Exists

LEMMA IssueSessionMoves ==
  ASSUME Good, NEW r \in Requests, IssueSession(r)
  PROVE  /\ Typed' /\ Persist /\ Rest(r)
         /\ req'[r].pc = "idle"
<1>1. Leave(r) /\ UNCHANGED <<db, now, crossed, raced, reassigned>>
  BY DEF IssueSession
<1> QED BY <1>1, LeaveMoves, SamePersists DEF db, Good, Typed, TypeOK

LEMMA FailMoves ==
  ASSUME Good, NEW r \in Requests, Fail(r)
  PROVE  /\ Typed' /\ Persist /\ Rest(r)
         /\ req'[r].pc = "idle"
<1>1. Leave(r) /\ UNCHANGED <<db, now, crossed, raced, reassigned>>
  BY DEF Fail
<1> QED BY <1>1, LeaveMoves, SamePersists DEF db, Good, Typed, TypeOK

LEMMA StampRevokedMoves ==
  ASSUME Good, NEW r \in Requests, StampRevoked(r)
  PROVE  /\ Typed' /\ Persist /\ Rest(r)
         /\ req'[r].pc = "idle"
<1> DEFINE i == req[r].inv
<1>1. /\ i \in Invites /\ Exists(invitation, i)
      /\ invitation[i] \in InvitationRow
  BY Shapes DEF StampRevoked, Good, RowsOK, Keeps, Backed
<1>2. [invitation[i] EXCEPT !.revoked = TRUE] \in InvitationRow
  BY <1>1 DEF InvitationRow
<1>3. invitation' = [invitation EXCEPT ![i] = [invitation[i] EXCEPT !.revoked = TRUE]]
  BY DEF StampRevoked
<1> HIDE DEF i
<1>4. /\ req' \in [Requests -> Request]
      /\ \A o \in Requests : Keeps(req'[o])
      /\ req'[r].pc = "idle"
      /\ Rest(r)
  BY LeaveMoves DEF StampRevoked, Good
<1>5. invitation' \in [Invites -> InvitationRow \cup {None}]
  BY <1>2, <1>3, Shapes DEF Good
<1>6. \A j \in Invites : Exists(invitation, j) =>
        /\ Exists(invitation', j)
        /\ invitation'[j].tenant = invitation[j].tenant
        /\ invitation'[j].address = invitation[j].address
        /\ invitation'[j].roles = invitation[j].roles
        /\ invitation'[j].invitedBy = invitation[j].invitedBy
  BY <1>1, <1>2, <1>3, Shapes, NoneAssumption DEF Good, Exists, InvitationRow
<1>7. Persist
  BY <1>6 DEF StampRevoked, Persist, Exists
<1> QED BY <1>4, <1>5, <1>7 DEF StampRevoked, Good, Typed, TypeOK

LEMMA FindSlugMoves ==
  ASSUME Good, NEW r \in Requests, FindSlug(r)
  PROVE  /\ Typed' /\ Persist /\ Rest(r)
         /\ req'[r].pc \in {"idle", "provision"}
<1>1. UNCHANGED <<db, now, crossed, raced, reassigned>>
  BY Zenon DEF FindSlug
<1>2. CASE Leave(r)
  BY <1>1, <1>2, LeaveMoves, SamePersists DEF db, Good, Typed, TypeOK
<1>3. CASE \E n \in Tenants : Continue(r, [req[r] EXCEPT !.pc = "provision", !.tenant = n])
  <2>1. PICK n \in Tenants : Continue(r, [req[r] EXCEPT !.pc = "provision", !.tenant = n])
    BY <1>3, Zenon
  <2> DEFINE q == [req[r] EXCEPT !.pc = "provision", !.tenant = n]
  <2>2. req[r] \in Request /\ req[r].address \in Addresses
    BY Shapes, Zenon DEF FindSlug, Good, Keeps
  <2>3. /\ q \in Request /\ q.pc = "provision" /\ q.tenant = n
        /\ q.address = req[r].address
    BY <2>2 DEF Request, Steps
  <2>4. Keeps(q)
    BY <2>2, <2>3 DEF Keeps
  <2> HIDE DEF q
  <2>5. Continue(r, q)
    BY <2>1 DEF q
  <2> QED BY <1>1, <2>3, <2>4, <2>5, MoveTo, SamePersists DEF db, Good, Typed, TypeOK
<1> QED BY <1>2, <1>3, Zenon DEF FindSlug

LEMMA ProvisionMoves ==
  ASSUME Good, NEW r \in Requests, Provision(r)
  PROVE  /\ Typed' /\ Persist /\ Rest(r)
         /\ req'[r].pc \in {"idle", "storeLink"}
         /\ req'[r].pc = "storeLink" =>
              req'[r].address = req[r].address /\ Exists(account', req[r].address)
<1> DEFINE a == req[r].address
           n == req[r].tenant
<1>1. a \in Addresses /\ n \in Tenants
  BY Shapes DEF Provision, Good, Keeps
<1>2. OwnerRow(n) \in AccountRow
  BY <1>1, StaffRoles DEF OwnerRow, AccountRow
<1>3. CASE n \in tenants \/ Exists(account, a)
  <2>1. Leave(r) /\ UNCHANGED db
    BY <1>3 DEF Provision, db
  <2> QED BY <2>1, LeaveMoves, SamePersists DEF Provision, db, Good, Typed, TypeOK
<1>4. CASE n \notin tenants /\ ~Exists(account, a)
  <2>1. /\ tenants' = tenants \cup {n}
        /\ account' = [account EXCEPT ![a] = OwnerRow(n)]
        /\ Goto(r, "storeLink")
        /\ UNCHANGED <<invitation, link, now, crossed, raced, reassigned>>
    BY <1>4 DEF Provision
  <2>2. /\ req' \in [Requests -> Request]
        /\ \A o \in Requests : Keeps(req'[o])
        /\ req'[r].pc = "storeLink" /\ req'[r].address = a
        /\ Rest(r)
    BY <1>1, <2>1, GotoMoves DEF Good
  <2> HIDE DEF a, n
  <2>3. account' \in [Addresses -> AccountRow \cup {None}]
    BY <1>2, <2>1, Shapes DEF Good
  <2>4. \A b \in Addresses : Exists(account, b) => account'[b] = account[b]
    BY <1>4, <2>1, Shapes DEF Good
  <2>5. Persist
    BY <2>1, <2>4 DEF Persist, Exists
  <2>6. Exists(account', a)
    BY <1>1, <1>2, <2>1, Shapes, NoneAssumption DEF Exists, Good
  <2>7. tenants' \subseteq Tenants
    BY <1>1, <2>1, Shapes DEF Good
  <2> QED BY <2>1, <2>2, <2>3, <2>5, <2>6, <2>7 DEF Good, Typed, TypeOK, a
<1> QED BY <1>3, <1>4

LEMMA StoreLinkMoves ==
  ASSUME Good, NEW r \in Requests, NEW l \in Links, StoreLink(r, l)
  PROVE  /\ Typed' /\ Persist /\ Rest(r)
         /\ req'[r].pc = "session"
<1>1. req[r].address \in Addresses
  BY Shapes DEF StoreLink, Good, Keeps
<1>2. /\ req' \in [Requests -> Request]
      /\ \A o \in Requests : Keeps(req'[o])
      /\ req'[r].pc = "session"
      /\ Rest(r)
  BY GotoMoves DEF StoreLink, Good
<1>3. link' \in [Links -> LinkRow \cup {None}]
  BY <1>1, Shapes, BoundsAssumption DEF StoreLink, LinkRow, Good
<1>4. \A k \in Links : Exists(link, k) => link'[k] = link[k]
  BY Shapes DEF StoreLink, Good
<1>5. Persist
  BY <1>4 DEF StoreLink, Persist, Exists
<1> QED BY <1>2, <1>3, <1>5 DEF StoreLink, Good, Typed, TypeOK

LEMMA ConfirmMoves ==
  ASSUME Good, NEW r \in Requests, Confirm(r)
  PROVE  /\ Typed' /\ Persist /\ Rest(r)
         /\ req'[r].pc = "idle"
<1> DEFINE a == req[r].address
           l == req[r].link
<1>1. /\ a \in Addresses /\ Exists(account, a) /\ account[a] \in AccountRow
      /\ l \in Links /\ Exists(link, l) /\ link[l] \in LinkRow
  BY Shapes DEF Confirm, Good, RowsOK, Keeps, Backed
<1>2. /\ [account[a] EXCEPT !.verified = TRUE] \in AccountRow
      /\ [link[l] EXCEPT !.used = TRUE] \in LinkRow
  BY <1>1 DEF AccountRow, LinkRow
<1>3. /\ account' = [account EXCEPT ![a] = [account[a] EXCEPT !.verified = TRUE]]
      /\ link' = [link EXCEPT ![l] = [link[l] EXCEPT !.used = TRUE]]
  BY DEF Confirm
<1> HIDE DEF a, l
<1>4. /\ req' \in [Requests -> Request]
      /\ \A o \in Requests : Keeps(req'[o])
      /\ req'[r].pc = "idle"
      /\ Rest(r)
  BY LeaveMoves DEF Confirm, Good
<1>5. /\ account' \in [Addresses -> AccountRow \cup {None}]
      /\ link' \in [Links -> LinkRow \cup {None}]
  BY <1>2, <1>3, Shapes DEF Good
<1>6. \A b \in Addresses : Exists(account, b) =>
        /\ Exists(account', b)
        /\ account'[b].tenant = account[b].tenant
        /\ account'[b].roles = account[b].roles
        /\ account'[b].via = account[b].via
  BY <1>1, <1>2, <1>3, Shapes, NoneAssumption DEF Good, Exists, AccountRow
<1>7. \A k \in Links : Exists(link, k) =>
        Exists(link', k) /\ link'[k].address = link[k].address
  BY <1>1, <1>2, <1>3, Shapes, NoneAssumption DEF Good, Exists, LinkRow
<1>8. Persist
  BY <1>6, <1>7 DEF Confirm, Persist, Exists
<1> QED BY <1>4, <1>5, <1>8 DEF Confirm, Good, Typed, TypeOK

-----------------------------------------------------------------------------
(* Each invariant is kept by every step *)

\* What is true of the rows stays true; a step only answers for what it adds.
LEMMA RowsKept ==
  ASSUME Good, Persist, NEW r \in Requests, Rest(r), Backed(r)',
         \A i \in Invites : ~Exists(invitation, i) => Vouched(i)',
         \A l \in Links : ~Exists(link, l) /\ Exists(link', l) =>
           Exists(account', link'[l].address),
         \A a \in Addresses : ~Exists(account, a) /\ Exists(account', a) =>
           account'[a].tenant \in tenants'
  PROVE  RowsOK'
<1>1. ASSUME NEW o \in Requests
      PROVE  Backed(o)'
  <2>1. CASE o = r
    BY <2>1
  <2>2. CASE o # r
    <3>1. req'[o] = req[o] /\ Backed(o)
      BY <2>2 DEF Rest, Good, RowsOK
    <3>2. Keeps(req[o])
      BY Shapes DEF Good
    <3>3. req[o].pc \in {"supersede", "create"} =>
            /\ req[o].actor \in Addresses
            /\ Exists(account', req[o].actor)
            /\ account'[req[o].actor].tenant = req[o].tenant
      BY <3>1, <3>2 DEF Backed, Keeps, Persist
    <3>4. req[o].pc \in {"join", "stamp"} => Exists(invitation', req[o].inv)
      BY <3>1, <3>2 DEF Backed, Keeps, Persist
    <3>5. /\ req[o].pc \in {"storeLink", "confirm"} => Exists(account', req[o].address)
          /\ req[o].pc = "confirm" => Exists(link', req[o].link)
      BY <3>1, <3>2 DEF Backed, Keeps, Persist
    <3> QED BY <3>1, <3>3, <3>4, <3>5 DEF Backed, Exists
  <2> QED BY <2>1, <2>2
<1>2. ASSUME NEW i \in Invites
      PROVE  Vouched(i)'
  <2>1. CASE Exists(invitation, i)
    BY <2>1 DEF Good, RowsOK, Vouched, Persist, Exists
  <2>2. CASE ~Exists(invitation, i)
    BY <2>2
  <2> QED BY <2>1, <2>2
<1>3. ASSUME NEW l \in Links, Exists(link', l)
      PROVE  Exists(account', link'[l].address)
  <2>1. CASE Exists(link, l)
    <3>1. link[l].address \in Addresses /\ Exists(account, link[l].address)
      BY <2>1, Shapes DEF Good, RowsOK, LinkRow
    <3> QED BY <2>1, <3>1 DEF Persist
  <2>2. CASE ~Exists(link, l)
    BY <1>3, <2>2
  <2> QED BY <2>1, <2>2
<1>4. ASSUME NEW a \in Addresses, Exists(account', a)
      PROVE  account'[a].tenant \in tenants'
  <2>1. CASE Exists(account, a)
    BY <2>1 DEF Good, RowsOK, Persist
  <2>2. CASE ~Exists(account, a)
    BY <1>4, <2>2
  <2> QED BY <2>1, <2>2
<1> QED BY <1>1, <1>2, <1>3, <1>4 DEF RowsOK, Exists

\* A step that adds no row.
LEMMA NoRowAdded ==
  ASSUME Good, Persist, NEW r \in Requests, Rest(r), Backed(r)',
         \A i \in Invites : ~Exists(invitation, i) => ~Exists(invitation', i),
         \A l \in Links : ~Exists(link, l) => ~Exists(link', l),
         \A a \in Addresses : ~Exists(account, a) => ~Exists(account', a)
  PROVE  RowsOK'
<1>1. \A i \in Invites : ~Exists(invitation, i) => Vouched(i)'
  BY DEF Vouched, Exists
<1> QED BY <1>1, RowsKept

LEMMA GoodStep ==
  ASSUME Good, [Next]_vars
  PROVE  Good'
<1>1. ASSUME NEW r \in Requests, NEW actor \in Addresses, NEW a \in Addresses,
             NEW roles \in SUBSET InvitableRoles, BeginInvite(r, actor, a, roles)
      PROVE  Good'
  <2>1. /\ Typed' /\ Persist /\ Rest(r) /\ req'[r].pc = "supersede"
        /\ req'[r].actor = actor /\ req'[r].roles = roles
        /\ req'[r].tenant = account[actor].tenant
    BY <1>1, BeginInviteMoves
  <2>2. UNCHANGED db
    BY <1>1 DEF BeginInvite, db
  <2>3. Backed(r)'
    BY <1>1, <2>1, <2>2 DEF BeginInvite, Backed, Exists, db
  <2> QED BY <2>1, <2>2, <2>3, NoRowAdded DEF Good, db, Exists
<1>2. ASSUME NEW r \in Requests, Supersede(r)
      PROVE  Good'
  <2>1. /\ Typed' /\ Persist /\ Rest(r) /\ req'[r].pc = "create"
        /\ req'[r].actor = req[r].actor /\ req'[r].roles = req[r].roles
        /\ req'[r].tenant = req[r].tenant
    BY <1>2, SupersedeMoves
  <2>2. UNCHANGED db /\ req[r].pc = "supersede" /\ Backed(r)
    BY <1>2 DEF Supersede, db, Good, RowsOK
  <2>3. Backed(r)'
    BY <2>1, <2>2 DEF Backed, Exists, db
  <2> QED BY <2>1, <2>2, <2>3, NoRowAdded DEF Good, db, Exists
<1>3. ASSUME NEW r \in Requests, NEW i \in Invites, CreateInvitation(r, i)
      PROVE  Good'
  <2>1. Typed' /\ Persist /\ Rest(r) /\ req'[r].pc = "idle"
    BY <1>3, CreateInvitationMoves
  <2>2. Backed(r)'
    BY <2>1 DEF Backed
  <2>3. /\ req[r].pc = "create" /\ Backed(r) /\ req[r].actor \in Addresses
        /\ UNCHANGED <<tenants, account, link>>
    BY <1>3, Shapes DEF CreateInvitation, Good, RowsOK, Keeps
  <2>4. /\ invitation'[i].tenant = req[r].tenant
        /\ invitation'[i].roles = req[r].roles
        /\ invitation'[i].invitedBy = req[r].actor
    BY <1>3 DEF CreateInvitation
  <2>5. \A j \in Invites : ~Exists(invitation, j) /\ Exists(invitation', j) => j = i
    BY <1>3 DEF CreateInvitation, Exists, Open
  <2>6. account[req[r].actor].tenant \in tenants
    BY <2>3 DEF Good, RowsOK, Backed
  <2>7. Vouched(i)'
    BY <2>3, <2>4, <2>6 DEF Vouched, Backed, Exists
  <2>8. \A j \in Invites : ~Exists(invitation, j) => Vouched(j)'
    BY <2>5, <2>7 DEF Vouched, Exists
  <2> QED BY <2>1, <2>2, <2>3, <2>8, RowsKept DEF Good, Exists
<1>4. ASSUME NEW r \in Requests, NEW i \in Invites, BeginAccept(r, i)
      PROVE  Good'
  <2>1. Typed' /\ Persist /\ Rest(r) /\ req'[r].pc = "join" /\ req'[r].inv = i
    BY <1>4, BeginAcceptMoves
  <2>2. UNCHANGED db
    BY <1>4 DEF BeginAccept, db
  <2>3. Backed(r)'
    BY <1>4, <2>1, <2>2 DEF BeginAccept, Redeemable, Open, Backed, Exists, db
  <2> QED BY <2>1, <2>2, <2>3, NoRowAdded DEF Good, db, Exists
<1>5. ASSUME NEW r \in Requests, Join(r)
      PROVE  Good'
  <2>1. Typed' /\ Persist /\ Rest(r) /\ req'[r].pc \in {"idle", "session"}
    BY <1>5, JoinMoves
  <2>2. Backed(r)'
    BY <2>1 DEF Backed
  <2>3. req[r].inv \in Invites /\ Exists(invitation, req[r].inv)
    BY <1>5, Shapes DEF Join, Good, RowsOK, Keeps, Backed
  <2>4. invitation[req[r].inv].tenant \in tenants
    BY <2>3 DEF Good, RowsOK, Vouched
  <2>5. UNCHANGED <<tenants, link>>
    BY <1>5 DEF Join
  <2>6. \A j \in Invites : ~Exists(invitation, j) => ~Exists(invitation', j)
    BY <1>5, <2>3, Shapes DEF Join, Good, Exists
  <2>7. \A a \in Addresses : ~Exists(account, a) /\ Exists(account', a) =>
          account'[a].tenant \in tenants'
    BY <1>5, <2>4, <2>5, Shapes DEF Join, JoinedRow, Good, Exists
  <2>8. \A i \in Invites : ~Exists(invitation, i) => Vouched(i)'
    BY <2>6 DEF Vouched, Exists
  <2> QED BY <2>1, <2>2, <2>5, <2>7, <2>8, RowsKept DEF Good, Exists
<1>6. ASSUME NEW r \in Requests, IssueSession(r)
      PROVE  Good'
  <2>1. Typed' /\ Persist /\ Rest(r) /\ req'[r].pc \notin
          {"supersede", "create", "join", "stamp", "storeLink", "confirm"}
    BY <1>6, IssueSessionMoves
  <2>2. UNCHANGED db
    BY <1>6 DEF IssueSession, db
  <2>3. Backed(r)'
    BY <2>1 DEF Backed
  <2> QED BY <2>1, <2>2, <2>3, NoRowAdded DEF Good, db, Exists
<1>7. ASSUME NEW r \in Requests, NEW actor \in Addresses, NEW i \in Invites, BeginRevoke(r, actor, i)
      PROVE  Good'
  <2>1. Typed' /\ Persist /\ Rest(r) /\ req'[r].pc = "stamp" /\ req'[r].inv = i
    BY <1>7, BeginRevokeMoves
  <2>2. UNCHANGED db
    BY <1>7 DEF BeginRevoke, db
  <2>3. Backed(r)'
    BY <1>7, <2>1, <2>2 DEF BeginRevoke, Open, Backed, Exists, db
  <2> QED BY <2>1, <2>2, <2>3, NoRowAdded DEF Good, db, Exists
<1>8. ASSUME NEW r \in Requests, StampRevoked(r)
      PROVE  Good'
  <2>1. Typed' /\ Persist /\ Rest(r) /\ req'[r].pc = "idle"
    BY <1>8, StampRevokedMoves
  <2>2. Backed(r)'
    BY <2>1 DEF Backed
  <2>3. req[r].inv \in Invites /\ Exists(invitation, req[r].inv)
    BY <1>8, Shapes DEF StampRevoked, Good, RowsOK, Keeps, Backed
  <2>4. \A j \in Invites : ~Exists(invitation, j) => ~Exists(invitation', j)
    BY <1>8, <2>3, Shapes DEF StampRevoked, Good, Exists
  <2> QED BY <1>8, <2>1, <2>2, <2>4, NoRowAdded DEF StampRevoked, Good, Exists
<1>9. ASSUME NEW r \in Requests, NEW a \in Addresses, BeginRegister(r, a)
      PROVE  Good'
  <2>1. Typed' /\ Persist /\ Rest(r) /\ req'[r].pc \notin
          {"supersede", "create", "join", "stamp", "storeLink", "confirm"}
    BY <1>9, BeginRegisterMoves
  <2>2. UNCHANGED db
    BY <1>9 DEF BeginRegister, db
  <2>3. Backed(r)'
    BY <2>1 DEF Backed
  <2> QED BY <2>1, <2>2, <2>3, NoRowAdded DEF Good, db, Exists
<1>10. ASSUME NEW r \in Requests, NEW a \in Addresses, BeginResend(r, a)
      PROVE  Good'
  <2>1. Typed' /\ Persist /\ Rest(r) /\ req'[r].pc = "storeLink" /\ req'[r].address = a
    BY <1>10, BeginResendMoves
  <2>2. UNCHANGED db
    BY <1>10 DEF BeginResend, db
  <2>3. Backed(r)'
    BY <1>10, <2>1, <2>2 DEF BeginResend, Backed, Exists, db
  <2> QED BY <2>1, <2>2, <2>3, NoRowAdded DEF Good, db, Exists
<1>11. ASSUME NEW r \in Requests, FindSlug(r)
      PROVE  Good'
  <2>1. Typed' /\ Persist /\ Rest(r) /\ req'[r].pc \notin
          {"supersede", "create", "join", "stamp", "storeLink", "confirm"}
    BY <1>11, FindSlugMoves
  <2>2. UNCHANGED db
    BY <1>11, Zenon DEF FindSlug, db
  <2>3. Backed(r)'
    BY <2>1 DEF Backed
  <2> QED BY <2>1, <2>2, <2>3, NoRowAdded DEF Good, db, Exists
<1>12. ASSUME NEW r \in Requests, Provision(r)
      PROVE  Good'
  <2>1. /\ Typed' /\ Persist /\ Rest(r)
        /\ req'[r].pc \in {"idle", "storeLink"}
        /\ req'[r].pc = "storeLink" =>
             req'[r].address = req[r].address /\ Exists(account', req[r].address)
    BY <1>12, ProvisionMoves
  <2>2. Backed(r)'
    BY <2>1 DEF Backed, Exists
  <2>3. UNCHANGED <<invitation, link>>
    BY <1>12 DEF Provision
  <2>4. \A a \in Addresses : ~Exists(account, a) /\ Exists(account', a) =>
          account'[a].tenant \in tenants'
    BY <1>12, Shapes DEF Provision, OwnerRow, Good, Exists
  <2>5. \A i \in Invites : ~Exists(invitation, i) => Vouched(i)'
    BY <2>3 DEF Vouched, Exists
  <2> QED BY <2>1, <2>2, <2>3, <2>4, <2>5, RowsKept DEF Good, Exists
<1>13. ASSUME NEW r \in Requests, NEW l \in Links, StoreLink(r, l)
      PROVE  Good'
  <2>1. Typed' /\ Persist /\ Rest(r) /\ req'[r].pc = "session"
    BY <1>13, StoreLinkMoves
  <2>2. Backed(r)'
    BY <2>1 DEF Backed
  <2>3. UNCHANGED <<tenants, account, invitation>>
    BY <1>13 DEF StoreLink
  <2>4. Exists(account, req[r].address)
    BY <1>13 DEF StoreLink, Good, RowsOK, Backed
  <2>5. \A k \in Links : ~Exists(link, k) /\ Exists(link', k) =>
          Exists(account', link'[k].address)
    BY <1>13, <2>3, <2>4, Shapes DEF StoreLink, Good, Exists
  <2>6. \A i \in Invites : ~Exists(invitation, i) => Vouched(i)'
    BY <2>3 DEF Vouched, Exists
  <2> QED BY <2>1, <2>2, <2>3, <2>5, <2>6, RowsKept DEF Good, Exists
<1>14. ASSUME NEW r \in Requests, NEW l \in Links, BeginVerify(r, l)
      PROVE  Good'
  <2>1. /\ Typed' /\ Persist /\ Rest(r) /\ req'[r].pc = "confirm"
        /\ req'[r].address = link[l].address /\ req'[r].link = l
    BY <1>14, BeginVerifyMoves
  <2>2. UNCHANGED db
    BY <1>14 DEF BeginVerify, db
  <2>3. Exists(link, l) /\ Exists(account, link[l].address)
    BY <1>14 DEF BeginVerify, Good, RowsOK
  <2>4. Backed(r)'
    BY <2>1, <2>2, <2>3 DEF Backed, Exists, db
  <2> QED BY <2>1, <2>2, <2>4, NoRowAdded DEF Good, db, Exists
<1>15. ASSUME NEW r \in Requests, Confirm(r)
      PROVE  Good'
  <2>1. Typed' /\ Persist /\ Rest(r) /\ req'[r].pc = "idle"
    BY <1>15, ConfirmMoves
  <2>2. Backed(r)'
    BY <2>1 DEF Backed
  <2>3. /\ req[r].link \in Links /\ Exists(link, req[r].link)
        /\ req[r].address \in Addresses /\ Exists(account, req[r].address)
    BY <1>15, Shapes DEF Confirm, Good, RowsOK, Keeps, Backed
  <2>4. /\ \A l \in Links : ~Exists(link, l) => ~Exists(link', l)
        /\ \A a \in Addresses : ~Exists(account, a) => ~Exists(account', a)
    BY <1>15, <2>3, Shapes DEF Confirm, Good, Exists
  <2> QED BY <1>15, <2>1, <2>2, <2>4, NoRowAdded DEF Confirm, Good, Exists
<1>16. ASSUME NEW r \in Requests, Fail(r)
      PROVE  Good'
  <2>1. Typed' /\ Persist /\ Rest(r) /\ req'[r].pc \notin
          {"supersede", "create", "join", "stamp", "storeLink", "confirm"}
    BY <1>16, FailMoves
  <2>2. UNCHANGED db
    BY <1>16 DEF Fail, db
  <2>3. Backed(r)'
    BY <2>1 DEF Backed
  <2> QED BY <2>1, <2>2, <2>3, NoRowAdded DEF Good, db, Exists
<1>17. CASE Tick
  <2>1. UNCHANGED <<db, req, crossed, raced, reassigned>> /\ now' \in Nat
    BY <1>17, Shapes DEF Tick, db, Good
  <2>2. Typed'
    BY <2>1 DEF db, Good, Typed, TypeOK
  <2>3. RowsOK'
    BY <2>1 DEF db, Good, RowsOK, Backed, Vouched, Exists
  <2> QED BY <2>2, <2>3 DEF Good
<1>18. CASE UNCHANGED vars
  <2>1. UNCHANGED <<db, req, crossed, raced, reassigned>> /\ now' \in Nat
    BY <1>18, Shapes DEF vars, db, Good
  <2>2. Typed'
    BY <2>1 DEF db, Good, Typed, TypeOK
  <2>3. RowsOK'
    BY <2>1 DEF db, Good, RowsOK, Backed, Vouched, Exists
  <2> QED BY <2>2, <2>3 DEF Good
<1>19. ASSUME NEW actor \in Addresses, NEW a \in Addresses,
              NEW roles \in SUBSET AssignableRoles, AssignRoles(actor, a, roles)
      PROVE  Good'
  <2>1. /\ Typed' /\ UNCHANGED <<tenants, invitation, link, req>>
        /\ \A b \in Addresses :
             /\ Exists(account', b) <=> Exists(account, b)
             /\ Exists(account, b) => account'[b].tenant = account[b].tenant
    BY <1>19, AssignRolesMoves
  <2>2. ASSUME NEW r \in Requests
        PROVE  Backed(r)'
    <3>1. Backed(r) /\ Keeps(req[r])
      BY Shapes DEF Good, RowsOK
    <3> QED BY <2>1, <3>1 DEF Backed, Keeps, Exists
  <2>3. \A i \in Invites : Vouched(i)'
    BY <2>1 DEF Good, RowsOK, Vouched, Exists
  <2>4. \A l \in Links : Exists(link, l) => Exists(account', link[l].address)
    BY <2>1, Shapes DEF Good, RowsOK, LinkRow
  <2>5. \A b \in Addresses : Exists(account', b) => account'[b].tenant \in tenants
    BY <2>1 DEF Good, RowsOK
  <2> QED BY <2>1, <2>2, <2>3, <2>4, <2>5 DEF Good, RowsOK, Exists
<1> QED BY <1>1, <1>2, <1>3, <1>4, <1>5, <1>6, <1>7, <1>8, <1>9,
    <1>10, <1>11, <1>12, <1>13, <1>14, <1>15, <1>16, <1>17, <1>18, <1>19
    DEF Next, InviteStep, AcceptStep, RevokeStep, RegisterStep

\* A step that changes nobody's account or invitation, but for the verification.
LEMMA JoinedQuiet ==
  ASSUME Good, Persist, AcceptedMeansJoined,
         \A i \in Invites : ~Exists(invitation, i) /\ Exists(invitation', i) =>
           ~invitation'[i].accepted,
         \A i \in Invites : Exists(invitation, i) =>
           invitation'[i].accepted = invitation[i].accepted,
         \A a \in Addresses : ~Exists(account, a) /\ Exists(account', a) =>
           account'[a].via = None
  PROVE  AcceptedMeansJoined'
<1>1. ASSUME NEW a \in Addresses, Exists(account', a), account'[a].via # None
      PROVE  /\ invitation'[account'[a].via] # None
             /\ invitation'[account'[a].via].accepted
             /\ invitation'[account'[a].via].address = a
             /\ account'[a].tenant = invitation'[account'[a].via].tenant
             /\ a \notin reassigned' =>
                  account'[a].roles = invitation'[account'[a].via].roles
  <2>1. Exists(account, a)
    BY <1>1
  <2>2. /\ account'[a].via = account[a].via
        /\ account'[a].tenant = account[a].tenant
        /\ account'[a].roles = account[a].roles
    BY <2>1 DEF Persist
  <2>3. account[a].via \in Invites
    BY <1>1, <2>1, <2>2, Shapes DEF Good, AccountRow
  <2>4. /\ Exists(invitation, account[a].via)
        /\ invitation[account[a].via].accepted
        /\ invitation[account[a].via].address = a
        /\ account[a].tenant = invitation[account[a].via].tenant
        /\ a \notin reassigned => account[a].roles = invitation[account[a].via].roles
    BY <1>1, <2>1, <2>2 DEF AcceptedMeansJoined, Exists
  <2> QED BY <2>2, <2>3, <2>4 DEF Persist, Exists
<1>2. ASSUME NEW i \in Invites, Exists(invitation', i), invitation'[i].accepted
      PROVE  /\ Exists(account', invitation'[i].address)
             /\ account'[invitation'[i].address].via = i
  <2>1. Exists(invitation, i) /\ invitation[i].accepted
    BY <1>2
  <2>2. invitation[i].address \in Addresses
    BY <2>1, Shapes DEF Good, InvitationRow
  <2>3. Exists(account, invitation[i].address) /\ account[invitation[i].address].via = i
    BY <2>1 DEF AcceptedMeansJoined
  <2> QED BY <2>1, <2>2, <2>3 DEF Persist
<1> QED BY <1>1, <1>2 DEF AcceptedMeansJoined, Exists

LEMMA JoinedStep ==
  ASSUME Good, AcceptedMeansJoined, [Next]_vars
  PROVE  AcceptedMeansJoined'
<1>1. ASSUME NEW r \in Requests, NEW actor \in Addresses, NEW a \in Addresses,
             NEW roles \in SUBSET InvitableRoles, BeginInvite(r, actor, a, roles)
      PROVE  AcceptedMeansJoined'
  BY <1>1 DEF BeginInvite, db, AcceptedMeansJoined, Exists
<1>2. ASSUME NEW r \in Requests, Supersede(r)
      PROVE  AcceptedMeansJoined'
  BY <1>2 DEF Supersede, db, AcceptedMeansJoined, Exists
<1>3. ASSUME NEW r \in Requests, NEW i \in Invites, CreateInvitation(r, i)
      PROVE  AcceptedMeansJoined'
  <2>1. Persist
    BY <1>3, CreateInvitationMoves
  <2>2. \A j \in Invites : ~Exists(invitation, j) /\ Exists(invitation', j) =>
          ~invitation'[j].accepted
    BY <1>3 DEF CreateInvitation, Exists, Open
  <2>3. \A j \in Invites : Exists(invitation, j) =>
          invitation'[j].accepted = invitation[j].accepted
    <3>1. \A j \in Invites : Exists(invitation, j) =>
            invitation'[j] \in {invitation[j], [invitation[j] EXCEPT !.revoked = TRUE]}
      BY <1>3 DEF CreateInvitation, Exists
    <3> QED BY <3>1, Shapes DEF Good, InvitationRow
  <2> QED BY <1>3, <2>1, <2>2, <2>3, JoinedQuiet DEF CreateInvitation, Exists
<1>4. ASSUME NEW r \in Requests, NEW i \in Invites, BeginAccept(r, i)
      PROVE  AcceptedMeansJoined'
  BY <1>4 DEF BeginAccept, db, AcceptedMeansJoined, Exists
<1>5. ASSUME NEW r \in Requests, Join(r)
      PROVE  AcceptedMeansJoined'
  <2> DEFINE i == req[r].inv
             b == invitation[i].address
  <2>1. i \in Invites /\ Exists(invitation, i) /\ invitation[i] \in InvitationRow
    BY <1>5, Shapes DEF Join, Good, RowsOK, Keeps, Backed
  <2>2. CASE Exists(account, b)
    BY <1>5, <2>2 DEF Join, AcceptedMeansJoined, Exists
  <2>3. CASE ~Exists(account, b)
    <3>1. /\ account' = [account EXCEPT ![b] = JoinedRow(i)]
          /\ invitation' = [invitation EXCEPT ![i].accepted = TRUE]
      BY <1>5, <2>3 DEF Join
    <3>2. Persist
      BY <1>5, JoinMoves
    <3>3. b \in Addresses /\ i # None /\ i \in Invites
      BY <2>1, NoneAssumption DEF InvitationRow
    <3> HIDE DEF i, b
    <3>4. /\ account'[b].via = i /\ account'[b].tenant = invitation[i].tenant
          /\ account'[b].roles = invitation[i].roles
          /\ Exists(account', b)
      <4>1. account'[b] = JoinedRow(i)
        BY <3>1, <3>3, Shapes DEF Good
      <4>2. JoinedRow(i) \in AccountRow
        BY <2>1 DEF JoinedRow, AccountRow, InvitationRow
      <4>3. Exists(account', b)
        BY <4>1, <4>2, NoneAssumption DEF Exists
      <4> QED BY <4>1, <4>3 DEF JoinedRow
    <3>5. /\ invitation'[i].accepted /\ invitation'[i].address = b
          /\ Exists(invitation', i)
          /\ invitation'[i].tenant = invitation[i].tenant
          /\ invitation'[i].roles = invitation[i].roles
      <4>1. invitation'[i].accepted
        BY <2>1, <3>1, Shapes DEF Good, InvitationRow
      <4> QED BY <2>1, <3>2, <4>1 DEF Persist, b
    <3>6. \A a \in Addresses \ {b} : account'[a] = account[a]
      BY <3>1, Shapes DEF Good
    <3>7. \A j \in Invites \ {i} : invitation'[j] = invitation[j]
      BY <3>1, Shapes DEF Good
    <3>8. ASSUME NEW a \in Addresses, Exists(account', a), account'[a].via # None
          PROVE  /\ invitation'[account'[a].via] # None
                 /\ invitation'[account'[a].via].accepted
                 /\ invitation'[account'[a].via].address = a
                 /\ account'[a].tenant = invitation'[account'[a].via].tenant
                 /\ a \notin reassigned' =>
                      account'[a].roles = invitation'[account'[a].via].roles
      <4>1. CASE a = b
        BY <3>4, <3>5, <4>1 DEF Exists
      <4>2. CASE a # b
        <5>1. account'[a] = account[a] /\ Exists(account, a)
          BY <3>6, <3>8, <4>2 DEF Exists
        <5>2. account[a].via \in Invites
          BY <3>8, <5>1, Shapes DEF Good, AccountRow
        <5>3. /\ Exists(invitation, account[a].via)
              /\ invitation[account[a].via].accepted
              /\ invitation[account[a].via].address = a
              /\ account[a].tenant = invitation[account[a].via].tenant
              /\ a \notin reassigned => account[a].roles = invitation[account[a].via].roles
          BY <3>8, <5>1 DEF AcceptedMeansJoined, Exists
        <5>4. account[a].via # i
          BY <4>2, <5>3 DEF b
        <5>5. reassigned' = reassigned
          BY <3>2 DEF Persist
        <5> QED BY <3>7, <5>1, <5>2, <5>3, <5>4, <5>5 DEF Exists
      <4> QED BY <4>1, <4>2
    <3>9. ASSUME NEW j \in Invites, Exists(invitation', j), invitation'[j].accepted
          PROVE  /\ Exists(account', invitation'[j].address)
                 /\ account'[invitation'[j].address].via = j
      <4>1. CASE j = i
        BY <3>4, <3>5, <4>1
      <4>2. CASE j # i
        <5>1. invitation'[j] = invitation[j] /\ Exists(invitation, j)
          BY <3>7, <3>9, <4>2 DEF Exists
        <5>2. /\ Exists(account, invitation[j].address)
              /\ account[invitation[j].address].via = j
              /\ invitation[j].address \in Addresses
          BY <3>9, <5>1, Shapes DEF AcceptedMeansJoined, Good, InvitationRow
        <5>3. invitation[j].address # b
          BY <2>3, <5>2 DEF b
        <5> QED BY <3>6, <5>1, <5>2, <5>3 DEF Exists
      <4> QED BY <4>1, <4>2
    <3> QED BY <3>8, <3>9 DEF AcceptedMeansJoined, Exists
  <2> QED BY <2>2, <2>3
<1>6. ASSUME NEW r \in Requests, IssueSession(r)
      PROVE  AcceptedMeansJoined'
  BY <1>6 DEF IssueSession, db, AcceptedMeansJoined, Exists
<1>7. ASSUME NEW r \in Requests, NEW actor \in Addresses, NEW i \in Invites, BeginRevoke(r, actor, i)
      PROVE  AcceptedMeansJoined'
  BY <1>7 DEF BeginRevoke, db, AcceptedMeansJoined, Exists
<1>8. ASSUME NEW r \in Requests, StampRevoked(r)
      PROVE  AcceptedMeansJoined'
  <2>1. Persist
    BY <1>8, StampRevokedMoves
  <2>2. req[r].inv \in Invites /\ Exists(invitation, req[r].inv)
        /\ invitation[req[r].inv] \in InvitationRow
    BY <1>8, Shapes DEF StampRevoked, Good, RowsOK, Keeps, Backed
  <2>3. \A j \in Invites : ~Exists(invitation, j) => ~Exists(invitation', j)
    BY <1>8, <2>2, Shapes DEF StampRevoked, Good, Exists
  <2>4. \A j \in Invites : Exists(invitation, j) =>
          invitation'[j].accepted = invitation[j].accepted
    BY <1>8, <2>2, Shapes DEF StampRevoked, Good, InvitationRow
  <2> QED BY <1>8, <2>1, <2>3, <2>4, JoinedQuiet DEF StampRevoked, Exists
<1>9. ASSUME NEW r \in Requests, NEW a \in Addresses, BeginRegister(r, a)
      PROVE  AcceptedMeansJoined'
  BY <1>9 DEF BeginRegister, db, AcceptedMeansJoined, Exists
<1>10. ASSUME NEW r \in Requests, NEW a \in Addresses, BeginResend(r, a)
      PROVE  AcceptedMeansJoined'
  BY <1>10 DEF BeginResend, db, AcceptedMeansJoined, Exists
<1>11. ASSUME NEW r \in Requests, FindSlug(r)
      PROVE  AcceptedMeansJoined'
  BY <1>11, Zenon DEF FindSlug, db, AcceptedMeansJoined, Exists
<1>12. ASSUME NEW r \in Requests, Provision(r)
      PROVE  AcceptedMeansJoined'
  <2>1. Persist
    BY <1>12, ProvisionMoves
  <2>2. \A a \in Addresses : ~Exists(account, a) /\ Exists(account', a) =>
          account'[a].via = None
    BY <1>12, Shapes DEF Provision, OwnerRow, Good, Exists
  <2> QED BY <1>12, <2>1, <2>2, JoinedQuiet DEF Provision, Exists
<1>13. ASSUME NEW r \in Requests, NEW l \in Links, StoreLink(r, l)
      PROVE  AcceptedMeansJoined'
  BY <1>13 DEF StoreLink, db, AcceptedMeansJoined, Exists
<1>14. ASSUME NEW r \in Requests, NEW l \in Links, BeginVerify(r, l)
      PROVE  AcceptedMeansJoined'
  BY <1>14 DEF BeginVerify, db, AcceptedMeansJoined, Exists
<1>15. ASSUME NEW r \in Requests, Confirm(r)
      PROVE  AcceptedMeansJoined'
  <2>1. Persist
    BY <1>15, ConfirmMoves
  <2>2. req[r].address \in Addresses /\ Exists(account, req[r].address)
    BY <1>15, Shapes DEF Confirm, Good, RowsOK, Keeps, Backed
  <2>3. \A a \in Addresses : ~Exists(account, a) => ~Exists(account', a)
    BY <1>15, <2>2, Shapes DEF Confirm, Good, Exists
  <2> QED BY <1>15, <2>1, <2>3, JoinedQuiet DEF Confirm, Exists
<1>16. ASSUME NEW r \in Requests, Fail(r)
      PROVE  AcceptedMeansJoined'
  BY <1>16 DEF Fail, db, AcceptedMeansJoined, Exists
<1>17. CASE Tick
  BY <1>17 DEF Tick, db, AcceptedMeansJoined, Exists
<1>18. CASE UNCHANGED vars
  BY <1>18 DEF vars, db, AcceptedMeansJoined, Exists
<1>19. ASSUME NEW actor \in Addresses, NEW a \in Addresses,
              NEW roles \in SUBSET AssignableRoles, AssignRoles(actor, a, roles)
      PROVE  AcceptedMeansJoined'
  <2>1. /\ UNCHANGED invitation /\ reassigned \subseteq reassigned'
        /\ \A b \in Addresses :
             /\ Exists(account', b) <=> Exists(account, b)
             /\ Exists(account, b) =>
                  /\ account'[b].tenant = account[b].tenant
                  /\ account'[b].via = account[b].via
                  /\ b \notin reassigned' => account'[b].roles = account[b].roles
    BY <1>19, AssignRolesMoves
  <2>2. ASSUME NEW b \in Addresses, Exists(account', b), account'[b].via # None
        PROVE  /\ invitation[account'[b].via] # None
               /\ invitation[account'[b].via].accepted
               /\ invitation[account'[b].via].address = b
               /\ account'[b].tenant = invitation[account'[b].via].tenant
               /\ b \notin reassigned' =>
                    account'[b].roles = invitation[account'[b].via].roles
    BY <2>1, <2>2 DEF AcceptedMeansJoined
  <2>3. ASSUME NEW i \in Invites, Exists(invitation, i), invitation[i].accepted
        PROVE  /\ Exists(account', invitation[i].address)
               /\ account'[invitation[i].address].via = i
    <3>1. invitation[i].address \in Addresses
      BY <2>3, Shapes DEF Good, InvitationRow
    <3> QED BY <2>1, <2>3, <3>1 DEF AcceptedMeansJoined
  <2> QED BY <2>1, <2>2, <2>3 DEF AcceptedMeansJoined, Exists
<1> QED BY <1>1, <1>2, <1>3, <1>4, <1>5, <1>6, <1>7, <1>8, <1>9,
    <1>10, <1>11, <1>12, <1>13, <1>14, <1>15, <1>16, <1>17, <1>18, <1>19
    DEF Next, InviteStep, AcceptStep, RevokeStep, RegisterStep

\* A step that opens no invitation and begins no second statement of an invite.
LEMMA OpenQuiet ==
  ASSUME OpenOK, NEW r \in Requests, Rest(r), req'[r].pc # "create",
         crossed' = crossed,
         \A t \in Tenants, a \in Addresses : OpenFor(t, a)' \subseteq OpenFor(t, a)
  PROVE  OpenOK'
<1>1. \A o \in Requests : req'[o].pc = "create" => req'[o] = req[o]
  BY DEF Rest
<1> QED BY <1>1 DEF OpenOK

LEMMA OpenStep ==
  ASSUME Good, OpenOK, [Next]_vars
  PROVE  OpenOK'
<1>1. ASSUME NEW r \in Requests, NEW actor \in Addresses, NEW a \in Addresses,
             NEW roles \in SUBSET InvitableRoles, BeginInvite(r, actor, a, roles)
      PROVE  OpenOK'
  <2>1. Rest(r) /\ req'[r].pc # "create"
    BY <1>1, BeginInviteMoves
  <2>2. crossed' = crossed /\ invitation' = invitation
    BY <1>1 DEF BeginInvite, db
  <2>3. \A t \in Tenants, b \in Addresses : OpenFor(t, b)' = OpenFor(t, b)
    BY <2>2 DEF OpenFor, Open, Exists
  <2> QED BY <2>1, <2>2, <2>3, OpenQuiet
<1>2. ASSUME NEW r \in Requests, Supersede(r)
      PROVE  OpenOK'
  <2> DEFINE t == req[r].tenant
             b == req[r].address
  <2>1. /\ Rest(r) /\ req'[r].pc = "create" /\ req'[r].tenant = t
        /\ req'[r].address = b /\ req'[r].ids = OpenFor(t, b)
    BY <1>2, SupersedeMoves
  <2>2. \A u \in Tenants, a \in Addresses : OpenFor(u, a)' = OpenFor(u, a)
    BY <1>2 DEF Supersede, db, OpenFor, Open, Exists
  <2>3. crossed \subseteq crossed' /\ req[r].pc # "create"
    BY <1>2 DEF Supersede
  <2>4. <<t, b>> \notin crossed' =>
          \A o \in Requests :
            ~(req[o].pc = "create" /\ req[o].tenant = t /\ req[o].address = b)
    BY <1>2 DEF Supersede, Inviting
  <2> HIDE DEF t, b
  <2> SUFFICES ASSUME NEW u \in Tenants, NEW a \in Addresses, <<u, a>> \notin crossed'
               PROVE  /\ \A i, j \in OpenFor(u, a)' : i = j
                      /\ \A c \in Requests :
                           req'[c].pc = "create" /\ req'[c].tenant = u
                           /\ req'[c].address = a =>
                             /\ OpenFor(u, a)' \subseteq req'[c].ids
                             /\ \A o \in Requests :
                                  req'[o].pc = "create" /\ req'[o].tenant = u
                                  /\ req'[o].address = a => o = c
    BY DEF OpenOK
  <2>5. /\ \A i, j \in OpenFor(u, a) : i = j
        /\ \A c \in Requests :
             req[c].pc = "create" /\ req[c].tenant = u /\ req[c].address = a =>
               /\ OpenFor(u, a) \subseteq req[c].ids
               /\ \A o \in Requests :
                    req[o].pc = "create" /\ req[o].tenant = u /\ req[o].address = a =>
                      o = c
    BY <2>3 DEF OpenOK
  <2>6. CASE u = t /\ a = b
    BY <2>1, <2>2, <2>4, <2>5, <2>6 DEF Rest
  <2>7. CASE ~(u = t /\ a = b)
    BY <2>1, <2>2, <2>5, <2>7 DEF Rest
  <2> QED BY <2>6, <2>7
<1>3. ASSUME NEW r \in Requests, NEW i \in Invites, CreateInvitation(r, i)
      PROVE  OpenOK'
  <2> DEFINE t == req[r].tenant
             b == req[r].address
  <2>1. Rest(r) /\ req'[r].pc = "idle" /\ crossed' = crossed
    BY <1>3, CreateInvitationMoves DEF CreateInvitation
  <2>2. /\ t \in Tenants /\ b \in Addresses
        /\ req[r].pc = "create"
    BY <1>3, Shapes DEF CreateInvitation, Good, Keeps
  <2>3. \A j \in Invites \ {i} :
          Open(j)' => /\ Open(j) /\ j \notin req[r].ids
                      /\ invitation'[j] = invitation[j]
    <3> SUFFICES ASSUME NEW j \in Invites \ {i}, Open(j)'
                 PROVE  /\ Open(j) /\ j \notin req[r].ids
                        /\ invitation'[j] = invitation[j]
      OBVIOUS
    <3>1. invitation'[j] = IF j \in {k \in req[r].ids : Open(k)}
                           THEN [invitation[j] EXCEPT !.revoked = TRUE]
                           ELSE invitation[j]
      BY <1>3 DEF CreateInvitation
    <3>2. CASE j \in req[r].ids /\ Open(j)
      <4>1. invitation[j] \in InvitationRow
        BY <3>2, Shapes DEF Good, Open
      <4>2. invitation'[j].revoked
        BY <3>1, <3>2, <4>1 DEF InvitationRow
      <4> QED BY <4>2 DEF Open
    <3>3. CASE ~(j \in req[r].ids /\ Open(j))
      <4>1. invitation'[j] = invitation[j]
        BY <3>1, <3>3
      <4>2. Open(j)
        BY <4>1 DEF Open, Exists
      <4> QED BY <3>3, <4>1, <4>2
    <3> QED BY <3>2, <3>3
  <2>4. invitation'[i].tenant = t /\ invitation'[i].address = b
    BY <1>3 DEF CreateInvitation
  <2> HIDE DEF t, b
  <2> SUFFICES ASSUME NEW u \in Tenants, NEW a \in Addresses, <<u, a>> \notin crossed'
               PROVE  /\ \A k, j \in OpenFor(u, a)' : k = j
                      /\ \A c \in Requests :
                           req'[c].pc = "create" /\ req'[c].tenant = u
                           /\ req'[c].address = a =>
                             /\ OpenFor(u, a)' \subseteq req'[c].ids
                             /\ \A o \in Requests :
                                  req'[o].pc = "create" /\ req'[o].tenant = u
                                  /\ req'[o].address = a => o = c
    BY DEF OpenOK
  <2>5. /\ \A k, j \in OpenFor(u, a) : k = j
        /\ \A c \in Requests :
             req[c].pc = "create" /\ req[c].tenant = u /\ req[c].address = a =>
               /\ OpenFor(u, a) \subseteq req[c].ids
               /\ \A o \in Requests :
                    req[o].pc = "create" /\ req[o].tenant = u /\ req[o].address = a =>
                      o = c
    BY <2>1 DEF OpenOK
  <2>6. CASE u = t /\ a = b
    <3>1. OpenFor(u, a) \subseteq req[r].ids
      BY <2>2, <2>5, <2>6 DEF t, b
    <3>2. OpenFor(u, a)' \subseteq {i}
      BY <2>3, <3>1 DEF OpenFor
    <3>3. \A o \in Requests :
            ~(req'[o].pc = "create" /\ req'[o].tenant = u /\ req'[o].address = a)
      BY <2>1, <2>2, <2>5, <2>6 DEF Rest, t, b
    <3> QED BY <3>2, <3>3
  <2>7. CASE ~(u = t /\ a = b)
    <3>1. OpenFor(u, a)' \subseteq OpenFor(u, a)
      BY <2>3, <2>4, <2>7 DEF OpenFor
    <3>2. \A o \in Requests : req'[o].pc = "create" => req'[o] = req[o]
      BY <2>1 DEF Rest
    <3> QED BY <2>5, <3>1, <3>2
  <2> QED BY <2>6, <2>7
<1>4. ASSUME NEW r \in Requests, NEW i \in Invites, BeginAccept(r, i)
      PROVE  OpenOK'
  <2>1. Rest(r) /\ req'[r].pc # "create"
    BY <1>4, BeginAcceptMoves
  <2>2. crossed' = crossed /\ invitation' = invitation
    BY <1>4 DEF BeginAccept, db
  <2>3. \A t \in Tenants, b \in Addresses : OpenFor(t, b)' = OpenFor(t, b)
    BY <2>2 DEF OpenFor, Open, Exists
  <2> QED BY <2>1, <2>2, <2>3, OpenQuiet
<1>5. ASSUME NEW r \in Requests, Join(r)
      PROVE  OpenOK'
  <2>1. Rest(r) /\ req'[r].pc # "create" /\ crossed' = crossed
    BY <1>5, JoinMoves DEF Join
  <2>2. req[r].inv \in Invites /\ Exists(invitation, req[r].inv)
        /\ invitation[req[r].inv] \in InvitationRow
    BY <1>5, Shapes DEF Join, Good, RowsOK, Keeps, Backed
  <2>3. \A j \in Invites : Open(j)' => invitation'[j] = invitation[j]
    BY <1>5, <2>2, Shapes DEF Join, Good, Open, Exists, InvitationRow
  <2>4. \A t \in Tenants, b \in Addresses : OpenFor(t, b)' \subseteq OpenFor(t, b)
    BY <2>3 DEF OpenFor, Open, Exists
  <2> QED BY <2>1, <2>4, OpenQuiet
<1>6. ASSUME NEW r \in Requests, IssueSession(r)
      PROVE  OpenOK'
  <2>1. Rest(r) /\ req'[r].pc # "create"
    BY <1>6, IssueSessionMoves
  <2>2. crossed' = crossed /\ invitation' = invitation
    BY <1>6 DEF IssueSession, db
  <2>3. \A t \in Tenants, b \in Addresses : OpenFor(t, b)' = OpenFor(t, b)
    BY <2>2 DEF OpenFor, Open, Exists
  <2> QED BY <2>1, <2>2, <2>3, OpenQuiet
<1>7. ASSUME NEW r \in Requests, NEW actor \in Addresses, NEW i \in Invites, BeginRevoke(r, actor, i)
      PROVE  OpenOK'
  <2>1. Rest(r) /\ req'[r].pc # "create"
    BY <1>7, BeginRevokeMoves
  <2>2. crossed' = crossed /\ invitation' = invitation
    BY <1>7 DEF BeginRevoke, db
  <2>3. \A t \in Tenants, b \in Addresses : OpenFor(t, b)' = OpenFor(t, b)
    BY <2>2 DEF OpenFor, Open, Exists
  <2> QED BY <2>1, <2>2, <2>3, OpenQuiet
<1>8. ASSUME NEW r \in Requests, StampRevoked(r)
      PROVE  OpenOK'
  <2>1. Rest(r) /\ req'[r].pc # "create" /\ crossed' = crossed
    BY <1>8, StampRevokedMoves DEF StampRevoked
  <2>2. req[r].inv \in Invites /\ Exists(invitation, req[r].inv)
        /\ invitation[req[r].inv] \in InvitationRow
    BY <1>8, Shapes DEF StampRevoked, Good, RowsOK, Keeps, Backed
  <2>3. \A j \in Invites : Open(j)' => invitation'[j] = invitation[j]
    BY <1>8, <2>2, Shapes DEF StampRevoked, Good, Open, Exists, InvitationRow
  <2>4. \A t \in Tenants, b \in Addresses : OpenFor(t, b)' \subseteq OpenFor(t, b)
    BY <2>3 DEF OpenFor, Open, Exists
  <2> QED BY <2>1, <2>4, OpenQuiet
<1>9. ASSUME NEW r \in Requests, NEW a \in Addresses, BeginRegister(r, a)
      PROVE  OpenOK'
  <2>1. Rest(r) /\ req'[r].pc # "create"
    BY <1>9, BeginRegisterMoves
  <2>2. crossed' = crossed /\ invitation' = invitation
    BY <1>9 DEF BeginRegister, db
  <2>3. \A t \in Tenants, b \in Addresses : OpenFor(t, b)' = OpenFor(t, b)
    BY <2>2 DEF OpenFor, Open, Exists
  <2> QED BY <2>1, <2>2, <2>3, OpenQuiet
<1>10. ASSUME NEW r \in Requests, NEW a \in Addresses, BeginResend(r, a)
      PROVE  OpenOK'
  <2>1. Rest(r) /\ req'[r].pc # "create"
    BY <1>10, BeginResendMoves
  <2>2. crossed' = crossed /\ invitation' = invitation
    BY <1>10 DEF BeginResend, db
  <2>3. \A t \in Tenants, b \in Addresses : OpenFor(t, b)' = OpenFor(t, b)
    BY <2>2 DEF OpenFor, Open, Exists
  <2> QED BY <2>1, <2>2, <2>3, OpenQuiet
<1>11. ASSUME NEW r \in Requests, FindSlug(r)
      PROVE  OpenOK'
  <2>1. Rest(r) /\ req'[r].pc # "create"
    BY <1>11, FindSlugMoves
  <2>2. crossed' = crossed /\ invitation' = invitation
    BY <1>11, Zenon DEF FindSlug, db
  <2>3. \A t \in Tenants, b \in Addresses : OpenFor(t, b)' = OpenFor(t, b)
    BY <2>2 DEF OpenFor, Open, Exists
  <2> QED BY <2>1, <2>2, <2>3, OpenQuiet
<1>12. ASSUME NEW r \in Requests, Provision(r)
      PROVE  OpenOK'
  <2>1. Rest(r) /\ req'[r].pc # "create"
    BY <1>12, ProvisionMoves
  <2>2. crossed' = crossed /\ invitation' = invitation
    BY <1>12 DEF Provision, db
  <2>3. \A t \in Tenants, b \in Addresses : OpenFor(t, b)' = OpenFor(t, b)
    BY <2>2 DEF OpenFor, Open, Exists
  <2> QED BY <2>1, <2>2, <2>3, OpenQuiet
<1>13. ASSUME NEW r \in Requests, NEW l \in Links, StoreLink(r, l)
      PROVE  OpenOK'
  <2>1. Rest(r) /\ req'[r].pc # "create"
    BY <1>13, StoreLinkMoves
  <2>2. crossed' = crossed /\ invitation' = invitation
    BY <1>13 DEF StoreLink, db
  <2>3. \A t \in Tenants, b \in Addresses : OpenFor(t, b)' = OpenFor(t, b)
    BY <2>2 DEF OpenFor, Open, Exists
  <2> QED BY <2>1, <2>2, <2>3, OpenQuiet
<1>14. ASSUME NEW r \in Requests, NEW l \in Links, BeginVerify(r, l)
      PROVE  OpenOK'
  <2>1. Rest(r) /\ req'[r].pc # "create"
    BY <1>14, BeginVerifyMoves
  <2>2. crossed' = crossed /\ invitation' = invitation
    BY <1>14 DEF BeginVerify, db
  <2>3. \A t \in Tenants, b \in Addresses : OpenFor(t, b)' = OpenFor(t, b)
    BY <2>2 DEF OpenFor, Open, Exists
  <2> QED BY <2>1, <2>2, <2>3, OpenQuiet
<1>15. ASSUME NEW r \in Requests, Confirm(r)
      PROVE  OpenOK'
  <2>1. Rest(r) /\ req'[r].pc # "create"
    BY <1>15, ConfirmMoves
  <2>2. crossed' = crossed /\ invitation' = invitation
    BY <1>15 DEF Confirm, db
  <2>3. \A t \in Tenants, b \in Addresses : OpenFor(t, b)' = OpenFor(t, b)
    BY <2>2 DEF OpenFor, Open, Exists
  <2> QED BY <2>1, <2>2, <2>3, OpenQuiet
<1>16. ASSUME NEW r \in Requests, Fail(r)
      PROVE  OpenOK'
  <2>1. Rest(r) /\ req'[r].pc # "create"
    BY <1>16, FailMoves
  <2>2. crossed' = crossed /\ invitation' = invitation
    BY <1>16 DEF Fail, db
  <2>3. \A t \in Tenants, b \in Addresses : OpenFor(t, b)' = OpenFor(t, b)
    BY <2>2 DEF OpenFor, Open, Exists
  <2> QED BY <2>1, <2>2, <2>3, OpenQuiet
<1>17. CASE Tick
  BY <1>17 DEF Tick, db, OpenOK, OpenFor, Open, Exists
<1>18. CASE UNCHANGED vars
  BY <1>18 DEF vars, db, OpenOK, OpenFor, Open, Exists
<1>19. ASSUME NEW actor \in Addresses, NEW a \in Addresses,
              NEW roles \in SUBSET AssignableRoles, AssignRoles(actor, a, roles)
      PROVE  OpenOK'
  BY <1>19, AssignRolesMoves DEF OpenOK, OpenFor, Open, Exists
<1> QED BY <1>1, <1>2, <1>3, <1>4, <1>5, <1>6, <1>7, <1>8, <1>9,
    <1>10, <1>11, <1>12, <1>13, <1>14, <1>15, <1>16, <1>17, <1>18, <1>19
    DEF Next, InviteStep, AcceptStep, RevokeStep, RegisterStep

\* A step that stamps no invitation and begins to accept or to take back none.
LEMMA RevokedQuiet ==
  ASSUME RevokedOK, NEW r \in Requests, Rest(r), req'[r].pc \notin {"join", "stamp"},
         raced' = raced, invitation' = invitation
  PROVE  RevokedOK'
<1>1. \A i \in Invites : (Accepting(i)' => Accepting(i)) /\ (Revoking(i)' => Revoking(i))
  BY DEF Accepting, Revoking, Rest
<1> QED BY <1>1 DEF RevokedOK, Exists

LEMMA RevokedStep ==
  ASSUME Good, RevokedOK, [Next]_vars
  PROVE  RevokedOK'
<1>1. ASSUME NEW r \in Requests, NEW actor \in Addresses, NEW a \in Addresses,
             NEW roles \in SUBSET InvitableRoles, BeginInvite(r, actor, a, roles)
      PROVE  RevokedOK'
  <2>1. Rest(r) /\ req'[r].pc \notin {"join", "stamp"}
    BY <1>1, BeginInviteMoves
  <2>2. raced' = raced /\ invitation' = invitation
    BY <1>1 DEF BeginInvite, db
  <2> QED BY <2>1, <2>2, RevokedQuiet
<1>2. ASSUME NEW r \in Requests, Supersede(r)
      PROVE  RevokedOK'
  <2>1. Rest(r) /\ req'[r].pc \notin {"join", "stamp"}
    BY <1>2, SupersedeMoves
  <2>2. raced' = raced /\ invitation' = invitation
    BY <1>2 DEF Supersede, db
  <2> QED BY <2>1, <2>2, RevokedQuiet
<1>3. ASSUME NEW r \in Requests, NEW i \in Invites, CreateInvitation(r, i)
      PROVE  RevokedOK'
  <2>1. Rest(r) /\ req'[r].pc = "idle"
    BY <1>3, CreateInvitationMoves
  <2>2. \A j \in Invites : (Accepting(j)' => Accepting(j)) /\ (Revoking(j)' => Revoking(j))
    BY <2>1 DEF Accepting, Revoking, Rest
  <2>3. raced \subseteq raced'
    BY <1>3 DEF CreateInvitation
  <2>4. ~invitation'[i].accepted /\ ~invitation'[i].revoked
    BY <1>3 DEF CreateInvitation
  <2>5. ASSUME NEW j \in Invites \ {i}, j \notin raced'
        PROVE  \/ invitation'[j] = invitation[j]
               \/ /\ ~invitation'[j].accepted
                  /\ ~Accepting(j)
    <3>1. invitation'[j] = IF j \in {k \in req[r].ids : Open(k)}
                           THEN [invitation[j] EXCEPT !.revoked = TRUE]
                           ELSE invitation[j]
      BY <1>3 DEF CreateInvitation
    <3>2. CASE j \in req[r].ids /\ Open(j)
      <4>1. invitation[j] \in InvitationRow /\ ~invitation[j].accepted
        BY <3>2, Shapes DEF Good, Open
      <4>2. ~invitation'[j].accepted
        BY <3>1, <3>2, <4>1 DEF InvitationRow
      <4>3. ~Accepting(j)
        BY <1>3, <2>5, <3>2 DEF CreateInvitation
      <4> QED BY <4>2, <4>3
    <3>3. CASE ~(j \in req[r].ids /\ Open(j))
      BY <3>1, <3>3
    <3> QED BY <3>2, <3>3
  <2>6. ASSUME NEW j \in Invites \ raced'
        PROVE  /\ Exists(invitation', j) =>
                    ~(invitation'[j].accepted /\ invitation'[j].revoked)
               /\ Accepting(j)' => ~invitation'[j].revoked /\ ~Revoking(j)'
               /\ Revoking(j)' => ~invitation'[j].accepted
    <3>1. /\ Exists(invitation, j) => ~(invitation[j].accepted /\ invitation[j].revoked)
          /\ Accepting(j) => ~invitation[j].revoked /\ ~Revoking(j)
          /\ Revoking(j) => ~invitation[j].accepted
      BY <2>3, <2>6 DEF RevokedOK
    <3>2. CASE j = i
      BY <2>2, <2>4, <3>1, <3>2
    <3>3. CASE j # i
      BY <2>2, <2>5, <2>6, <3>1, <3>3 DEF Exists
    <3> QED BY <3>2, <3>3
  <2> QED BY <2>6 DEF RevokedOK, Exists
<1>4. ASSUME NEW r \in Requests, NEW i \in Invites, BeginAccept(r, i)
      PROVE  RevokedOK'
  <2>1. Rest(r) /\ req'[r].pc = "join" /\ req'[r].inv = i /\ req[r].pc = "idle"
    BY <1>4, BeginAcceptMoves, Zenon DEF BeginAccept
  <2>2. \A j \in Invites : (Revoking(j)' => Revoking(j))
                        /\ (Accepting(j)' => Accepting(j) \/ j = i)
    BY <2>1 DEF Accepting, Revoking, Rest
  <2>3. /\ raced \subseteq raced' /\ (i \notin raced' => ~Revoking(i))
        /\ ~invitation[i].revoked /\ invitation' = invitation
    BY <1>4 DEF BeginAccept, db, Redeemable, Open
  <2> QED BY <2>2, <2>3 DEF RevokedOK, Exists
<1>5. ASSUME NEW r \in Requests, Join(r)
      PROVE  RevokedOK'
  <2> DEFINE i == req[r].inv
  <2>1. i \in Invites /\ Exists(invitation, i) /\ invitation[i] \in InvitationRow
    BY <1>5, Shapes DEF Join, Good, RowsOK, Keeps, Backed
  <2>2. Rest(r) /\ req'[r].pc \notin {"join", "stamp"} /\ raced' = raced /\ Accepting(i)
    BY <1>5, JoinMoves DEF Join, Accepting
  <2>3. CASE invitation' = invitation
    BY <2>2, <2>3, RevokedQuiet
  <2>4. CASE invitation' = [invitation EXCEPT ![i].accepted = TRUE]
    <3> HIDE DEF i
    <3>1. \A j \in Invites : (Accepting(j)' => Accepting(j)) /\ (Revoking(j)' => Revoking(j))
      BY <2>2 DEF Accepting, Revoking, Rest
    <3>2. \A j \in Invites \ {i} : invitation'[j] = invitation[j]
      BY <2>4, Shapes DEF Good
    <3>3. invitation'[i].revoked = invitation[i].revoked
      BY <2>1, <2>4, Shapes DEF Good, InvitationRow
    <3>4. i \notin raced => ~invitation[i].revoked /\ ~Revoking(i)
      BY <2>1, <2>2 DEF RevokedOK
    <3> QED BY <2>2, <3>1, <3>2, <3>3, <3>4 DEF RevokedOK, Exists
  <2> QED BY <1>5, <2>3, <2>4 DEF Join
<1>6. ASSUME NEW r \in Requests, IssueSession(r)
      PROVE  RevokedOK'
  <2>1. Rest(r) /\ req'[r].pc \notin {"join", "stamp"}
    BY <1>6, IssueSessionMoves
  <2>2. raced' = raced /\ invitation' = invitation
    BY <1>6 DEF IssueSession, db
  <2> QED BY <2>1, <2>2, RevokedQuiet
<1>7. ASSUME NEW r \in Requests, NEW actor \in Addresses, NEW i \in Invites, BeginRevoke(r, actor, i)
      PROVE  RevokedOK'
  <2>1. Rest(r) /\ req'[r].pc = "stamp" /\ req'[r].inv = i /\ req[r].pc = "idle"
    BY <1>7, BeginRevokeMoves, Zenon DEF BeginRevoke
  <2>2. \A j \in Invites : (Accepting(j)' => Accepting(j))
                        /\ (Revoking(j)' => Revoking(j) \/ j = i)
    BY <2>1 DEF Accepting, Revoking, Rest
  <2>3. /\ raced \subseteq raced' /\ (i \notin raced' => ~Accepting(i))
        /\ ~invitation[i].accepted /\ invitation' = invitation
    BY <1>7 DEF BeginRevoke, db, Open
  <2> QED BY <2>2, <2>3 DEF RevokedOK, Exists
<1>8. ASSUME NEW r \in Requests, StampRevoked(r)
      PROVE  RevokedOK'
  <2> DEFINE i == req[r].inv
  <2>1. i \in Invites /\ Exists(invitation, i) /\ invitation[i] \in InvitationRow
    BY <1>8, Shapes DEF StampRevoked, Good, RowsOK, Keeps, Backed
  <2>2. Rest(r) /\ req'[r].pc \notin {"join", "stamp"} /\ raced' = raced /\ Revoking(i)
    BY <1>8, StampRevokedMoves DEF StampRevoked, Revoking
  <2>3. invitation' = [invitation EXCEPT ![i].revoked = TRUE]
    BY <1>8 DEF StampRevoked
  <2> HIDE DEF i
  <2>4. \A j \in Invites : (Accepting(j)' => Accepting(j)) /\ (Revoking(j)' => Revoking(j))
    BY <2>2 DEF Accepting, Revoking, Rest
  <2>5. \A j \in Invites \ {i} : invitation'[j] = invitation[j]
    BY <2>3, Shapes DEF Good
  <2>6. invitation'[i].accepted = invitation[i].accepted
    BY <2>1, <2>3, Shapes DEF Good, InvitationRow
  <2>7. i \notin raced => ~invitation[i].accepted /\ ~Accepting(i)
    BY <2>1, <2>2 DEF RevokedOK
  <2> QED BY <2>2, <2>4, <2>5, <2>6, <2>7 DEF RevokedOK, Exists
<1>9. ASSUME NEW r \in Requests, NEW a \in Addresses, BeginRegister(r, a)
      PROVE  RevokedOK'
  <2>1. Rest(r) /\ req'[r].pc \notin {"join", "stamp"}
    BY <1>9, BeginRegisterMoves
  <2>2. raced' = raced /\ invitation' = invitation
    BY <1>9 DEF BeginRegister, db
  <2> QED BY <2>1, <2>2, RevokedQuiet
<1>10. ASSUME NEW r \in Requests, NEW a \in Addresses, BeginResend(r, a)
      PROVE  RevokedOK'
  <2>1. Rest(r) /\ req'[r].pc \notin {"join", "stamp"}
    BY <1>10, BeginResendMoves
  <2>2. raced' = raced /\ invitation' = invitation
    BY <1>10 DEF BeginResend, db
  <2> QED BY <2>1, <2>2, RevokedQuiet
<1>11. ASSUME NEW r \in Requests, FindSlug(r)
      PROVE  RevokedOK'
  <2>1. Rest(r) /\ req'[r].pc \notin {"join", "stamp"}
    BY <1>11, FindSlugMoves
  <2>2. raced' = raced /\ invitation' = invitation
    BY <1>11, Zenon DEF FindSlug, db
  <2> QED BY <2>1, <2>2, RevokedQuiet
<1>12. ASSUME NEW r \in Requests, Provision(r)
      PROVE  RevokedOK'
  <2>1. Rest(r) /\ req'[r].pc \notin {"join", "stamp"}
    BY <1>12, ProvisionMoves
  <2>2. raced' = raced /\ invitation' = invitation
    BY <1>12 DEF Provision, db
  <2> QED BY <2>1, <2>2, RevokedQuiet
<1>13. ASSUME NEW r \in Requests, NEW l \in Links, StoreLink(r, l)
      PROVE  RevokedOK'
  <2>1. Rest(r) /\ req'[r].pc \notin {"join", "stamp"}
    BY <1>13, StoreLinkMoves
  <2>2. raced' = raced /\ invitation' = invitation
    BY <1>13 DEF StoreLink, db
  <2> QED BY <2>1, <2>2, RevokedQuiet
<1>14. ASSUME NEW r \in Requests, NEW l \in Links, BeginVerify(r, l)
      PROVE  RevokedOK'
  <2>1. Rest(r) /\ req'[r].pc \notin {"join", "stamp"}
    BY <1>14, BeginVerifyMoves
  <2>2. raced' = raced /\ invitation' = invitation
    BY <1>14 DEF BeginVerify, db
  <2> QED BY <2>1, <2>2, RevokedQuiet
<1>15. ASSUME NEW r \in Requests, Confirm(r)
      PROVE  RevokedOK'
  <2>1. Rest(r) /\ req'[r].pc \notin {"join", "stamp"}
    BY <1>15, ConfirmMoves
  <2>2. raced' = raced /\ invitation' = invitation
    BY <1>15 DEF Confirm, db
  <2> QED BY <2>1, <2>2, RevokedQuiet
<1>16. ASSUME NEW r \in Requests, Fail(r)
      PROVE  RevokedOK'
  <2>1. Rest(r) /\ req'[r].pc \notin {"join", "stamp"}
    BY <1>16, FailMoves
  <2>2. raced' = raced /\ invitation' = invitation
    BY <1>16 DEF Fail, db
  <2> QED BY <2>1, <2>2, RevokedQuiet
<1>17. CASE Tick
  BY <1>17 DEF Tick, db, RevokedOK, Accepting, Revoking, Exists
<1>18. CASE UNCHANGED vars
  BY <1>18 DEF vars, db, RevokedOK, Accepting, Revoking, Exists
<1>19. ASSUME NEW actor \in Addresses, NEW a \in Addresses,
              NEW roles \in SUBSET AssignableRoles, AssignRoles(actor, a, roles)
      PROVE  RevokedOK'
  BY <1>19, AssignRolesMoves DEF RevokedOK, Accepting, Revoking, Exists
<1> QED BY <1>1, <1>2, <1>3, <1>4, <1>5, <1>6, <1>7, <1>8, <1>9,
    <1>10, <1>11, <1>12, <1>13, <1>14, <1>15, <1>16, <1>17, <1>18, <1>19
    DEF Next, InviteStep, AcceptStep, RevokeStep, RegisterStep

LEMMA OwnersStep ==
  ASSUME Good, OwnersOK, [Next]_vars
  PROVE  OwnersOK'
<1>1. ASSUME Persist, tenants' = tenants
      PROVE  OwnersOK'
  <2> SUFFICES ASSUME NEW n \in tenants
               PROVE  \E a \in Addresses :
                        /\ Exists(account', a) /\ account'[a].tenant = n
                        /\ "SUPER_ADMIN" \in account'[a].roles
    BY <1>1 DEF OwnersOK, Exists
  <2>1. PICK a \in Addresses : /\ Exists(account, a) /\ account[a].tenant = n
                              /\ "SUPER_ADMIN" \in account[a].roles
    BY DEF OwnersOK
  <2> WITNESS a \in Addresses
  <2> QED BY <1>1, <2>1 DEF Persist
<1>2. ASSUME NEW r \in Requests, NEW actor \in Addresses, NEW a \in Addresses,
             NEW roles \in SUBSET InvitableRoles, BeginInvite(r, actor, a, roles)
      PROVE  OwnersOK'
  <2>1. Persist /\ tenants' = tenants
    BY <1>2, BeginInviteMoves, Zenon DEF BeginInvite, db
  <2> QED BY <2>1, <1>1
<1>3. ASSUME NEW r \in Requests, Supersede(r)
      PROVE  OwnersOK'
  <2>1. Persist /\ tenants' = tenants
    BY <1>3, SupersedeMoves, Zenon DEF Supersede, db
  <2> QED BY <2>1, <1>1
<1>4. ASSUME NEW r \in Requests, NEW i \in Invites, CreateInvitation(r, i)
      PROVE  OwnersOK'
  <2>1. Persist /\ tenants' = tenants
    BY <1>4, CreateInvitationMoves DEF CreateInvitation, db
  <2> QED BY <2>1, <1>1
<1>5. ASSUME NEW r \in Requests, NEW i \in Invites, BeginAccept(r, i)
      PROVE  OwnersOK'
  <2>1. Persist /\ tenants' = tenants
    BY <1>5, BeginAcceptMoves, Zenon DEF BeginAccept, db
  <2> QED BY <2>1, <1>1
<1>6. ASSUME NEW r \in Requests, Join(r)
      PROVE  OwnersOK'
  <2>1. Persist /\ tenants' = tenants
    BY <1>6, JoinMoves DEF Join, db
  <2> QED BY <2>1, <1>1
<1>7. ASSUME NEW r \in Requests, IssueSession(r)
      PROVE  OwnersOK'
  <2>1. Persist /\ tenants' = tenants
    BY <1>7, IssueSessionMoves DEF IssueSession, db
  <2> QED BY <2>1, <1>1
<1>8. ASSUME NEW r \in Requests, NEW actor \in Addresses, NEW i \in Invites, BeginRevoke(r, actor, i)
      PROVE  OwnersOK'
  <2>1. Persist /\ tenants' = tenants
    BY <1>8, BeginRevokeMoves, Zenon DEF BeginRevoke, db
  <2> QED BY <2>1, <1>1
<1>9. ASSUME NEW r \in Requests, StampRevoked(r)
      PROVE  OwnersOK'
  <2>1. Persist /\ tenants' = tenants
    BY <1>9, StampRevokedMoves DEF StampRevoked, db
  <2> QED BY <2>1, <1>1
<1>10. ASSUME NEW r \in Requests, NEW a \in Addresses, BeginRegister(r, a)
      PROVE  OwnersOK'
  <2>1. Persist /\ tenants' = tenants
    BY <1>10, BeginRegisterMoves, Zenon DEF BeginRegister, db
  <2> QED BY <2>1, <1>1
<1>11. ASSUME NEW r \in Requests, NEW a \in Addresses, BeginResend(r, a)
      PROVE  OwnersOK'
  <2>1. Persist /\ tenants' = tenants
    BY <1>11, BeginResendMoves, Zenon DEF BeginResend, db
  <2> QED BY <2>1, <1>1
<1>12. ASSUME NEW r \in Requests, FindSlug(r)
      PROVE  OwnersOK'
  <2>1. Persist /\ tenants' = tenants
    BY <1>12, FindSlugMoves, Zenon DEF FindSlug, db
  <2> QED BY <2>1, <1>1
<1>13. ASSUME NEW r \in Requests, Provision(r)
      PROVE  OwnersOK'
  <2> DEFINE b == req[r].address
             n == req[r].tenant
  <2>1. Persist
    BY <1>13, ProvisionMoves
  <2>2. CASE tenants' = tenants
    BY <2>1, <2>2, <1>1
  <2>3. CASE tenants' # tenants
    <3>1. tenants' = tenants \cup {n} /\ account' = [account EXCEPT ![b] = OwnerRow(n)]
      BY <1>13, <2>3 DEF Provision
    <3>2. b \in Addresses /\ n \in Tenants
      BY <1>13, Shapes DEF Provision, Good, Keeps
    <3> HIDE DEF b, n
    <3>3. account'[b] = OwnerRow(n)
      BY <3>1, <3>2, Shapes DEF Good
    <3>4. OwnerRow(n) # None
      <4>1. OwnerRow(n) \in AccountRow
        BY <3>2, StaffRoles DEF OwnerRow, AccountRow
      <4> QED BY <4>1, NoneAssumption
    <3>5. ASSUME NEW m \in tenants'
          PROVE  \E a \in Addresses :
                   /\ Exists(account', a) /\ account'[a].tenant = m
                   /\ "SUPER_ADMIN" \in account'[a].roles
      <4>1. CASE m \in tenants
        <5>1. PICK a \in Addresses : /\ Exists(account, a) /\ account[a].tenant = m
                                    /\ "SUPER_ADMIN" \in account[a].roles
          BY <4>1 DEF OwnersOK
        <5> WITNESS a \in Addresses
        <5> QED BY <2>1, <5>1 DEF Persist
      <4>2. CASE m = n
        <5>1. /\ Exists(account', b) /\ account'[b].tenant = m
              /\ "SUPER_ADMIN" \in account'[b].roles
          BY <3>3, <3>4, <4>2 DEF Exists, OwnerRow
        <5> QED BY <3>2, <5>1
      <4> QED BY <3>1, <4>1, <4>2
    <3> QED BY <3>5 DEF OwnersOK, Exists
  <2> QED BY <2>2, <2>3
<1>14. ASSUME NEW r \in Requests, NEW l \in Links, StoreLink(r, l)
      PROVE  OwnersOK'
  <2>1. Persist /\ tenants' = tenants
    BY <1>14, StoreLinkMoves DEF StoreLink, db
  <2> QED BY <2>1, <1>1
<1>15. ASSUME NEW r \in Requests, NEW l \in Links, BeginVerify(r, l)
      PROVE  OwnersOK'
  <2>1. Persist /\ tenants' = tenants
    BY <1>15, BeginVerifyMoves, Zenon DEF BeginVerify, db
  <2> QED BY <2>1, <1>1
<1>16. ASSUME NEW r \in Requests, Confirm(r)
      PROVE  OwnersOK'
  <2>1. Persist /\ tenants' = tenants
    BY <1>16, ConfirmMoves DEF Confirm, db
  <2> QED BY <2>1, <1>1
<1>17. ASSUME NEW r \in Requests, Fail(r)
      PROVE  OwnersOK'
  <2>1. Persist /\ tenants' = tenants
    BY <1>17, FailMoves DEF Fail, db
  <2> QED BY <2>1, <1>1
<1>18. CASE Tick
  BY <1>18 DEF Tick, db, OwnersOK, Exists
<1>19. CASE UNCHANGED vars
  BY <1>19 DEF vars, db, OwnersOK, Exists
<1>20. ASSUME NEW actor \in Addresses, NEW a \in Addresses,
              NEW roles \in SUBSET AssignableRoles, AssignRoles(actor, a, roles)
      PROVE  OwnersOK'
  <2>1. /\ UNCHANGED tenants /\ Exists(account, a) /\ account'[a].roles = roles
        /\ \A b \in Addresses :
             /\ Exists(account', b) <=> Exists(account, b)
             /\ Exists(account, b) =>
                  /\ account'[b].tenant = account[b].tenant
                  /\ b # a => account'[b].roles = account[b].roles
    BY <1>20, AssignRolesMoves
  <2> SUFFICES ASSUME NEW n \in tenants
               PROVE  \E b \in Addresses :
                        /\ Exists(account', b) /\ account'[b].tenant = n
                        /\ "SUPER_ADMIN" \in account'[b].roles
    BY <2>1 DEF OwnersOK, Exists
  <2>2. PICK b \in Addresses : /\ Exists(account, b) /\ account[b].tenant = n
                              /\ "SUPER_ADMIN" \in account[b].roles
    BY DEF OwnersOK
  <2>3. CASE b # a \/ "SUPER_ADMIN" \in roles
    BY <2>1, <2>2, <2>3
  <2>4. CASE b = a /\ "SUPER_ADMIN" \notin roles
    <3>1. PICK o \in Addresses \ {a} :
            /\ Exists(account, o) /\ account[o].tenant = account[a].tenant
            /\ "SUPER_ADMIN" \in account[o].roles
      BY <1>20, <2>2, <2>4 DEF AssignRoles
    <3> QED BY <2>1, <2>2, <2>4, <3>1
  <2> QED BY <2>3, <2>4
<1> QED BY <1>2, <1>3, <1>4, <1>5, <1>6, <1>7, <1>8, <1>9, <1>10,
    <1>11, <1>12, <1>13, <1>14, <1>15, <1>16, <1>17, <1>18, <1>19, <1>20
    DEF Next, InviteStep, AcceptStep, RevokeStep, RegisterStep

-----------------------------------------------------------------------------

Strong == Good /\ AcceptedMeansJoined /\ OpenOK /\ RevokedOK /\ OwnersOK

LEMMA InitStrong == ASSUME Init PROVE Strong
<1>1. 1 \in Tenants
  BY BoundsAssumption DEF Tenants
<1>2. \A role \in {"SUPER_ADMIN", "HR_COMPLIANCE"} :
        /\ StaffRow(role) \in AccountRow /\ StaffRow(role) # None
        /\ StaffRow(role).tenant = 1 /\ StaffRow(role).roles = {role}
        /\ StaffRow(role).via = None
  <2> SUFFICES ASSUME NEW role \in {"SUPER_ADMIN", "HR_COMPLIANCE"}
               PROVE  /\ StaffRow(role) \in AccountRow /\ StaffRow(role) # None
                      /\ StaffRow(role).tenant = 1 /\ StaffRow(role).roles = {role}
                      /\ StaffRow(role).via = None
    OBVIOUS
  <2>1. StaffRow(role) \in AccountRow
    BY <1>1, StaffRoles DEF StaffRow, AccountRow
  <2>2. StaffRow(role) # None
    BY <2>1, NoneAssumption
  <2> QED BY <2>1, <2>2 DEF StaffRow
<1>3. /\ \A i \in Invites : ~Exists(invitation, i)
      /\ \A l \in Links : ~Exists(link, l)
      /\ \A r \in Requests : req[r] = Idle
  BY DEF Init, Exists
<1>4. /\ account[Owner] = StaffRow("SUPER_ADMIN")
      /\ \A a \in Addresses : Exists(account, a) =>
           \E role \in {"SUPER_ADMIN", "HR_COMPLIANCE"} : account[a] = StaffRow(role)
      /\ account \in [Addresses -> AccountRow \cup {None}]
  BY <1>2, StaffAssumption DEF Init, Exists
<1>5. \A a \in Addresses : Exists(account, a) =>
        account[a].tenant = 1 /\ account[a].via = None
  BY <1>2, <1>4
<1>6. Typed
  <2>1. tenants \subseteq Tenants
    BY <1>1 DEF Init
  <2> QED BY <1>3, <1>4, <2>1, IdleTyped DEF Init, Typed, TypeOK
<1>7. RowsOK
  BY <1>3, <1>5, IdleTyped DEF Init, RowsOK, Backed, Vouched
<1>8. AcceptedMeansJoined
  BY <1>3, <1>5 DEF AcceptedMeansJoined
<1>9. OpenOK
  BY <1>3, IdleTyped DEF OpenOK, OpenFor, Open
<1>10. RevokedOK
  BY <1>3, IdleTyped DEF RevokedOK, Accepting, Revoking
<1>11. OwnersOK
  <2>1. Owner \in Addresses /\ Exists(account, Owner) /\ account[Owner].tenant = 1
        /\ "SUPER_ADMIN" \in account[Owner].roles
    BY <1>2, <1>4, StaffAssumption DEF Exists
  <2> QED BY <2>1 DEF Init, OwnersOK
<1> QED BY <1>6, <1>7, <1>8, <1>9, <1>10, <1>11 DEF Strong, Good

\* The inductive invariant holds in every reachable state of invite, accept, revoke,
\* register and the verification of addresses.
THEOREM StrongInvariant == Spec => []Strong
<1>1. Init => Strong
  BY InitStrong
<1>2. Strong /\ [Next]_vars => Strong'
  BY GoodStep, JoinedStep, OpenStep, RevokedStep, OwnersStep DEF Strong
<1> QED BY <1>1, <1>2, PTL DEF Spec

\* Every table keeps its type, and every request holds what its step needs.
THEOREM TypeCorrect == Spec => []TypeOK
<1>1. Strong => TypeOK
  BY DEF Strong, Good, Typed
<1> QED BY <1>1, StrongInvariant, PTL

\* An invitation is accepted exactly when an account came of it, with the address,
\* the tenant and the roles it names (InvitationService.accept).
THEOREM InvitationsMatchAccounts == Spec => []AcceptedMeansJoined
<1>1. Strong => AcceptedMeansJoined
  BY DEF Strong
<1> QED BY <1>1, StrongInvariant, PTL

\* InvitationService.invite leaves one open invitation per tenant and address, unless
\* two of them overlapped.
THEOREM OneInvitationOpen == Spec => []OneOpenInvitation
<1>1. Strong => OneOpenInvitation
  BY DEF Strong, OpenOK, OneOpenInvitation
<1> QED BY <1>1, StrongInvariant, PTL

\* A revoked or superseded invitation never becomes an account, unless it was taken
\* back while it was being accepted.
THEOREM RevokedStaysOut == Spec => []RevokedNeverJoins
<1>1. Strong => RevokedNeverJoins
  BY DEF Strong, RevokedOK, RevokedNeverJoins
<1> QED BY <1>1, StrongInvariant, PTL

\* Every tenant has somebody who owns it and every account a tenant that exists: what
\* AuthService.register provisions in one transaction stays together.
THEOREM TenantsHaveOwners == Spec => []TenantsOwned
<1>1. Strong => TenantsOwned
  BY DEF Strong, Good, RowsOK, OwnersOK, TenantsOwned
<1> QED BY <1>1, StrongInvariant, PTL

=============================================================================
