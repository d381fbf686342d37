------------------------------ MODULE UserAdmin ------------------------------
(***************************************************************************)
(* Administration of the users of one tenant: UserService.update and       *)
(* UserService.assignRoles with the guards they share, for administrators  *)
(* whose requests run at the same time.                                    *)
(*                                                                         *)
(* A request is authorised with the roles its actor holds at that moment   *)
(* (the RequestUser of JwtStrategy) and then reads the target, counts the  *)
(* other Super Admins and writes, each in a statement of its own.  The     *)
(* transaction of assignRoles is two statements under READ COMMITTED: the  *)
(* delete sees the assignment rows committed when it starts, the commit    *)
(* makes both take effect.  Ending the target's sessions afterwards is     *)
(* TokenService's Disable and BeginRevokeAll.                              *)
(***************************************************************************)
EXTENDS Roles, FiniteSets

CONSTANTS
  Users,            \* the users of the tenant
  Requests,         \* administrative requests in flight at the same time
  AssignableRoles,  \* the role keys in play
  SuperAdmins,      \* who starts out as Super Admin
  Admins,           \* who starts out as Admin; the others are viewers
  MaxChanges,       \* bound: how many role changes are committed
  NoUser            \* null

ASSUME UsersAssumption ==
  /\ SuperAdmins \subseteq Users /\ SuperAdmins # {}
  /\ Admins \subseteq Users
  /\ NoUser \notin Users
  /\ AssignableRoles \subseteq RoleKeys
  /\ MaxChanges \in Nat

VARIABLES
  active,       \* users.status = ACTIVE, else DISABLED
  assignments,  \* user_roles: user -> rows <<role key, row id>>
  changes,      \* role changes committed so far, the ids of new rows
  req,          \* the requests being handled
  overlapped    \* history: two requests were between reading a target and writing

vars == <<active, assignments, changes, req, overlapped>>

Steps == {"idle", "load", "count", "update", "delete", "create"}

Request == [pc: Steps, op: {"none", "status", "roles"}, actor: Users \cup {NoUser},
            actorRoles: SUBSET RoleKeys, target: Users \cup {NoUser},
            enable: BOOLEAN, roles: SUBSET RoleKeys,
            previous: SUBSET RoleKeys,   \* previousRoles: what the target was read with
            rows: SUBSET (RoleKeys \X (0 .. MaxChanges))]

Idle == [pc |-> "idle", op |-> "none", actor |-> NoUser, actorRoles |-> {},
         target |-> NoUser, enable |-> FALSE, roles |-> {},
         previous |-> {}, rows |-> {}]

TypeOK ==
  /\ active \in [Users -> BOOLEAN]
  /\ assignments \in [Users -> SUBSET (RoleKeys \X (0 .. MaxChanges))]
  /\ changes \in 0 .. MaxChanges
  /\ req \in [Requests -> Request]
  /\ overlapped \in BOOLEAN

KeysOf(rows) == {row[1] : row \in rows}
RolesOf(u) == KeysOf(assignments[u])

InitialRole(u) ==
  CASE u \in SuperAdmins -> "SUPER_ADMIN"
    [] u \in Admins \ SuperAdmins -> "ADMIN"
    [] OTHER -> "VIEWER"

Init ==
  /\ active = [u \in Users |-> TRUE]
  /\ assignments = [u \in Users |-> {<<InitialRole(u), 0>>}]
  /\ changes = 0
  /\ req = [r \in Requests |-> Idle]
  /\ overlapped = FALSE

-----------------------------------------------------------------------------
(* The guards of UserService *)

SuperAdminActive(u) == active[u] /\ "SUPER_ADMIN" \in RolesOf(u)

\* Mutant: disabled Super Admins are counted.
OtherSuperAdminsEver(target) == {u \in Users \ {target} : "SUPER_ADMIN" \in RolesOf(u)}

\* What assertNotLastSuperAdmin counts.
OtherSuperAdmins(target) == {u \in Users \ {target} : SuperAdminActive(u)}

\* Requests between reading their target and writing.
Deciding == {r \in Requests : req[r].pc \in {"count", "update", "delete", "create"}}

-----------------------------------------------------------------------------
(* The steps of a request *)

Finish(r) == req' = [req EXCEPT ![r] = Idle]

\* The guards let the request through with the roles the actor has now.
Authorised(r, actor, permission) ==
  /\ req[r].pc = "idle"
  /\ active[actor]
  /\ Admits(RolesOf(actor), {permission})

BeginUpdate(r, actor, target, enable) ==
  /\ Authorised(r, actor, "users:update")
  /\ req' = [req EXCEPT ![r] = [Idle EXCEPT !.pc = "load", !.op = "status", !.actor = actor,
                                            !.actorRoles = RolesOf(actor), !.target = target,
                                            !.enable = enable]]
  /\ UNCHANGED <<active, assignments, changes, overlapped>>

BeginAssign(r, actor, target, roles) ==
  /\ Authorised(r, actor, "roles:assign")
  /\ roles # {}
  /\ req' = [req EXCEPT ![r] = [Idle EXCEPT !.pc = "load", !.op = "roles", !.actor = actor,
                                            !.actorRoles = RolesOf(actor), !.target = target,
                                            !.roles = roles]]
  /\ UNCHANGED <<active, assignments, changes, overlapped>>

\* Mutant: assignRoles checks what it grants, not whom it changes.
PermittedByGrant(q) ==
  \/ q.op = "status"
  \/ /\ q.actor # q.target
     /\ \A role \in q.roles : CanManageRole(q.actorRoles, role)

\* assertNotSelf, assertOutranks and the roles that may be granted; enabling is
\* not guarded.
Permitted(q) ==
  \/ q.op = "status" /\ q.enable
  \/ /\ q.actor # q.target
     /\ ~RanksAbove(RolesOf(q.target), q.actorRoles)
     /\ \A role \in q.roles : CanManageRole(q.actorRoles, role)

\* The target is disabled, or loses the Super Admin role it was read with.
TakesSuperAdmin(q) ==
  /\ "SUPER_ADMIN" \in RolesOf(q.target)
  /\ IF q.op = "status" THEN ~q.enable ELSE "SUPER_ADMIN" \notin q.roles

LoadTarget(r) ==
  LET q == req[r]
      write == IF q.op = "status" THEN "update" ELSE "delete"
  IN  /\ q.pc = "load"
      /\ IF Permitted(q)
         THEN req' = [req EXCEPT ![r].pc = IF TakesSuperAdmin(q) THEN "count" ELSE write,
                                 ![r].previous = IF q.op = "roles" THEN RolesOf(q.target) ELSE {}]
         ELSE Finish(r)
      /\ overlapped' = (overlapped \/ (Permitted(q) /\ Deciding # {}))
      /\ UNCHANGED <<active, assignments, changes>>

CountSuperAdmins(r) ==
  /\ req[r].pc = "count"
  /\ IF OtherSuperAdmins(req[r].target) # {}
     THEN req' = [req EXCEPT ![r].pc = IF req[r].op = "status" THEN "update" ELSE "delete"]
     ELSE Finish(r)
  /\ UNCHANGED <<active, assignments, changes, overlapped>>

UpdateStatus(r) ==
  /\ req[r].pc = "update"
  /\ active' = [active EXCEPT ![req[r].target] = req[r].enable]
  /\ Finish(r)
  /\ UNCHANGED <<assignments, changes, overlapped>>

\* Mutant: the delete is not part of the transaction.
DeleteRolesAtOnce(r) ==
  /\ req[r].pc = "delete"
  /\ assignments' = [assignments EXCEPT ![req[r].target] = {}]
  /\ req' = [req EXCEPT ![r].pc = "create", ![r].rows = assignments[req[r].target]]
  /\ UNCHANGED <<active, changes, overlapped>>

\* Mutant: the delete remembers roles, not rows.
DeleteRolesByKey(r) ==
  /\ req[r].pc = "delete"
  /\ req' = [req EXCEPT ![r].pc = "create", ![r].rows = RolesOf(req[r].target)]
  /\ UNCHANGED <<active, assignments, changes, overlapped>>

\* The rows the delete sees; they are gone when the transaction commits.
DeleteRoles(r) ==
  /\ req[r].pc = "delete"
  /\ req' = [req EXCEPT ![r].pc = "create", ![r].rows = assignments[req[r].target]]
  /\ UNCHANGED <<active, assignments, changes, overlapped>>

\* createMany and the commit.  A row another transaction committed after the
\* delete began stays; one for a role asked for breaks @@unique([userId, roleId])
\* and the transaction is rolled back.
CreateRoles(r) ==
  LET u == req[r].target
      kept == assignments[u] \ req[r].rows
  IN  /\ req[r].pc = "create"
      /\ changes < MaxChanges
      /\ IF KeysOf(kept) \cap req[r].roles = {}
         THEN /\ assignments' = [assignments EXCEPT ![u] =
                                   kept \cup {<<role, changes + 1>> : role \in req[r].roles}]
              /\ changes' = changes + 1
         ELSE UNCHANGED <<assignments, changes>>
      /\ Finish(r)
      /\ UNCHANGED <<active, overlapped>>

\* The process dies or the database refuses: an open transaction is rolled back.
Fail(r) ==
  /\ req[r].pc # "idle"
  /\ Finish(r)
  /\ UNCHANGED <<active, assignments, changes, overlapped>>

Next ==
  \E r \in Requests :
    \/ \E actor, target \in Users :
         \/ \E enable \in BOOLEAN : BeginUpdate(r, actor, target, enable)
         \/ \E roles \in SUBSET AssignableRoles : BeginAssign(r, actor, target, roles)
    \/ LoadTarget(r)
    \/ CountSuperAdmins(r)
    \/ UpdateStatus(r)
    \/ DeleteRoles(r)
    \/ CreateRoles(r)
    \/ Fail(r)

Spec == Init /\ [][Next]_vars

-----------------------------------------------------------------------------
(* Properties *)

\* While requests decide one at a time, somebody active is always Super Admin:
\* assertNotLastSuperAdmin covers every way to lose the last one.
SuperAdminUnlessOverlap == ~overlapped => \E u \in Users : SuperAdminActive(u)

\* The rule stated on assignRoles (user.service.ts:152), "the last Super Admin
\* cannot be demoted, or the tenant locks itself out", for requests at any time.
SuperAdminRemains == \E u \in Users : SuperAdminActive(u)

\* No user is ever seen without a role: a change that fails or collides with
\* another one leaves the roles there were.
NeverWithoutRole == \A u \in Users : assignments[u] # {}

\* r's transaction commits in this step.
RolesCommitted(r) ==
  changes' = changes + 1 /\ req[r].pc = "create" /\ req'[r].pc = "idle"

\* The roles r's commit leaves its target with, those it gives and those it takes.
RolesAfter(r) == KeysOf(assignments'[req[r].target])
Given(r) == RolesAfter(r) \ RolesOf(req[r].target)
Taken(r) == RolesOf(req[r].target) \ RolesAfter(r)

\* A commit gives no role ranked above its actor's own; it takes one away only if
\* the target did not have it when the request read it, so somebody gave it
\* meanwhile: whatever requests overlap, nobody is demoted by a lower rank that
\* could have known.
ManagesWhatItRead ==
  [][\A r \in Requests :
       RolesCommitted(r) =>
         \A role \in Given(r) \cup (Taken(r) \cap req[r].previous) :
           ~RanksAbove({role}, req[r].actorRoles)]_vars

\* Refuted.  The rule stated on assignRoles (user.service.ts:151), "you cannot grant or
\* revoke a role ranked above your own", at the moment of the write.
ManagesWithinRank ==
  [][\A r \in Requests :
       RolesCommitted(r) =>
         \A role \in Given(r) \cup Taken(r) : ~RanksAbove({role}, req[r].actorRoles)]_vars

\* Refuted.  The comment on assignRoles (user.service.ts:146): it "Replaces a user's roles
\* with exactly the set given".
ReplacesExactly ==
  [][\A r \in Requests :
       RolesCommitted(r) => RolesAfter(r) = req[r].roles]_vars

\* Refuted.  The comment on a role's rank (roles.ts:29): nobody assigns or revokes a role
\* "whose rank is at or above their own most-privileged role".
ManagesBelowRank ==
  [][\A r \in Requests :
       RolesCommitted(r) =>
         \A role \in Given(r) \cup Taken(r) : RanksAbove(req[r].actorRoles, {role})]_vars

-----------------------------------------------------------------------------
(* What SuperAdminUnlessOverlap and NeverWithoutRole rest on *)

\* What a request holds between its steps; a role change names at least one role.
RequestOK(r) ==
  /\ req[r].pc # "idle" => req[r].target \in Users /\ req[r].op # "none"
  /\ req[r].pc = "update" => req[r].op = "status"
  /\ req[r].pc \in {"delete", "create"} => req[r].op = "roles"
  /\ req[r].pc # "idle" /\ req[r].op = "roles" => req[r].roles # {}

\* q has decided and what it will write makes its target lose Super Admin.
WillTake(q) ==
  /\ q.pc \in {"update", "delete", "create"}
  /\ SuperAdminActive(q.target)
  /\ IF q.op = "status" THEN ~q.enable ELSE "SUPER_ADMIN" \notin q.roles

OneDecides == \A r1, r2 \in Deciding : r1 = r2

\* Whoever is about to take the role from one leaves another who has it.
DecisionsOK ==
  ~overlapped =>
    /\ OneDecides
    /\ \A r \in Requests : WillTake(req[r]) => OtherSuperAdmins(req[r].target) # {}
    /\ \E u \in Users : SuperAdminActive(u)

RequestsOK == \A r \in Requests : RequestOK(r)

=============================================================================
