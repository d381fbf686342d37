-------------------------------- MODULE Roles --------------------------------
(***************************************************************************)
(* The permission catalogue and the nine system roles of packages/shared,  *)
(* the rule by which roles are granted and the guard that admits a request *)
(* to a route.  Nothing here has state: a request carries the role keys of *)
(* its user, and everything else is computed from them.                    *)
(***************************************************************************)
EXTENDS Integers

\* permissions.ts: a permission is a resource and an action.
Permissions ==
  {"tenant:read", "tenant:update",
   "users:read", "users:invite", "users:update", "users:deactivate", "roles:read",
   "roles:assign", "sessions:read", "sessions:revoke", "audit:read",
   "clients:read", "clients:create", "clients:update", "clients:delete",
   "projects:read", "projects:create", "projects:update", "projects:delete",
   "workforce:read", "workforce:manage", "fleet:read", "fleet:manage",
   "compliance:read", "compliance:manage",
   "finance:read", "finance:manage", "payroll:read", "payroll:manage",
   "invoices:read", "invoices:manage", "reports:read"}

\* roles.ts: lower binds tighter.
Rank == [SUPER_ADMIN |-> 0, ADMIN |-> 10, OPS_MANAGER |-> 20,
         HR_COMPLIANCE |-> 30, FLEET_MANAGER |-> 30, FINANCE_MANAGER |-> 30,
         ACCOUNTANT |-> 40, SUPERVISOR |-> 50, VIEWER |-> 60]

RoleKeys == DOMAIN Rank

CommercialRead == {"clients:read", "projects:read"}

RolePermissions ==
  [SUPER_ADMIN |-> Permissions,
   ADMIN |-> Permissions \ {"tenant:update"},
   OPS_MANAGER |->
     CommercialRead \cup
     {"tenant:read", "users:read", "roles:read", "clients:create", "clients:update",
      "projects:create", "projects:update", "workforce:read", "workforce:manage",
      "fleet:read", "compliance:read", "reports:read"},
   HR_COMPLIANCE |->
     {"tenant:read", "users:read", "users:invite", "roles:read", "audit:read",
      "workforce:read", "workforce:manage", "compliance:read", "compliance:manage",
      "reports:read"},
   FLEET_MANAGER |->
     CommercialRead \cup
     {"tenant:read", "users:read", "roles:read", "workforce:read", "fleet:read",
      "fleet:manage", "compliance:read", "reports:read"},
   FINANCE_MANAGER |->
     CommercialRead \cup
     {"tenant:read", "users:read", "roles:read", "audit:read", "finance:read",
      "finance:manage", "payroll:read", "payroll:manage", "invoices:read",
      "invoices:manage", "reports:read"},
   ACCOUNTANT |->
     CommercialRead \cup
     {"tenant:read", "finance:read", "payroll:read", "invoices:read",
      "invoices:manage", "reports:read"},
   SUPERVISOR |->
     CommercialRead \cup {"tenant:read", "workforce:read", "fleet:read", "reports:read"},
   VIEWER |-> CommercialRead \cup {"tenant:read", "reports:read"}]

\* permissionsForRoles: what the roles grant together; unknown keys grant nothing.
PermissionsForRoles(roles) == UNION {RolePermissions[role] : role \in roles \cap RoleKeys}

\* Some role of `roles` is ranked above every role of `others`: highestRank is
\* smaller.  A user without roles ranks below everybody.
RanksAbove(roles, others) ==
  \E a \in roles : \A b \in others : Rank[a] < Rank[b]

\* Mutant: any role may be granted by anybody who may assign roles.
AnyRole(actorRoles, role) == role \in RoleKeys

CanManageRole(actorRoles, role) ==
  \E a \in actorRoles : Rank[role] >= Rank[a]

\* PermissionsGuard: every permission the route asks for.  No route of the API
\* asks for a role.
Admits(roles, required) == required \subseteq PermissionsForRoles(roles)

=============================================================================
