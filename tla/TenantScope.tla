----------------------------- MODULE TenantScope -----------------------------
(***************************************************************************)
(* Tenant isolation, as pure operators: what tenant-scope.ts accepts of a  *)
(* query, against what Prisma makes of it; TenantContextGuard; and the     *)
(* exemption of PrismaService.unscoped.                                    *)
(*                                                                         *)
(* A where-clause is the set of its constraints, all of which must hold;   *)
(* each is a key with its argument.  Undefined stands for the undefined of *)
(* JavaScript, which Prisma takes for a key that is not there.             *)
(***************************************************************************)
CONSTANTS Tenants, Undefined

ASSUME UndefinedAssumption == Undefined \notin Tenants

TenantScopedModels ==
  {"User", "UserRoleAssignment", "Session", "RefreshToken", "PasswordResetToken",
   "EmailVerificationToken", "Invitation", "AuditLog", "Client", "Project"}

WhereOperations ==
  {"findFirst", "findFirstOrThrow", "findMany", "findUnique", "findUniqueOrThrow", "update",
   "updateMany", "delete", "deleteMany", "count", "aggregate", "groupBy"}

DataOperations == {"create", "createMany"}

-----------------------------------------------------------------------------
(* Clauses and their meaning *)

Key(key, arg) == {[key |-> key, arg |-> arg]}

TenantKeys == {"tenantId", "tenantId_code", "tenant"}

(* The code recurses over nested clauses.  Here the body of a recursive function is an
   operator of its own, given what the function says of the clauses inside (Within),
   and the function is that body over itself as deep as clauses nest: bound, two
   clauses inside each other under AND, OR or NOT. *)

\* whereConstrainsTenant: one branch of a conjunction will do, a disjunction needs all; a
\* negation is not looked into.
ConstrainsGiven(where, Within(_)) ==
  \E k \in where :
    \/ k.key \in TenantKeys /\ k.arg # Undefined
    \/ k.key = "AND" /\ \E clause \in k.arg : Within(clause)
    \/ k.key = "OR" /\ k.arg # {} /\ \A clause \in k.arg : Within(clause)

ConstrainsFlat(where) == ConstrainsGiven(where, LAMBDA clause : FALSE)
ConstrainsNested(where) == ConstrainsGiven(where, ConstrainsFlat)

\* Mutant: one scoped branch of a disjunction will do.
WhereConstrainsTenantSome(where) ==
  \/ ConstrainsGiven(where, ConstrainsNested)
  \/ \E k \in where : k.key = "OR" /\ \E clause \in k.arg : ConstrainsNested(clause)

\* Does the clause constrain the tenant?
WhereConstrainsTenant(where) == ConstrainsGiven(where, ConstrainsNested)

\* The rows (records with an id and a tenant) a clause matches.
MatchesGiven(row, where, Within(_)) ==
  \A k \in where :
    CASE k.key \in TenantKeys -> k.arg \in {row.tenant, Undefined}
      [] k.key = "id" -> row.id = k.arg
      [] k.key = "AND" -> \A clause \in k.arg : Within(clause)
      [] k.key = "OR" -> \E clause \in k.arg : Within(clause)
      [] k.key = "NOT" -> \A clause \in k.arg : ~Within(clause)

MatchesFlat(row, where) == MatchesGiven(row, where, LAMBDA clause : TRUE)
MatchesNested(row, where) == MatchesGiven(row, where, LAMBDA clause : MatchesFlat(row, clause))
Matches(row, where) == MatchesGiven(row, where, LAMBDA clause : MatchesNested(row, clause))

\* Rows to be created, each with the tenant it is given.
DataCarriesTenant(data) == data # {} /\ \A row \in data : row.tenant # Undefined

AssertTenantScope(model, operation, where, data) ==
  model \in TenantScopedModels =>
    /\ operation \in WhereOperations \cup {"upsert"} => WhereConstrainsTenant(where)
    /\ operation \in DataOperations \cup {"upsert"} => DataCarriesTenant(data)

-----------------------------------------------------------------------------
(* The check against the meaning, on clauses up to two levels deep *)

\* What a service that acts for a tenant may write at the leaves of a clause.
Leaves(tenant, ids) ==
  {{}} \cup {Key(key, arg) : key \in {"tenantId", "tenant"}, arg \in {tenant, Undefined}}
       \cup {Key("id", id) : id \in ids}

Nested(clauses) ==
  {Key(key, branches) : key \in {"AND", "OR", "NOT"},
                        branches \in {{}} \cup {{a, b} : a, b \in clauses}}

\* Whatever a service nests in AND, OR and NOT: a clause the check accepts matches
\* no row of another tenant.
Sound(ids) ==
  \A tenant \in Tenants :
    LET leaves == Leaves(tenant, ids)
    IN  \A where \in leaves \cup Nested(leaves) \cup Nested(leaves \cup Nested(leaves)) :
          WhereConstrainsTenant(where) =>
            \A other \in Tenants \ {tenant}, id \in ids :
              ~Matches([id |-> id, tenant |-> other], where)

-----------------------------------------------------------------------------
(* Requests *)

\* The guard lets a request through that names no tenant but its user's, in its body,
\* query, parameters or headers; the tenant it goes on with is its user's.
GuardAccepts(userTenant, supplied) == supplied \subseteq {userTenant}

\* Mutant: the exemption is a flag of the service.
UnscopedAnywhere(context, exempt) == exempt # {}

\* The exemption belongs to the async context that asked for it.
IsUnscoped(context, exempt) == context \in exempt

\* tenantScopeMiddleware: may the query of this context run?
MayRun(context, exempt, model, operation, where, data) ==
  IsUnscoped(context, exempt) \/ AssertTenantScope(model, operation, where, data)

=============================================================================
