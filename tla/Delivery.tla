------------------------------- MODULE Delivery -------------------------------
(***************************************************************************)
(* Clients and their projects: client.service.ts and project.service.ts,   *)
(* with what stands between them and the database (the tenant of the       *)
(* request, the tenant-scope middleware, the unique index and the foreign  *)
(* key of the schema) and between them and the caller (the exception       *)
(* filter, the pagination, the audit trail).                               *)
(*                                                                         *)
(* A handler takes one step per statement it sends to the database; other  *)
(* requests run in between.  Row ids are cuids: never used twice.          *)
(***************************************************************************)
EXTENDS TenantScope, Naturals, FiniteSets

CONSTANTS
  Requests, Clients, Projects,  \* requests in flight; row ids
  Codes,                        \* project codes
  PageSize,                     \* rows per page of a list
  None,
  Unborn, Gone                  \* an id without a row: not yet used, deleted

ASSUME PageAssumption == PageSize \in Nat \ {0}

\* Ids of clients and of projects are different; what stands for no id, for no answer
\* and for no row is none.
ASSUME NamesAssumption ==
  /\ Clients \cap Projects = {}
  /\ None \notin Projects \cup {"LIST", "INTERNAL_ERROR"}
  /\ Unborn # Gone
  /\ {Unborn, Gone} \cap [tenant : Tenants] = {}
  /\ {Unborn, Gone} \cap [tenant : Tenants, client : Clients, code : Codes] = {}

VARIABLES
  client,    \* rows of clients, by id
  project,   \* rows of projects, by id
  req,       \* the requests
  exempt,    \* the requests that run inside PrismaService.unscoped
  removals,  \* of each row: the DELETE entries of the audit trail
  crossed    \* history: lists during which some other request wrote

vars == <<client, project, req, exempt, removals, crossed>>
tables == <<client, project>>

-----------------------------------------------------------------------------
(* Rows, queries and requests *)

ClientRow(tenant) == [tenant |-> tenant]
ProjectRow(tenant, c, code) == [tenant |-> tenant, client |-> c, code |-> code]

ClientExists(c) == client[c] \notin {Unborn, Gone}
ProjectExists(p) == project[p] \notin {Unborn, Gone}
ProjectsOf(c) == {p \in Projects : ProjectExists(p) /\ project[p].client = c}

\* findFirst and findMany: the ids of the rows that match.
FindClients(where) ==
  {c \in Clients : ClientExists(c) /\ Matches([id |-> c, tenant |-> client[c].tenant], where)}
FindProjects(where) ==
  {p \in Projects : ProjectExists(p) /\ Matches([id |-> p, tenant |-> project[p].tenant], where)}
WithCode(code) == {p \in Projects : ProjectExists(p) /\ project[p].code = code}

Idle == [pc |-> "idle", tenant |-> None, client |-> None, project |-> None, code |-> None,
         page |-> 0, found |-> {}, answer |-> None, rows |-> {}, total |-> 0]

Init ==
  /\ client = [c \in Clients |-> Unborn]
  /\ project = [p \in Projects |-> Unborn]
  /\ req = [r \in Requests |-> Idle]
  /\ exempt = {}
  /\ removals = [x \in Clients \cup Projects |-> 0]
  /\ crossed = {}

\* The where-clause of every statement of the two services.
Own(r, id) == Key("id", id) \cup Key("tenantId", req[r].tenant)

\* Does the middleware let the statement of a handler run?
Runs(r, model, operation, where, data) == MayRun(r, exempt, model, operation, where, data)

Go(r, pc) == req' = [req EXCEPT ![r].pc = pc]

Respond(r, answer) == req' = [req EXCEPT ![r].pc = "answered", ![r].answer = answer]

\* Mutant: only the unique index is told from other failures.
PrismaAnswerUniqueOnly(code) == IF code = "P2002" THEN "CONFLICT" ELSE "INTERNAL_ERROR"

\* The exception filter, on the errors of the database.
PrismaAnswer(code) ==
  CASE code \in {"P2002", "P2003", "P2014"} -> "CONFLICT"
    [] code = "P2025" -> "NOT_FOUND"
    [] code = "P2000" -> "VALIDATION_ERROR"
    [] OTHER -> "INTERNAL_ERROR"

\* One statement of r: refused by the middleware (a 500), or done.
Statement(r, model, operation, where, data, Do) ==
  IF Runs(r, model, operation, where, data) THEN Do
  ELSE Respond(r, "INTERNAL_ERROR") /\ UNCHANGED <<tables, removals>>

\* A write: the lists under way see the tables of two moments.
Wrote(r) == crossed' = crossed \cup {l \in Requests \ {r} : req[l].pc = "count"}

\* The handler writes its audit row and answers; a row that cannot be written is
\* logged and forgotten.
Audited(r) ==
  /\ req[r].pc = "audit"
  /\ Respond(r, "OK")
  /\ UNCHANGED <<tables, removals, exempt, crossed>>

AuditedRemoval(r, x) ==
  /\ req[r].pc = "auditRemoval"
  /\ x = IF req[r].project # None THEN req[r].project ELSE req[r].client
  /\ Respond(r, "OK")
  /\ \/ removals' = [removals EXCEPT ![x] = @ + 1]
     \/ UNCHANGED removals
  /\ UNCHANGED <<tables, exempt, crossed>>

Done(r) ==
  /\ req[r].pc = "answered"
  /\ req' = [req EXCEPT ![r] = Idle]
  /\ crossed' = crossed \ {r}
  /\ UNCHANGED <<tables, exempt, removals>>

\* A request of a user of the tenant, with what it is about; the guard lets it in
\* with the tenants it names.
Begin(r, request) ==
  /\ req[r].pc = "idle"
  /\ \E supplied \in SUBSET Tenants :
       req' = [req EXCEPT ![r] =
         IF GuardAccepts(request.tenant, supplied) THEN request
         ELSE [Idle EXCEPT !.pc = "answered", !.tenant = request.tenant, !.answer = "FORBIDDEN"]]
  /\ UNCHANGED <<tables, exempt, removals, crossed>>

-----------------------------------------------------------------------------
(* Clients *)

CreateClient(r, c) ==
  /\ req[r].pc = "createClient"
  /\ client[c] = Unborn
  /\ Statement(r, "Client", "create", {}, {ClientRow(req[r].tenant)},
       /\ client' = [client EXCEPT ![c] = ClientRow(req[r].tenant)]
       /\ Go(r, "audit")
       /\ UNCHANGED <<project, removals>>)
  /\ Wrote(r)
  /\ UNCHANGED exempt

\* update, remove: the row is looked up first, with the number of its projects.
FindClient(r, next) ==
  LET where == Own(r, req[r].client)
  IN  /\ req[r].pc = next.from
      /\ Statement(r, "Client", "findFirst", where, {},
           /\ IF FindClients(where) = {} THEN Respond(r, "NOT_FOUND")
              ELSE IF next.to = "deleteClient" /\ ProjectsOf(req[r].client) # {}
              THEN Respond(r, "CONFLICT")
              ELSE Go(r, next.to)
           /\ UNCHANGED <<tables, removals>>)
      /\ UNCHANGED <<exempt, crossed>>

UpdateClient(r) ==
  LET where == Own(r, req[r].client)
  IN  /\ req[r].pc = "updateClient"
      /\ Statement(r, "Client", "update", where, {},
           /\ IF FindClients(where) = {} THEN Respond(r, PrismaAnswer("P2025")) ELSE Go(r, "audit")
           /\ UNCHANGED <<tables, removals>>)
      /\ Wrote(r)
      /\ UNCHANGED exempt

\* Mutant: the schema has no foreign key.
DeleteClientUnchecked(r) ==
  LET c == req[r].client
      where == Own(r, c)
  IN  /\ req[r].pc = "deleteClient"
      /\ Statement(r, "Client", "delete", where, {},
           /\ IF FindClients(where) = {}
              THEN Respond(r, PrismaAnswer("P2025")) /\ UNCHANGED client
              ELSE Go(r, "auditRemoval") /\ client' = [client EXCEPT ![c] = Gone]
           /\ UNCHANGED <<project, removals>>)
      /\ Wrote(r)
      /\ UNCHANGED exempt

\* The foreign key of projects restricts the removal of their client.
DeleteClient(r) ==
  LET c == req[r].client
      where == Own(r, c)
  IN  /\ req[r].pc = "deleteClient"
      /\ Statement(r, "Client", "delete", where, {},
           /\ IF FindClients(where) = {}
              THEN Respond(r, PrismaAnswer("P2025")) /\ UNCHANGED client
              ELSE IF ProjectsOf(c) # {}
              THEN Respond(r, PrismaAnswer("P2003")) /\ UNCHANGED client
              ELSE Go(r, "auditRemoval") /\ client' = [client EXCEPT ![c] = Gone]
           /\ UNCHANGED <<project, removals>>)
      /\ Wrote(r)
      /\ UNCHANGED exempt

-----------------------------------------------------------------------------
(* Projects *)

\* Is the code taken by another project of the tenant?
CodeTaken(tenant, code, except) ==
  FindProjects(Key("tenantId", tenant) \cup Key("NOT", {Key("id", except)})) \cap WithCode(code) # {}

\* create, update: the code is looked up before it is used.
FindCode(r, next) ==
  LET where == Key("tenantId", req[r].tenant)
  IN  /\ req[r].pc = next.from
      /\ Statement(r, "Project", "findFirst", where, {},
           /\ IF CodeTaken(req[r].tenant, req[r].code, req[r].project)
              THEN Respond(r, "CONFLICT") ELSE Go(r, next.to)
           /\ UNCHANGED <<tables, removals>>)
      /\ UNCHANGED <<exempt, crossed>>

\* Mutant: codes are not unique in the schema.
CreateProjectAnyCode(r, p) ==
  LET row == ProjectRow(req[r].tenant, req[r].client, req[r].code)
  IN  /\ req[r].pc = "createProject"
      /\ project[p] = Unborn
      /\ Statement(r, "Project", "create", {}, {row},
           /\ IF ~ClientExists(row.client)
              THEN Respond(r, PrismaAnswer("P2003")) /\ UNCHANGED project
              ELSE Go(r, "audit") /\ project' = [project EXCEPT ![p] = row]
           /\ UNCHANGED <<client, removals>>)
      /\ Wrote(r)
      /\ UNCHANGED exempt

CreateProject(r, p) ==
  LET row == ProjectRow(req[r].tenant, req[r].client, req[r].code)
  IN  /\ req[r].pc = "createProject"
      /\ project[p] = Unborn
      /\ Statement(r, "Project", "create", {}, {row},
           /\ IF CodeTaken(row.tenant, row.code, p)
              THEN Respond(r, PrismaAnswer("P2002")) /\ UNCHANGED project
              ELSE IF ~ClientExists(row.client)
              THEN Respond(r, PrismaAnswer("P2003")) /\ UNCHANGED project
              ELSE Go(r, "audit") /\ project' = [project EXCEPT ![p] = row]
           /\ UNCHANGED <<client, removals>>)
      /\ Wrote(r)
      /\ UNCHANGED exempt

\* update, remove: the row is looked up; a code it has already is not looked up.
FindProject(r, next) ==
  LET p == req[r].project
      where == Own(r, p)
  IN  /\ req[r].pc = next.from
      /\ Statement(r, "Project", "findFirst", where, {},
           /\ IF FindProjects(where) = {} THEN Respond(r, "NOT_FOUND")
              ELSE IF next.to = "updateProject" /\ req[r].code # project[p].code
              THEN Go(r, "findOtherCode")
              ELSE Go(r, next.to)
           /\ UNCHANGED <<tables, removals>>)
      /\ UNCHANGED <<exempt, crossed>>

UpdateProject(r) ==
  LET p == req[r].project
      where == Own(r, p)
  IN  /\ req[r].pc = "updateProject"
      /\ Statement(r, "Project", "update", where, {},
           /\ IF FindProjects(where) = {}
              THEN Respond(r, PrismaAnswer("P2025")) /\ UNCHANGED project
              ELSE IF CodeTaken(req[r].tenant, req[r].code, p)
              THEN Respond(r, PrismaAnswer("P2002")) /\ UNCHANGED project
              ELSE Go(r, "audit") /\ project' = [project EXCEPT ![p].code = req[r].code]
           /\ UNCHANGED <<client, removals>>)
      /\ Wrote(r)
      /\ UNCHANGED exempt

\* Mutant: deleteMany, which does not mind finding nothing.
DeleteProjectAnyway(r) ==
  LET p == req[r].project
      where == Own(r, p)
  IN  /\ req[r].pc = "deleteProject"
      /\ Statement(r, "Project", "deleteMany", where, {},
           /\ Go(r, "auditRemoval")
           /\ project' = [q \in Projects |-> IF q \in FindProjects(where) THEN Gone ELSE project[q]]
           /\ UNCHANGED <<client, removals>>)
      /\ Wrote(r)
      /\ UNCHANGED exempt

DeleteProject(r) ==
  LET p == req[r].project
      where == Own(r, p)
  IN  /\ req[r].pc = "deleteProject"
      /\ Statement(r, "Project", "delete", where, {},
           /\ IF FindProjects(where) = {}
              THEN Respond(r, PrismaAnswer("P2025")) /\ UNCHANGED project
              ELSE Go(r, "auditRemoval") /\ project' = [project EXCEPT ![p] = Gone]
           /\ UNCHANGED <<client, removals>>)
      /\ Wrote(r)
      /\ UNCHANGED exempt

-----------------------------------------------------------------------------
(* Reading *)

\* The skip and take of a list: how many of n rows are on the page.
OnPage(page, n) ==
  LET skip == (page - 1) * PageSize
  IN  IF n <= skip THEN 0 ELSE IF n - skip < PageSize THEN n - skip ELSE PageSize

\* The search of a list: an OR inside the clause that names the tenant.
ListWhere(r) ==
  Key("tenantId", req[r].tenant) \cup Key("OR", {Key("id", c) : c \in req[r].found})

\* Mutant: the total is that of the list without its search.
CountWhereTenant(r) == Key("tenantId", req[r].tenant)

CountWhere(r) == ListWhere(r)

\* list: a page of the clients a search finds, then their number; the two statements
\* of one READ COMMITTED transaction.
FindMany(r) ==
  LET where == ListWhere(r)
  IN  /\ req[r].pc = "list"
      /\ Statement(r, "Client", "findMany", where, {},
           /\ \E rows \in SUBSET FindClients(where) :
                /\ Cardinality(rows) = OnPage(req[r].page, Cardinality(FindClients(where)))
                /\ req' = [req EXCEPT ![r].pc = "count", ![r].rows = rows]
           /\ UNCHANGED <<tables, removals>>)
      /\ UNCHANGED <<exempt, crossed>>

Count(r) ==
  LET where == CountWhere(r)
  IN  /\ req[r].pc = "count"
      /\ Statement(r, "Client", "count", where, {},
           /\ req' = [req EXCEPT ![r].pc = "answered", ![r].answer = "LIST",
                                 ![r].total = Cardinality(FindClients(where))]
           /\ UNCHANGED <<tables, removals>>)
      /\ UNCHANGED <<exempt, crossed>>

\* A query of some other service for a user of the tenant, with or without the tenant
\* in its clause.
OtherClauses(tenant) ==
  {{}, Key("tenantId", tenant), Key("OR", {Key("tenantId", tenant), {}})}

OtherQuery(r, tenant) ==
  /\ req[r].pc = "idle"
  /\ \E where \in OtherClauses(tenant) :
       LET request == [Idle EXCEPT !.pc = "answered", !.tenant = tenant]
       IN  req' = [req EXCEPT ![r] =
             IF Runs(r, "Client", "findMany", where, {})
             THEN [request EXCEPT !.answer = "ROWS", !.rows = FindClients(where)]
             ELSE [request EXCEPT !.answer = "MISSING_SCOPE"]]
  /\ UNCHANGED <<tables, exempt, removals, crossed>>

\* A login, or the redemption of a link, looks a row up before its tenant is known:
\* unscoped() runs the callback, which only builds the query ...
UnscopedRequest == [Idle EXCEPT !.pc = "unscoped"]

\* Mutant: the query is returned un-awaited, to be awaited when run() has exited.
EnterUnscopedUnawaited(r) ==
  /\ req[r].pc = "idle"
  /\ req' = [req EXCEPT ![r] = UnscopedRequest]
  /\ UNCHANGED <<tables, exempt, removals, crossed>>

EnterUnscoped(r) ==
  /\ req[r].pc = "idle"
  /\ req' = [req EXCEPT ![r] = UnscopedRequest]
  /\ exempt' = exempt \cup {r}
  /\ UNCHANGED <<tables, removals, crossed>>

\* ... that is sent when it is awaited, inside: by an address, or by the hash of a token.
UnscopedQuery(r) ==
  /\ req[r].pc = "unscoped"
  /\ \E model \in {"User", "RefreshToken", "PasswordResetToken", "Invitation"} :
       Statement(r, model, "findFirst", Key("id", None), {},
         Go(r, "lookedUp") /\ UNCHANGED <<tables, removals>>)
  /\ UNCHANGED <<exempt, crossed>>

\* Mutant: the exemption outlives its call.
LeaveUnscopedLate(r) ==
  /\ req[r].pc = "lookedUp"
  /\ req' = [req EXCEPT ![r] = Idle]
  /\ UNCHANGED <<tables, exempt, removals, crossed>>

LeaveUnscoped(r) ==
  /\ req[r].pc = "lookedUp"
  /\ req' = [req EXCEPT ![r] = Idle]
  /\ exempt' = exempt \ {r}
  /\ UNCHANGED <<tables, removals, crossed>>

-----------------------------------------------------------------------------
(* The requests, as the controllers start them *)

From(from, to) == [from |-> from, to |-> to]

Start(r, tenant) ==
  LET Request(pc) == [Idle EXCEPT !.pc = pc, !.tenant = tenant]
  IN  \/ Begin(r, Request("createClient"))
      \/ \E c \in Clients, pc \in {"changeClient", "removeClient"} :
           Begin(r, [Request(pc) EXCEPT !.client = c])
      \/ \E c \in Clients, code \in Codes :
           Begin(r, [Request("newProject") EXCEPT !.client = c, !.code = code])
      \/ \E p \in Projects, code \in Codes :
           Begin(r, [Request("changeProject") EXCEPT !.project = p, !.code = code])
      \/ \E p \in Projects : Begin(r, [Request("removeProject") EXCEPT !.project = p])
      \/ \E page \in 1 .. 2, found \in SUBSET Clients :
           Begin(r, [Request("list") EXCEPT !.page = page, !.found = found])

ClientStep(r) ==
  \/ \E c \in Clients : CreateClient(r, c)
  \/ FindClient(r, From("changeClient", "updateClient"))
  \/ FindClient(r, From("removeClient", "deleteClient"))
  \/ UpdateClient(r) \/ DeleteClient(r)

ProjectStep(r) ==
  \/ FindClient(r, From("newProject", "findCode"))
  \/ FindCode(r, From("findCode", "createProject"))
  \/ FindProject(r, From("changeProject", "updateProject"))
  \/ FindCode(r, From("findOtherCode", "updateProject"))
  \/ FindProject(r, From("removeProject", "deleteProject"))
  \/ \E p \in Projects : CreateProject(r, p)
  \/ UpdateProject(r) \/ DeleteProject(r)

ReadStep(r) ==
  \/ FindMany(r) \/ Count(r)
  \/ EnterUnscoped(r) \/ UnscopedQuery(r) \/ LeaveUnscoped(r)

Next ==
  \E r \in Requests :
    \/ \E tenant \in Tenants : Start(r, tenant) \/ OtherQuery(r, tenant)
    \/ ClientStep(r) \/ ProjectStep(r) \/ ReadStep(r)
    \/ Audited(r) \/ Done(r)
    \/ \E x \in Clients \cup Projects : AuditedRemoval(r, x)

Spec == Init /\ [][Next]_vars

-----------------------------------------------------------------------------
(* Properties *)

\* Where a request is while it acts for no tenant.
Tenantless == {"idle", "unscoped", "lookedUp"}

\* Every row keeps its shape, and a request the fields its program needs.
TypeOK ==
  /\ \A c \in Clients : client[c] \in {Unborn, Gone} \cup {ClientRow(t) : t \in Tenants}
  /\ \A p \in Projects :
       \/ project[p] \in {Unborn, Gone}
       \/ project[p] \in [tenant : Tenants, client : Clients, code : Codes]
  /\ \A r \in Requests : req[r].pc \notin Tenantless => req[r].tenant \in Tenants
  /\ exempt \subseteq Requests
  /\ crossed \subseteq Requests

\* However the removal of a client and the creation of a project in it interleave,
\* a project has a client, and one of its own tenant.
ProjectHasClient ==
  \A p \in Projects : ProjectExists(p) =>
    /\ ClientExists(project[p].client)
    /\ client[project[p].client].tenant = project[p].tenant

\* Codes are unique in a tenant although the check and the write are two statements.
CodesUnique ==
  \A p, q \in Projects :
    ProjectExists(p) /\ ProjectExists(q) /\ p # q /\ project[p].tenant = project[q].tenant
      => project[p].code # project[q].code

\* Whoever loses such a race is told so (409, 404): a legal request never ends in a
\* server error, nor does the middleware refuse a statement of the two services, or the
\* lookup unscoped() is there for, when another request leaves it meanwhile.
LosersAreTold == \A r \in Requests : req[r].answer # "INTERNAL_ERROR"

\* What the middleware accepts, of clauses up to two levels deep: see Sound.
ScopeSound == Sound(Clients)

\* No request is shown a row of another tenant, whatever the clause of its query and
\* whatever other requests do meanwhile in unscoped().
OwnRowsOnly ==
  /\ ScopeSound
  /\ \A r \in Requests : \A c \in req[r].rows :
       ClientExists(c) => client[c].tenant = req[r].tenant

\* A page that is not full is the last one and agrees with the total, unless another
\* request wrote between the two statements of the list.
PageFits ==
  \A r \in Requests :
    req[r].answer = "LIST" /\ r \notin crossed =>
      Cardinality(req[r].rows) = OnPage(req[r].page, req[r].total)

\* Of two requests that remove one row, one reports and audits the removal.
RemovedOnce ==
  \A x \in Clients \cup Projects :
    /\ removals[x] <= 1
    /\ removals[x] = 1 => IF x \in Clients THEN client[x] = Gone ELSE project[x] = Gone

=============================================================================
