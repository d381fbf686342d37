---------------------------- MODULE DeliveryProofs ----------------------------
(***************************************************************************)
(* Theorems about TenantScope and Delivery for every set of tenants, rows, *)
(* codes and requests and every page size: what the tenant-scope check is  *)
(* worth at any depth of nesting, and what clients and projects keep       *)
(* however the requests interleave.                                        *)
(***************************************************************************)
EXTENDS Delivery, WellFoundedInduction, TLAPS

-----------------------------------------------------------------------------
(* The check against the meaning of a clause, at any depth *)

(* A set of natural numbers has a least element. *)
LEMMA LeastNatural ==
  ASSUME NEW S \in SUBSET Nat, S # {}
  PROVE  \E n \in S : \A m \in S : n <= m
<1>. DEFINE R == OpToRel(<, Nat)
<1>1. IsWellFoundedOn(R, Nat)
  BY NatLessThanWellFounded, Zenon
<1>2. \A m, n \in Nat : m < n => <<m, n>> \in R
  <2>. SUFFICES ASSUME NEW m \in Nat, NEW n \in Nat, m < n
                PROVE  <<m, n>> \in R
    OBVIOUS
  <2>1. <<m, n>> \in Nat \X Nat /\ <<m, n>>[1] < <<m, n>>[2]
    OBVIOUS
  <2>. QED BY <2>1, Zenon DEF R, OpToRel
<1>. HIDE DEF R
<1>3. PICK n \in S : \A m \in S : <<m, n>> \notin R
  BY <1>1, WFMin
<1>4. ASSUME NEW m \in S
      PROVE  n <= m
  <2>1. m \in Nat /\ n \in Nat
    OBVIOUS
  <2>2. ~(m < n)
    BY <1>2, <1>3, <2>1
  <2>. QED BY <2>1, <2>2
<1>. QED BY <1>4

(* However deep a service that acts for a tenant nests AND, OR and NOT: a clause that
   whereConstrainsTenant (tenant-scope.ts) accepts matches no row of another tenant.  The
   recursion is given by its equation: constrains and matches are any functions on the
   clauses that satisfy it. *)
THEOREM SoundAtEveryDepth ==
  ASSUME NEW tenant \in Tenants, NEW row, row.tenant # tenant,
         NEW clauses, NEW depth \in [clauses -> Nat],
         \A where \in clauses : \A k \in where :
           /\ k.key \in TenantKeys \cup {"id", "AND", "OR", "NOT"}
           /\ k.key \in TenantKeys => k.arg \in {tenant, Undefined}
           /\ k.key \in {"AND", "OR", "NOT"} =>
                \A clause \in k.arg : clause \in clauses /\ depth[clause] < depth[where],
         NEW constrains \in [clauses -> BOOLEAN],
         \A where \in clauses :
           constrains[where] = ConstrainsGiven(where, LAMBDA clause : constrains[clause]),
         NEW matches \in [clauses -> BOOLEAN],
         \A where \in clauses :
           matches[where] = MatchesGiven(row, where, LAMBDA clause : matches[clause])
  PROVE  \A where \in clauses : constrains[where] => ~matches[where]
<1>. DEFINE Unsound == {where \in clauses : constrains[where] /\ matches[where]}
<1>. SUFFICES ASSUME Unsound # {} PROVE FALSE
  OBVIOUS
<1>1. PICK n \in {depth[where] : where \in Unsound} :
        \A m \in {depth[where] : where \in Unsound} : n <= m
  <2>1. {depth[where] : where \in Unsound} \in SUBSET Nat
    OBVIOUS
  <2>2. {depth[where] : where \in Unsound} # {}
    OBVIOUS
  <2>. QED BY <2>1, <2>2, LeastNatural
<1>2. PICK where \in Unsound : \A other \in Unsound : depth[where] <= depth[other]
  BY <1>1
<1>3. \A k \in where : k.key \in {"AND", "OR"} =>
        \A clause \in k.arg : constrains[clause] => ~matches[clause]
  <2>. SUFFICES ASSUME NEW k \in where, k.key \in {"AND", "OR", "NOT"}, NEW clause \in k.arg
                PROVE  clause \in clauses /\ clause \notin Unsound
    OBVIOUS
  <2>1. clause \in clauses /\ depth[clause] < depth[where]
    OBVIOUS
  <2>2. depth[clause] \in Nat /\ depth[where] \in Nat
    BY <2>1
  <2>. QED BY <1>2, <2>1, <2>2
<1>4. PICK k \in where :
        \/ k.key \in TenantKeys /\ k.arg # Undefined
        \/ k.key = "AND" /\ \E clause \in k.arg : constrains[clause]
        \/ k.key = "OR" /\ k.arg # {} /\ \A clause \in k.arg : constrains[clause]
  BY DEF ConstrainsGiven
<1>5. /\ k.key \in TenantKeys => k.arg \in {row.tenant, Undefined}
      /\ k.key = "AND" => \A clause \in k.arg : matches[clause]
      /\ k.key = "OR" => \E clause \in k.arg : matches[clause]
  <2>1. MatchesGiven(row, where, LAMBDA clause : matches[clause])
    OBVIOUS
  <2>. QED BY <2>1 DEF MatchesGiven, TenantKeys
<1>. QED BY <1>3, <1>4, <1>5 DEF TenantKeys

-----------------------------------------------------------------------------
(* The check of the model, two clauses deep *)

\* A clause names no tenant but this one: itself, with those inside it, with those inside
\* these.
NamesFlat(tenant, where) == \A k \in where : k.key \in TenantKeys => k.arg \in {tenant, Undefined}
NamesNested(tenant, where) ==
  /\ NamesFlat(tenant, where)
  /\ \A k \in where : k.key \in {"AND", "OR"} => \A clause \in k.arg : NamesFlat(tenant, clause)
Names(tenant, where) ==
  /\ NamesFlat(tenant, where)
  /\ \A k \in where : k.key \in {"AND", "OR"} => \A clause \in k.arg : NamesNested(tenant, clause)

LEMMA SoundTwoDeep ==
  ASSUME NEW tenant \in Tenants, NEW row, row.tenant # tenant, NEW where, Names(tenant, where),
         WhereConstrainsTenant(where)
  PROVE  ~Matches(row, where)
<1>1. ASSUME NEW w, NamesFlat(tenant, w), ConstrainsFlat(w)
      PROVE  ~MatchesFlat(row, w)
  BY <1>1 DEF NamesFlat, ConstrainsFlat, ConstrainsGiven, MatchesFlat, MatchesGiven, TenantKeys
<1>2. ASSUME NEW w, NamesNested(tenant, w), ConstrainsNested(w)
      PROVE  ~MatchesNested(row, w)
  <2>1. \A k \in w : k.key \in {"AND", "OR"} =>
          \A clause \in k.arg : ConstrainsFlat(clause) => ~MatchesFlat(row, clause)
    BY <1>1, <1>2 DEF NamesNested
  <2>2. NamesFlat(tenant, w)
    BY <1>2 DEF NamesNested
  <2>. QED BY <1>2, <2>1, <2>2
       DEF NamesFlat, ConstrainsNested, ConstrainsGiven, MatchesNested, MatchesGiven, TenantKeys
<1>3. \A k \in where : k.key \in {"AND", "OR"} =>
        \A clause \in k.arg : ConstrainsNested(clause) => ~MatchesNested(row, clause)
  BY <1>2 DEF Names
<1>4. NamesFlat(tenant, where)
  BY DEF Names
<1>. QED BY <1>3, <1>4
     DEF NamesFlat, WhereConstrainsTenant, ConstrainsGiven, Matches, MatchesGiven, TenantKeys

LEMMA ScopeIsSound == ScopeSound
<1>. SUFFICES ASSUME NEW tenant \in Tenants
              PROVE  LET leaves == Leaves(tenant, Clients)
                     IN  \A where \in leaves \cup Nested(leaves) \cup
                                      Nested(leaves \cup Nested(leaves)) :
                           WhereConstrainsTenant(where) =>
                             \A other \in Tenants \ {tenant}, id \in Clients :
                               ~Matches([id |-> id, tenant |-> other], where)
  BY Zenon DEF ScopeSound, Sound
<1>. DEFINE leaves == Leaves(tenant, Clients)
<1>1. \A leaf \in leaves : \A k \in leaf :
        /\ k.key \in {"tenantId", "tenant", "id"}
        /\ k.key # "id" => k.arg \in {tenant, Undefined}
  BY DEF Leaves, Key
<1>. HIDE DEF leaves
<1>2. \A clauses : \A where \in Nested(clauses) : \A k \in where :
        k.key \in {"AND", "OR", "NOT"} /\ \A clause \in k.arg : clause \in clauses
  BY DEF Nested, Key
<1>3. \A leaf \in leaves :
        NamesFlat(tenant, leaf) /\ NamesNested(tenant, leaf) /\ Names(tenant, leaf)
  BY <1>1 DEF NamesFlat, NamesNested, Names, TenantKeys
<1>4. \A clauses : (\A clause \in clauses : NamesFlat(tenant, clause)) =>
        \A where \in Nested(clauses) : NamesFlat(tenant, where) /\ NamesNested(tenant, where)
  BY <1>2 DEF NamesFlat, NamesNested, TenantKeys
<1>5. \A clauses : (\A clause \in clauses : NamesNested(tenant, clause)) =>
        \A where \in Nested(clauses) : Names(tenant, where)
  BY <1>2 DEF NamesFlat, Names, TenantKeys
<1>6. \A where \in leaves \cup Nested(leaves) \cup Nested(leaves \cup Nested(leaves)) :
        Names(tenant, where)
  BY <1>3, <1>4, <1>5
<1>7. ASSUME NEW where, Names(tenant, where), WhereConstrainsTenant(where),
             NEW other \in Tenants \ {tenant}, NEW id \in Clients
      PROVE  ~Matches([id |-> id, tenant |-> other], where)
  BY <1>7, SoundTwoDeep
<1>. QED BY <1>6, <1>7, Zenon DEF leaves

-----------------------------------------------------------------------------
(* The inductive invariant *)

\* Where the requests about a client, about a project and about a code are.
ClientPcs == {"changeClient", "removeClient", "updateClient", "deleteClient",
              "newProject", "findCode", "createProject"}
ProjectPcs == {"changeProject", "findOtherCode", "updateProject", "removeProject",
               "deleteProject"}
CodePcs == {"newProject", "findCode", "createProject", "changeProject", "findOtherCode",
            "updateProject"}
Pcs == ClientPcs \cup ProjectPcs \cup
       {"idle", "unscoped", "lookedUp", "answered", "createClient", "audit", "auditRemoval",
        "list", "count"}

Answers == {None, "OK", "LIST", "ROWS", "CONFLICT", "NOT_FOUND", "VALIDATION_ERROR",
            "FORBIDDEN", "MISSING_SCOPE", "INTERNAL_ERROR"}

Request ==
  [pc : Pcs, tenant : Tenants \cup {None}, client : Clients \cup {None},
   project : Projects \cup {None}, code : Codes \cup {None}, page : 0 .. 2,
   found : SUBSET Clients, answer : Answers, rows : SUBSET Clients,
   total : {0} \cup {Cardinality(rows) : rows \in SUBSET Clients}]

Types ==
  /\ client \in [Clients -> {Unborn, Gone} \cup [tenant : Tenants]]
  /\ project \in [Projects -> {Unborn, Gone} \cup
                                [tenant : Tenants, client : Clients, code : Codes]]
  /\ req \in [Requests -> Request]
  /\ exempt \subseteq Requests
  /\ removals \in [Clients \cup Projects -> Nat]
  /\ crossed \subseteq Requests

\* What a request has of what its next statement needs.
Prepared(r) ==
  LET q == req[r]
  IN  /\ q.pc \notin {"idle", "unscoped", "lookedUp"} => q.tenant \in Tenants
      /\ q.pc \in ClientPcs => q.client \in Clients /\ q.project = None
      /\ q.pc \in ProjectPcs => q.project \in Projects
      /\ q.pc \in CodePcs => q.code \in Codes
      /\ q.pc # "answered" => q.answer = None
      /\ r \in exempt <=> q.pc \in {"unscoped", "lookedUp"}

\* A client that was found of a tenant: it was not removed, or it is his still.
FoundOf(tenant, c) == client[c] # Unborn /\ (ClientExists(c) => client[c].tenant = tenant)

\* What a request has read stays the tenant's.
ReadOwn(r) ==
  /\ req[r].pc \in {"findCode", "createProject"} => FoundOf(req[r].tenant, req[r].client)
  /\ \A c \in req[r].rows : FoundOf(req[r].tenant, c)

\* A list that nobody wrote into has the page of what it counts.
PageKept(r) ==
  LET found == FindClients(CountWhere(r))
      onPage(n) == Cardinality(req[r].rows) = OnPage(req[r].page, n)
  IN  r \notin crossed =>
        /\ req[r].pc = "count" => onPage(Cardinality(found))
        /\ req[r].answer = "LIST" => onPage(req[r].total)

\* The row whose removal a request has made and not audited.
Removes(r, x) ==
  /\ req[r].pc = "auditRemoval"
  /\ x = IF req[r].project # None THEN req[r].project ELSE req[r].client

IsGone(x) == IF x \in Clients THEN client[x] = Gone ELSE project[x] = Gone

RemovalsOK ==
  /\ \A r \in Requests : req[r].pc = "auditRemoval" =>
       \E x \in Clients \cup Projects : Removes(r, x)
  /\ \A x \in Clients \cup Projects :
       /\ removals[x] = 0 \/ removals[x] = 1
       /\ removals[x] = 1 => IsGone(x) /\ \A r \in Requests : ~Removes(r, x)
       /\ \A r \in Requests : Removes(r, x) => IsGone(x)
       /\ \A r, u \in Requests : Removes(r, x) /\ Removes(u, x) => r = u

Good ==
  /\ Types
  /\ \A r \in Requests : Prepared(r) /\ ReadOwn(r) /\ PageKept(r)
  /\ LosersAreTold /\ ProjectHasClient /\ CodesUnique /\ RemovalsOK

-----------------------------------------------------------------------------
(* The statements of the two services *)

(* What the clauses of the services say, and that the middleware lets them run. *)
LEMMA OwnClause ==
  ASSUME NEW tenant \in Tenants, NEW id
  PROVE  LET where == Key("id", id) \cup Key("tenantId", tenant)
         IN  /\ WhereConstrainsTenant(where)
             /\ \A row : Matches(row, where) <=> row.id = id /\ row.tenant = tenant
BY UndefinedAssumption
DEF WhereConstrainsTenant, Matches, ConstrainsGiven, MatchesGiven, Key, TenantKeys

LEMMA TenantClause ==
  ASSUME NEW tenant \in Tenants
  PROVE  /\ WhereConstrainsTenant(Key("tenantId", tenant))
         /\ \A row : Matches(row, Key("tenantId", tenant)) <=> row.tenant = tenant
BY UndefinedAssumption
DEF WhereConstrainsTenant, Matches, ConstrainsGiven, MatchesGiven, Key, TenantKeys

LEMMA OtherClause ==
  ASSUME NEW tenant \in Tenants, NEW id
  PROVE  \A row : Matches(row, Key("tenantId", tenant) \cup Key("NOT", {Key("id", id)}))
                    <=> row.tenant = tenant /\ row.id # id
<1>. SUFFICES ASSUME NEW row
              PROVE  Matches(row, Key("tenantId", tenant) \cup Key("NOT", {Key("id", id)}))
                       <=> row.tenant = tenant /\ row.id # id
  OBVIOUS
<1>1. MatchesNested(row, Key("id", id)) <=> row.id = id
  BY DEF MatchesNested, MatchesGiven, Key, TenantKeys
<1>2. Matches(row, Key("tenantId", tenant) \cup Key("NOT", {Key("id", id)}))
        <=> row.tenant = tenant /\ ~MatchesNested(row, Key("id", id))
  BY UndefinedAssumption DEF Matches, MatchesGiven, Key, TenantKeys
<1>. QED BY <1>1, <1>2

LEMMA SearchClause ==
  ASSUME NEW tenant \in Tenants, NEW clauses
  PROVE  LET where == Key("tenantId", tenant) \cup Key("OR", clauses)
         IN  /\ WhereConstrainsTenant(where)
             /\ \A row : Matches(row, where) => row.tenant = tenant
BY UndefinedAssumption
DEF WhereConstrainsTenant, Matches, ConstrainsGiven, MatchesGiven, Key, TenantKeys

LEMMA OwnFound ==
  ASSUME NEW r, req[r].tenant \in Tenants, NEW id
  PROVE  /\ WhereConstrainsTenant(Own(r, id))
         /\ FindClients(Own(r, id)) # {} <=>
              id \in Clients /\ ClientExists(id) /\ client[id].tenant = req[r].tenant
         /\ FindProjects(Own(r, id)) # {} <=>
              id \in Projects /\ ProjectExists(id) /\ project[id].tenant = req[r].tenant
<1>. DEFINE where == Own(r, id)
<1>1. /\ WhereConstrainsTenant(where)
      /\ \A row : Matches(row, where) <=> row.id = id /\ row.tenant = req[r].tenant
  BY OwnClause DEF Own
<1>. HIDE DEF where
<1>2. \A c \in Clients : c \in FindClients(where) <=>
        ClientExists(c) /\ c = id /\ client[c].tenant = req[r].tenant
  BY <1>1 DEF FindClients
<1>3. \A p \in Projects : p \in FindProjects(where) <=>
        ProjectExists(p) /\ p = id /\ project[p].tenant = req[r].tenant
  BY <1>1 DEF FindProjects
<1>4. FindClients(where) \subseteq Clients /\ FindProjects(where) \subseteq Projects
  BY DEF FindClients, FindProjects
<1>. QED BY <1>1, <1>2, <1>3, <1>4 DEF where

LEMMA TakenCode ==
  ASSUME NEW tenant \in Tenants, NEW code, NEW except
  PROVE  CodeTaken(tenant, code, except) <=>
           \E p \in Projects :
             /\ ProjectExists(p) /\ p # except
             /\ project[p].tenant = tenant /\ project[p].code = code
<1>. DEFINE where == Key("tenantId", tenant) \cup Key("NOT", {Key("id", except)})
<1>1. \A row : Matches(row, where) <=> row.tenant = tenant /\ row.id # except
  BY OtherClause
<1>. HIDE DEF where
<1>2. \A p : p \in FindProjects(where) <=>
        p \in Projects /\ ProjectExists(p) /\ p # except /\ project[p].tenant = tenant
  BY <1>1 DEF FindProjects
<1>3. CodeTaken(tenant, code, except) <=> FindProjects(where) \cap WithCode(code) # {}
  BY DEF CodeTaken, where
<1>. QED BY <1>2, <1>3 DEF WithCode

(* A statement whose clause names the tenant runs. *)
LEMMA StatementRuns ==
  ASSUME NEW r, NEW model, NEW operation, NEW where, NEW data,
         operation \in WhereOperations => WhereConstrainsTenant(where),
         operation \in DataOperations => DataCarriesTenant(data),
         operation # "upsert"
  PROVE  Runs(r, model, operation, where, data)
BY DEF Runs, MayRun, AssertTenantScope

LEMMA RowsCarryTenant ==
  ASSUME NEW tenant \in Tenants, NEW row, row.tenant = tenant
  PROVE  DataCarriesTenant({row})
BY UndefinedAssumption DEF DataCarriesTenant

-----------------------------------------------------------------------------
(* What the steps have in common *)

\* What becomes of a request that goes on, or answers.
Goes(r, pc, answer) == req' = [req EXCEPT ![r] = [req[r] EXCEPT !.pc = pc, !.answer = answer]]

LEMMA GoGoes ==
  ASSUME Types, NEW r \in Requests, NEW pc
  PROVE  /\ req[r].answer = None /\ Go(r, pc) => Goes(r, pc, None)
         /\ \A answer : Respond(r, answer) => Goes(r, "answered", answer)
BY Zenon DEF Types, Request, Go, Respond, Goes

LEMMA GoesOn ==
  ASSUME Types, NEW r \in Requests, NEW pc, NEW answer, Goes(r, pc, answer)
  PROVE  /\ \A u \in Requests \ {r} : req'[u] = req[u]
         /\ req'[r].pc = pc /\ req'[r].answer = answer
         /\ req'[r].tenant = req[r].tenant /\ req'[r].client = req[r].client
         /\ req'[r].project = req[r].project /\ req'[r].code = req[r].code
         /\ req'[r].rows = req[r].rows
<1>1. /\ req[r] \in Request
      /\ req'[r] = [req[r] EXCEPT !.pc = pc, !.answer = answer]
  BY DEF Types, Goes
<1>. QED BY <1>1 DEF Types, Goes, Request

\* Rows are not used again and keep whose they are.
RowsPersist ==
  /\ \A c \in Clients : client[c] # Unborn => client'[c] \in {client[c], Gone}
  /\ \A p \in Projects :
       /\ project[p] = Gone => project'[p] = Gone

\* A step leaves c found of the tenant.
FoundThen(tenant, c) ==
  client'[c] # Unborn /\ (client'[c] # Gone => client'[c].tenant = tenant)

(* The other requests find what they had. *)
LEMMA Bystanders ==
  ASSUME Good, Types', NEW r \in Requests, RowsPersist,
         \A u \in Requests \ {r} : req'[u] = req[u],
         exempt' \ {r} = exempt \ {r},
         \/ client' = client /\ crossed \subseteq crossed' \cup {r}
         \/ Wrote(r)
  PROVE  \A u \in Requests \ {r} : Prepared(u)' /\ ReadOwn(u)' /\ PageKept(u)'
<1>. SUFFICES ASSUME NEW u \in Requests \ {r}
              PROVE  Prepared(u)' /\ ReadOwn(u)' /\ PageKept(u)'
  OBVIOUS
<1>0. req'[u] = req[u] /\ req[u] \in Request
  BY DEF Good, Types
<1>1. Prepared(u)'
  BY <1>0 DEF Good, Prepared
<1>2. ASSUME NEW c \in Clients, FoundOf(req[u].tenant, c)
      PROVE  FoundOf(req[u].tenant, c)'
  BY <1>0, <1>2, NamesAssumption DEF FoundOf, RowsPersist, ClientExists
<1>3. ReadOwn(u)'
  <2>1. ReadOwn(u) /\ Prepared(u) /\ req[u].rows \subseteq Clients
    BY <1>0 DEF Good, Request
  <2>2. req[u].pc \in {"findCode", "createProject"} => req[u].client \in Clients
    BY <2>1 DEF Prepared, ClientPcs
  <2>. QED BY <1>0, <1>2, <2>1, <2>2 DEF ReadOwn, FoundOf, ClientExists
<1>4. PageKept(u)'
  <2>1. PageKept(u) /\ u \in Requests
    BY DEF Good
  <2>2. CASE client' = client /\ crossed \subseteq crossed' \cup {r}
    BY <1>0, <2>1, <2>2
    DEF PageKept, FindClients, CountWhere, ListWhere, ClientExists
  <2>3. CASE Wrote(r)
    BY <1>0, <2>1, <2>3 DEF PageKept, Wrote
  <2>. QED BY <2>2, <2>3
<1>. QED BY <1>1, <1>3, <1>4

\* A request may be at pc, with this answer.
Ready(r, pc, answer) ==
  /\ pc \in Pcs \ {"idle", "unscoped", "lookedUp", "count"}
  /\ answer \in Answers \ {"INTERNAL_ERROR", "LIST"}
  /\ pc # "answered" => answer = None
  /\ pc \in ClientPcs => req[r].client \in Clients /\ req[r].project = None
  /\ pc \in ProjectPcs => req[r].project \in Projects
  /\ pc \in CodePcs => req[r].code \in Codes
  /\ pc \in {"findCode", "createProject"} => FoundOf(req[r].tenant, req[r].client)

(* A request that goes on. *)
LEMMA Mover ==
  ASSUME Good, Types', NEW r \in Requests, RowsPersist,
         req[r].pc \notin {"idle", "unscoped", "lookedUp"},
         NEW pc, NEW answer, Ready(r, pc, answer), Goes(r, pc, answer),
         exempt' = exempt,
         \/ client' = client /\ crossed \subseteq crossed'
         \/ Wrote(r)
  PROVE  /\ \A u \in Requests : Prepared(u)' /\ ReadOwn(u)' /\ PageKept(u)'
         /\ LosersAreTold'
<1>0. Types /\ req[r] \in Request
  BY DEF Good, Types
<1>1. /\ \A u \in Requests \ {r} : req'[u] = req[u]
      /\ req'[r].pc = pc /\ req'[r].answer = answer
      /\ req'[r].tenant = req[r].tenant /\ req'[r].client = req[r].client
      /\ req'[r].project = req[r].project /\ req'[r].code = req[r].code
      /\ req'[r].rows = req[r].rows
  BY <1>0, GoesOn
<1>2. Prepared(r) /\ ReadOwn(r)
  BY DEF Good
<1>3. Prepared(r)'
  BY <1>1, <1>2 DEF Prepared, Ready
<1>4. ASSUME NEW c \in Clients, FoundOf(req[r].tenant, c)
      PROVE  FoundThen(req[r].tenant, c)
  BY <1>4, NamesAssumption DEF FoundOf, FoundThen, RowsPersist, ClientExists
<1>5. ReadOwn(r)'
  <2>1. pc \in {"findCode", "createProject"} => req[r].client \in Clients
    BY DEF Ready, ClientPcs
  <2>2. req[r].rows \subseteq Clients
    BY <1>0 DEF Request
  <2>3. req'[r].pc \in {"findCode", "createProject"} => FoundThen(req'[r].tenant, req'[r].client)
    BY <1>1, <1>4, <2>1 DEF Ready
  <2>4. \A c \in req'[r].rows : FoundThen(req'[r].tenant, c)
    BY <1>1, <1>2, <1>4, <2>2 DEF ReadOwn
  <2>. QED BY <2>3, <2>4 DEF ReadOwn, FoundOf, FoundThen, ClientExists
<1>6. PageKept(r)'
  BY <1>1 DEF PageKept, Ready
<1>7. \A u \in Requests \ {r} : Prepared(u)' /\ ReadOwn(u)' /\ PageKept(u)'
  BY <1>1, Bystanders
<1>8. LosersAreTold'
  BY <1>1 DEF Good, LosersAreTold, Ready
<1>. QED BY <1>0, <1>3, <1>5, <1>6, <1>7, <1>8

(* A request that goes on and writes nothing. *)
LEMMA Quiet ==
  ASSUME Good, NEW r \in Requests,
         req[r].pc \notin {"idle", "unscoped", "lookedUp", "auditRemoval"},
         NEW pc, NEW answer, Ready(r, pc, answer), Goes(r, pc, answer),
         pc # "auditRemoval",
         UNCHANGED <<tables, removals, exempt>>,
         crossed' \subseteq Requests, crossed \subseteq crossed'
  PROVE  Good'
<1>0. UNCHANGED <<client, project, removals, exempt>>
  BY DEF tables
<1>1. Types'
  <2>0. req[r] \in Request /\ pc \in Pcs /\ answer \in Answers
    BY DEF Good, Types, Ready
  <2>1. [req[r] EXCEPT !.pc = pc, !.answer = answer] \in Request
    BY <2>0, Zenon DEF Request
  <2>. QED BY <1>0, <2>1 DEF Good, Types, Goes
<1>2. RowsPersist
  BY <1>0 DEF RowsPersist
<1>3. LosersAreTold' /\ \A u \in Requests : Prepared(u)' /\ ReadOwn(u)' /\ PageKept(u)'
  <2>1. /\ client' = client /\ crossed \subseteq crossed'
        /\ exempt' = exempt
        /\ req[r].pc \notin {"idle", "unscoped", "lookedUp"}
    BY <1>0
  <2>. QED BY <2>1, <1>1, <1>2, Mover, Zenon
<1>4. ProjectHasClient' /\ CodesUnique'
  BY <1>0 DEF Good, ProjectHasClient, CodesUnique, ProjectExists, ClientExists
<1>5. \A u \in Requests : req'[u].pc = "auditRemoval" => req'[u] = req[u]
  BY GoesOn DEF Good
<1>6. \A u \in Requests : \A x : Removes(u, x)' <=> Removes(u, x)
  <2>1. \A u \in Requests \ {r} : req'[u] = req[u]
    BY GoesOn DEF Good
  <2>2. req'[r].pc # "auditRemoval"
    BY GoesOn DEF Good
  <2>. QED BY <2>1, <2>2 DEF Removes
<1>7. RemovalsOK'
  BY <1>0, <1>5, <1>6 DEF Good, RemovalsOK, IsGone
<1>. QED BY <1>1, <1>3, <1>4, <1>7 DEF Good
LEMMA NoAnswer == None \in Answers \ {"INTERNAL_ERROR", "LIST"}
BY NamesAssumption DEF Answers

LEMMA Answered ==
  ASSUME Good, NEW r \in Requests,
         req[r].pc \notin {"idle", "unscoped", "lookedUp", "auditRemoval"},
         NEW answer \in Answers \ {"INTERNAL_ERROR", "LIST"}, Respond(r, answer),
         UNCHANGED <<tables, removals, exempt>>,
         crossed' \subseteq Requests, crossed \subseteq crossed'
  PROVE  Good'
<1>1. Goes(r, "answered", answer)
  BY GoGoes DEF Good
<1>2. Ready(r, "answered", answer)
  BY DEF Ready, Pcs, ClientPcs, ProjectPcs, CodePcs
<1>. QED BY <1>1, <1>2, Quiet

LEMMA Advances ==
  ASSUME Good, NEW r \in Requests,
         req[r].pc \notin {"idle", "unscoped", "lookedUp", "answered", "auditRemoval"},
         NEW pc, pc # "auditRemoval", Ready(r, pc, None), Go(r, pc),
         UNCHANGED <<tables, removals, exempt>>,
         crossed' \subseteq Requests, crossed \subseteq crossed'
  PROVE  Good'
<1>1. Goes(r, pc, None)
  BY GoGoes DEF Good, Prepared
<1>. QED BY <1>1, Quiet

-----------------------------------------------------------------------------
(* One lemma for each step *)

LEMMA AuditedStep ==
  ASSUME Good, NEW r \in Requests, Audited(r)
  PROVE  Good'
BY Answered DEF Audited, Answers, Good, Types

LEMMA FindClientStep ==
  ASSUME Good, NEW r \in Requests,
         NEW next \in {From("changeClient", "updateClient"),
                       From("removeClient", "deleteClient"), From("newProject", "findCode")},
         FindClient(r, next)
  PROVE  Good'
<1>. DEFINE where == Own(r, req[r].client)
<1>1. /\ Prepared(r) /\ req[r].pc = next.from
      /\ next.from \in {"changeClient", "removeClient", "newProject"}
      /\ next.to \in {"updateClient", "deleteClient", "findCode"}
      /\ next.to = "findCode" => next.from = "newProject"
  BY DEF Good, FindClient, From
<1>2. /\ req[r].tenant \in Tenants
      /\ req[r].client \in Clients /\ req[r].project = None
      /\ next.to = "findCode" => req[r].code \in Codes
  BY <1>1 DEF Prepared, ClientPcs, CodePcs
<1>3. Runs(r, "Client", "findFirst", where, {})
  BY <1>2, OwnFound, StatementRuns DEF DataOperations
<1>. HIDE DEF where
<1>4. /\ \/ Respond(r, "NOT_FOUND")
         \/ Respond(r, "CONFLICT")
         \/ FindClients(where) # {} /\ Go(r, next.to)
      /\ UNCHANGED <<tables, removals, exempt, crossed>>
  BY <1>3 DEF FindClient, Statement, where
<1>5. CASE FindClients(where) # {} /\ Go(r, next.to)
  <2>1. FoundOf(req[r].tenant, req[r].client)
    BY <1>2, <1>5, OwnFound DEF FoundOf, ClientExists, where
  <2>2. Ready(r, next.to, None)
    BY <1>1, <1>2, <2>1, NoAnswer DEF Ready, Pcs, ClientPcs, ProjectPcs, CodePcs
  <2>. QED BY <1>1, <1>4, <1>5, <2>2, Advances DEF Good, Types
<1>6. CASE Respond(r, "NOT_FOUND") \/ Respond(r, "CONFLICT")
  BY <1>1, <1>4, <1>6, Answered DEF Good, Types, Answers
<1>. QED BY <1>4, <1>5, <1>6

LEMMA UpdateClientStep ==
  ASSUME Good, NEW r \in Requests, UpdateClient(r)
  PROVE  Good'
<1>. DEFINE where == Own(r, req[r].client)
<1>1. Prepared(r) /\ req[r].pc = "updateClient" /\ req[r].tenant \in Tenants
  BY DEF Good, UpdateClient, Prepared
<1>2. Runs(r, "Client", "update", where, {})
  BY <1>1, OwnFound, StatementRuns DEF DataOperations
<1>. HIDE DEF where
<1>3. /\ Respond(r, "NOT_FOUND") \/ Go(r, "audit")
      /\ UNCHANGED <<tables, removals, exempt>>
      /\ crossed' \subseteq Requests /\ crossed \subseteq crossed'
  BY <1>2 DEF UpdateClient, Statement, where, PrismaAnswer, Wrote, Good, Types
<1>4. CASE Go(r, "audit")
  <2>1. Ready(r, "audit", None)
    BY NoAnswer DEF Ready, Pcs, ClientPcs, ProjectPcs, CodePcs
  <2>. QED BY <1>1, <1>3, <1>4, <2>1, Advances DEF Good, Types
<1>5. CASE Respond(r, "NOT_FOUND")
  BY <1>1, <1>3, <1>5, Answered DEF Good, Types, Answers
<1>. QED BY <1>3, <1>4, <1>5

LEMMA FindCodeStep ==
  ASSUME Good, NEW r \in Requests,
         NEW next \in {From("findCode", "createProject"), From("findOtherCode", "updateProject")},
         FindCode(r, next)
  PROVE  Good'
<1>. DEFINE where == Key("tenantId", req[r].tenant)
<1>1. /\ Prepared(r) /\ ReadOwn(r) /\ req[r].pc = next.from
      /\ <<next.from, next.to>> \in {<<"findCode", "createProject">>,
                                     <<"findOtherCode", "updateProject">>}
  BY DEF Good, FindCode, From
<1>2. req[r].tenant \in Tenants
  BY <1>1 DEF Prepared
<1>3. Runs(r, "Project", "findFirst", where, {})
  BY <1>2, TenantClause, StatementRuns DEF DataOperations
<1>. HIDE DEF where
<1>4. /\ Respond(r, "CONFLICT") \/ Go(r, next.to)
      /\ UNCHANGED <<tables, removals, exempt, crossed>>
  BY <1>3 DEF FindCode, Statement, where
<1>5. CASE Go(r, next.to)
  <2>1. Ready(r, next.to, None)
    BY <1>1, NoAnswer DEF Prepared, ReadOwn, Ready, Pcs, ClientPcs, ProjectPcs, CodePcs
  <2>. QED BY <1>1, <1>4, <1>5, <2>1, Advances DEF Good, Types
<1>6. CASE Respond(r, "CONFLICT")
  BY <1>1, <1>4, <1>6, Answered DEF Good, Types, Answers
<1>. QED BY <1>4, <1>5, <1>6

LEMMA FindProjectStep ==
  ASSUME Good, NEW r \in Requests,
         NEW next \in {From("changeProject", "updateProject"),
                       From("removeProject", "deleteProject")},
         FindProject(r, next)
  PROVE  Good'
<1>. DEFINE where == Own(r, req[r].project)
<1>1. /\ Prepared(r) /\ req[r].pc = next.from
      /\ <<next.from, next.to>> \in {<<"changeProject", "updateProject">>,
                                     <<"removeProject", "deleteProject">>}
  BY DEF Good, FindProject, From
<1>2. req[r].tenant \in Tenants
  BY <1>1 DEF Prepared
<1>3. Runs(r, "Project", "findFirst", where, {})
  BY <1>2, OwnFound, StatementRuns DEF DataOperations
<1>. HIDE DEF where
<1>4. /\ \/ Respond(r, "NOT_FOUND")
         \/ next.to = "updateProject" /\ Go(r, "findOtherCode")
         \/ Go(r, next.to)
      /\ UNCHANGED <<tables, removals, exempt, crossed>>
  BY <1>3 DEF FindProject, Statement, where
<1>5. Ready(r, next.to, None)
  BY <1>1, NoAnswer DEF Prepared, Ready, Pcs, ClientPcs, ProjectPcs, CodePcs
<1>6. CASE Go(r, next.to)
  BY <1>1, <1>4, <1>5, <1>6, Advances DEF Good, Types
<1>7. CASE next.to = "updateProject" /\ Go(r, "findOtherCode")
  <2>1. Ready(r, "findOtherCode", None)
    BY <1>1, <1>7, NoAnswer DEF Prepared, Ready, Pcs, ClientPcs, ProjectPcs, CodePcs
  <2>. QED BY <1>1, <1>4, <1>7, <2>1, Advances DEF Good, Types
<1>8. CASE Respond(r, "NOT_FOUND")
  BY <1>1, <1>4, <1>8, Answered DEF Good, Types, Answers
<1>. QED BY <1>4, <1>6, <1>7, <1>8

-----------------------------------------------------------------------------
(* The writes *)

(* A write that the schema refuses, or that finds no row. *)
LEMMA Refused ==
  ASSUME Good, NEW r \in Requests,
         req[r].pc \notin {"idle", "unscoped", "lookedUp", "auditRemoval"},
         NEW answer \in {"CONFLICT", "NOT_FOUND"}, Respond(r, answer),
         UNCHANGED <<client, project, removals, exempt>>, Wrote(r)
  PROVE  Good'
<1>1. crossed' \subseteq Requests /\ crossed \subseteq crossed'
  BY DEF Wrote, Good, Types
<1>2. UNCHANGED <<tables, removals, exempt>>
  BY DEF tables
<1>. QED BY <1>1, <1>2, Answered DEF Answers

LEMMA RequestsTyped ==
  ASSUME Good, NEW r \in Requests, NEW pc \in Pcs, NEW answer \in Answers, Goes(r, pc, answer)
  PROVE  req' \in [Requests -> Request]
<1>0. req[r] \in Request
  BY DEF Good, Types
<1>1. [req[r] EXCEPT !.pc = pc, !.answer = answer] \in Request
  BY <1>0, Zenon DEF Request
<1>. QED BY <1>1 DEF Good, Types, Goes

LEMMA GoneStays ==
  ASSUME Good, RowsPersist, NEW x \in Clients \cup Projects, IsGone(x)
  PROVE  IsGone(x)'
BY NamesAssumption DEF RowsPersist, IsGone

(* The audit trail of a request that removes nothing, and of one that does. *)
LEMMA NothingRemoved ==
  ASSUME Good, NEW r \in Requests, NEW pc, pc # "auditRemoval", NEW answer, Goes(r, pc, answer),
         removals' = removals, RowsPersist
  PROVE  RemovalsOK'
<1>1. \A u \in Requests : req'[u].pc = "auditRemoval" => req'[u] = req[u]
  BY GoesOn DEF Good
<1>2. \A u \in Requests : \A x : Removes(u, x)' => Removes(u, x)
  BY <1>1 DEF Removes
<1>3. \A u \in Requests : \A x : Removes(u, x) /\ req'[u].pc = "auditRemoval" => Removes(u, x)'
  BY <1>1 DEF Removes
<1>4. \A x \in Clients \cup Projects : IsGone(x) => IsGone(x)'
  BY GoneStays
<1>. QED BY <1>1, <1>2, <1>3, <1>4 DEF Good, RemovalsOK

LEMMA OneRemoved ==
  ASSUME Good, NEW r \in Requests, Goes(r, "auditRemoval", None),
         removals' = removals, RowsPersist,
         NEW x \in Clients \cup Projects,
         x = IF req[r].project # None THEN req[r].project ELSE req[r].client,
         ~IsGone(x), IsGone(x)'
  PROVE  RemovalsOK'
<1>1. \A u \in Requests \ {r} : req'[u] = req[u]
  BY GoesOn DEF Good
<1>2. \A u \in Requests \ {r} : \A y : Removes(u, y)' <=> Removes(u, y)
  BY <1>1 DEF Removes
<1>3. \A y : Removes(r, y)' <=> y = x
  BY GoesOn DEF Good, Removes
<1>4. \A y \in Clients \cup Projects : IsGone(y) => IsGone(y)'
  BY GoneStays
<1>5. removals[x] # 1 /\ \A u \in Requests : ~Removes(u, x)
  BY DEF Good, RemovalsOK
<1>6. \A u \in Requests : req'[u].pc = "auditRemoval" =>
        \E y \in Clients \cup Projects : Removes(u, y)'
  BY <1>1, <1>2, <1>3 DEF Good, RemovalsOK
<1>7. ASSUME NEW y \in Clients \cup Projects
      PROVE  /\ removals[y] = 0 \/ removals[y] = 1
             /\ removals[y] = 1 => IsGone(y)' /\ \A u \in Requests : ~Removes(u, y)'
             /\ \A u \in Requests : Removes(u, y)' => IsGone(y)'
             /\ \A u, v \in Requests : Removes(u, y)' /\ Removes(v, y)' => u = v
  <2>1. CASE y = x
    BY <1>2, <1>3, <1>5, <2>1 DEF Good, RemovalsOK
  <2>2. CASE y # x
    BY <1>2, <1>3, <1>4, <2>2 DEF Good, RemovalsOK
  <2>. QED BY <2>1, <2>2
<1>. QED BY <1>6, <1>7 DEF RemovalsOK
LEMMA CreateClientStep ==
  ASSUME Good, NEW r \in Requests, NEW c \in Clients, CreateClient(r, c)
  PROVE  Good'
<1>. DEFINE row == ClientRow(req[r].tenant)
<1>1. Prepared(r) /\ req[r].pc = "createClient" /\ req[r].tenant \in Tenants
  BY DEF Good, CreateClient, Prepared
<1>2. Runs(r, "Client", "create", {}, {row})
  <2>1. row.tenant = req[r].tenant
    BY DEF ClientRow
  <2>2. DataCarriesTenant({row})
    BY <1>1, <2>1, RowsCarryTenant
  <2>. QED BY <2>2, StatementRuns DEF WhereOperations
<1>3. /\ client[c] = Unborn /\ client' = [client EXCEPT ![c] = row]
      /\ Go(r, "audit") /\ Wrote(r)
      /\ UNCHANGED <<project, removals, exempt>>
  BY <1>2 DEF CreateClient, Statement
<1>4. Goes(r, "audit", None) /\ Ready(r, "audit", None)
  BY <1>1, <1>3, GoGoes, NoAnswer
  DEF Good, Prepared, Ready, Pcs, ClientPcs, ProjectPcs, CodePcs
<1>5. Types'
  <2>1. req' \in [Requests -> Request]
    BY <1>4, RequestsTyped DEF Ready
  <2>2. row \in [tenant : Tenants]
    BY <1>1 DEF ClientRow
  <2>. QED BY <1>3, <2>1, <2>2 DEF Good, Types, Wrote
<1>6. /\ \A d \in Clients \ {c} : client'[d] = client[d]
      /\ RowsPersist
  BY <1>3 DEF Good, Types, RowsPersist
<1>7. LosersAreTold' /\ \A u \in Requests : Prepared(u)' /\ ReadOwn(u)' /\ PageKept(u)'
  BY <1>1, <1>3, <1>4, <1>5, <1>6, Mover
<1>8. ProjectHasClient' /\ CodesUnique'
  <2>1. \A p \in Projects : ProjectExists(p) =>
          project[p].client \in Clients /\ project[p].client # c
    BY <1>3 DEF Good, Types, ProjectHasClient, ProjectExists, ClientExists
  <2>. QED BY <1>3, <1>6, <2>1
       DEF Good, ProjectHasClient, CodesUnique, ProjectExists, ClientExists
<1>9. RemovalsOK'
  BY <1>3, <1>4, <1>6, NothingRemoved
<1>. QED BY <1>5, <1>7, <1>8, <1>9 DEF Good

LEMMA DeleteClientStep ==
  ASSUME Good, NEW r \in Requests, DeleteClient(r)
  PROVE  Good'
<1>. DEFINE c == req[r].client
            where == Own(r, c)
<1>1. /\ Prepared(r) /\ req[r].pc = "deleteClient" /\ req[r].tenant \in Tenants
      /\ c \in Clients /\ req[r].project = None
  BY DEF Good, DeleteClient, Prepared, ClientPcs
<1>2. Runs(r, "Client", "delete", where, {})
  BY <1>1, OwnFound, StatementRuns DEF DataOperations
<1>. HIDE DEF where
<1>3. /\ Wrote(r) /\ UNCHANGED <<project, removals, exempt>>
      /\ \/ Respond(r, "NOT_FOUND") /\ UNCHANGED client
         \/ Respond(r, "CONFLICT") /\ UNCHANGED client
         \/ /\ FindClients(where) # {} /\ ProjectsOf(c) = {}
            /\ Go(r, "auditRemoval") /\ client' = [client EXCEPT ![c] = Gone]
  BY <1>2 DEF DeleteClient, Statement, where, PrismaAnswer
<1>4. CASE (Respond(r, "NOT_FOUND") \/ Respond(r, "CONFLICT")) /\ UNCHANGED client
  BY <1>1, <1>3, <1>4, Refused
<1>5. CASE /\ FindClients(where) # {} /\ ProjectsOf(c) = {}
           /\ Go(r, "auditRemoval") /\ client' = [client EXCEPT ![c] = Gone]
  <2>1. ClientExists(c)
    BY <1>1, <1>5, OwnFound DEF where
  <2>2. Goes(r, "auditRemoval", None) /\ Ready(r, "auditRemoval", None)
    BY <1>1, <1>5, GoGoes, NoAnswer
    DEF Good, Prepared, Ready, Pcs, ClientPcs, ProjectPcs, CodePcs
  <2>3. /\ \A d \in Clients \ {c} : client'[d] = client[d]
        /\ client'[c] = Gone
        /\ RowsPersist
    BY <1>1, <1>3, <1>5 DEF Good, Types, RowsPersist
  <2>4. Types'
    <3>1. req' \in [Requests -> Request]
      BY <2>2, RequestsTyped DEF Ready
    <3>. QED BY <1>3, <1>5, <3>1 DEF Good, Types, Wrote
  <2>5. LosersAreTold' /\ \A u \in Requests : Prepared(u)' /\ ReadOwn(u)' /\ PageKept(u)'
    BY <1>1, <1>3, <2>2, <2>3, <2>4, Mover
  <2>6. ProjectHasClient' /\ CodesUnique'
    <3>1. \A p \in Projects : ProjectExists(p) =>
            project[p].client \in Clients /\ project[p].client # c
      BY <1>5 DEF Good, Types, ProjectExists, ProjectsOf
    <3>. QED BY <1>3, <2>3, <3>1
         DEF Good, ProjectHasClient, CodesUnique, ProjectExists, ClientExists
  <2>7. RemovalsOK'
    <3>1. PICK x \in Clients : x = c
      BY <1>1
    <3>2. ~IsGone(x) /\ IsGone(x)'
      BY <2>1, <2>3, <3>1 DEF IsGone, ClientExists
    <3>3. x = IF req[r].project # None THEN req[r].project ELSE req[r].client
      BY <1>1, <3>1
    <3>. QED BY <1>3, <2>2, <2>3, <3>2, <3>3, OneRemoved
  <2>. QED BY <2>4, <2>5, <2>6, <2>7 DEF Good
<1>. QED BY <1>3, <1>4, <1>5
LEMMA CreateProjectStep ==
  ASSUME Good, NEW r \in Requests, NEW p \in Projects, CreateProject(r, p)
  PROVE  Good'
<1>. DEFINE row == ProjectRow(req[r].tenant, req[r].client, req[r].code)
<1>1. /\ Prepared(r) /\ ReadOwn(r) /\ req[r].pc = "createProject" /\ req[r].tenant \in Tenants
      /\ req[r].client \in Clients /\ req[r].code \in Codes
  BY DEF Good, CreateProject, Prepared, ClientPcs, CodePcs
<1>2. /\ row \in [tenant : Tenants, client : Clients, code : Codes]
      /\ row.tenant = req[r].tenant /\ row.client = req[r].client /\ row.code = req[r].code
  BY <1>1 DEF ProjectRow
<1>3. Runs(r, "Project", "create", {}, {row})
  <2>1. DataCarriesTenant({row})
    BY <1>1, <1>2, RowsCarryTenant
  <2>. QED BY <2>1, StatementRuns DEF WhereOperations
<1>. HIDE DEF row
<1>4. /\ project[p] = Unborn /\ Wrote(r) /\ UNCHANGED <<client, removals, exempt>>
      /\ \/ Respond(r, "CONFLICT") /\ UNCHANGED project
         \/ /\ ~CodeTaken(row.tenant, row.code, p) /\ ClientExists(row.client)
            /\ Go(r, "audit") /\ project' = [project EXCEPT ![p] = row]
  BY <1>3 DEF CreateProject, Statement, row, PrismaAnswer
<1>5. CASE Respond(r, "CONFLICT") /\ UNCHANGED project
  BY <1>1, <1>4, <1>5, Refused
<1>6. CASE /\ ~CodeTaken(row.tenant, row.code, p) /\ ClientExists(row.client)
           /\ Go(r, "audit") /\ project' = [project EXCEPT ![p] = row]
  <2>1. Goes(r, "audit", None) /\ Ready(r, "audit", None)
    BY <1>1, <1>6, GoGoes, NoAnswer
    DEF Good, Prepared, Ready, Pcs, ClientPcs, ProjectPcs, CodePcs
  <2>2. /\ \A q \in Projects \ {p} : project'[q] = project[q]
        /\ project'[p] = row
        /\ RowsPersist
    BY <1>4, <1>6, NamesAssumption DEF Good, Types, RowsPersist
  <2>3. Types'
    <3>1. req' \in [Requests -> Request]
      BY <2>1, RequestsTyped DEF Ready
    <3>. QED BY <1>2, <1>4, <1>6, <3>1 DEF Good, Types, Wrote
  <2>4. LosersAreTold' /\ \A u \in Requests : Prepared(u)' /\ ReadOwn(u)' /\ PageKept(u)'
    BY <1>1, <1>4, <2>1, <2>2, <2>3, Mover
  <2>5. ProjectHasClient'
    <3>1. client[row.client].tenant = row.tenant
      BY <1>1, <1>2, <1>6 DEF ReadOwn, FoundOf
    <3>. QED BY <1>4, <1>6, <2>2, <3>1
         DEF Good, ProjectHasClient, ProjectExists, ClientExists
  <2>6. CodesUnique'
    <3>1. \A q \in Projects \ {p} :
            ProjectExists(q) /\ project[q].tenant = row.tenant => project[q].code # row.code
      BY <1>1, <1>2, <1>6, TakenCode
    <3>. QED BY <2>2, <3>1 DEF Good, CodesUnique, ProjectExists
  <2>7. RemovalsOK'
    BY <1>4, <2>1, <2>2, NothingRemoved
  <2>. QED BY <2>3, <2>4, <2>5, <2>6, <2>7 DEF Good
<1>. QED BY <1>4, <1>5, <1>6

LEMMA UpdateProjectStep ==
  ASSUME Good, NEW r \in Requests, UpdateProject(r)
  PROVE  Good'
<1>. DEFINE where == Own(r, req[r].project)
<1>1. /\ Prepared(r) /\ req[r].pc = "updateProject" /\ req[r].tenant \in Tenants
      /\ req[r].project \in Projects /\ req[r].code \in Codes
  BY DEF Good, UpdateProject, Prepared, ProjectPcs, CodePcs
<1>2. Runs(r, "Project", "update", where, {})
  BY <1>1, OwnFound, StatementRuns DEF DataOperations
<1>. HIDE DEF where
<1>3. PICK p \in Projects : p = req[r].project
  BY <1>1
<1>4. /\ Wrote(r) /\ UNCHANGED <<client, removals, exempt>>
      /\ \/ Respond(r, "NOT_FOUND") /\ UNCHANGED project
         \/ Respond(r, "CONFLICT") /\ UNCHANGED project
         \/ /\ FindProjects(where) # {} /\ ~CodeTaken(req[r].tenant, req[r].code, p)
            /\ Go(r, "audit") /\ project' = [project EXCEPT ![p].code = req[r].code]
  BY <1>2, <1>3 DEF UpdateProject, Statement, where, PrismaAnswer
<1>5. CASE (Respond(r, "NOT_FOUND") \/ Respond(r, "CONFLICT")) /\ UNCHANGED project
  BY <1>1, <1>4, <1>5, Refused
<1>6. CASE /\ FindProjects(where) # {} /\ ~CodeTaken(req[r].tenant, req[r].code, p)
           /\ Go(r, "audit") /\ project' = [project EXCEPT ![p].code = req[r].code]
  <2>1. Goes(r, "audit", None) /\ Ready(r, "audit", None)
    BY <1>1, <1>6, GoGoes, NoAnswer
    DEF Good, Prepared, Ready, Pcs, ClientPcs, ProjectPcs, CodePcs
  <2>2. ProjectExists(p) /\ project[p].tenant = req[r].tenant
    BY <1>1, <1>3, <1>6, OwnFound DEF where
  <2>3. /\ \A q \in Projects \ {p} : project'[q] = project[q]
        /\ project[p] \in [tenant : Tenants, client : Clients, code : Codes]
        /\ project'[p] = [project[p] EXCEPT !.code = req[r].code]
        /\ project'[p] \in [tenant : Tenants, client : Clients, code : Codes]
        /\ project'[p].tenant = project[p].tenant /\ project'[p].client = project[p].client
        /\ project'[p].code = req[r].code
    BY <1>1, <1>6, <2>2 DEF Good, Types, ProjectExists
  <2>4. RowsPersist
    BY <1>4, <2>2, <2>3 DEF RowsPersist, ProjectExists
  <2>5. Types'
    <3>1. req' \in [Requests -> Request]
      BY <2>1, RequestsTyped DEF Ready
    <3>. QED BY <1>4, <1>6, <2>3, <3>1 DEF Good, Types, Wrote
  <2>6. LosersAreTold' /\ \A u \in Requests : Prepared(u)' /\ ReadOwn(u)' /\ PageKept(u)'
    BY <1>1, <1>4, <2>1, <2>4, <2>5, Mover
  <2>7. ProjectHasClient'
    BY <1>4, <2>2, <2>3 DEF Good, ProjectHasClient, ProjectExists, ClientExists
  <2>8. CodesUnique'
    <3>1. \A q \in Projects \ {p} :
            ProjectExists(q) /\ project[q].tenant = project[p].tenant
              => project[q].code # req[r].code
      BY <1>1, <1>6, <2>2, TakenCode
    <3>. QED BY <2>2, <2>3, <3>1 DEF Good, CodesUnique, ProjectExists
  <2>9. RemovalsOK'
    BY <1>4, <2>1, <2>4, NothingRemoved
  <2>. QED BY <2>5, <2>6, <2>7, <2>8, <2>9 DEF Good
<1>. QED BY <1>4, <1>5, <1>6

LEMMA DeleteProjectStep ==
  ASSUME Good, NEW r \in Requests, DeleteProject(r)
  PROVE  Good'
<1>. DEFINE where == Own(r, req[r].project)
<1>1. /\ Prepared(r) /\ req[r].pc = "deleteProject" /\ req[r].tenant \in Tenants
      /\ req[r].project \in Projects
  BY DEF Good, DeleteProject, Prepared, ProjectPcs
<1>2. Runs(r, "Project", "delete", where, {})
  BY <1>1, OwnFound, StatementRuns DEF DataOperations
<1>. HIDE DEF where
<1>3. PICK p \in Projects : p = req[r].project
  BY <1>1
<1>4. /\ Wrote(r) /\ UNCHANGED <<client, removals, exempt>>
      /\ \/ Respond(r, "NOT_FOUND") /\ UNCHANGED project
         \/ /\ FindProjects(where) # {}
            /\ Go(r, "auditRemoval") /\ project' = [project EXCEPT ![p] = Gone]
  BY <1>2, <1>3 DEF DeleteProject, Statement, where, PrismaAnswer
<1>5. CASE Respond(r, "NOT_FOUND") /\ UNCHANGED project
  BY <1>1, <1>4, <1>5, Refused
<1>6. CASE /\ FindProjects(where) # {}
           /\ Go(r, "auditRemoval") /\ project' = [project EXCEPT ![p] = Gone]
  <2>1. Goes(r, "auditRemoval", None) /\ Ready(r, "auditRemoval", None)
    BY <1>1, <1>6, GoGoes, NoAnswer
    DEF Good, Prepared, Ready, Pcs, ClientPcs, ProjectPcs, CodePcs
  <2>2. ProjectExists(p)
    BY <1>1, <1>3, <1>6, OwnFound DEF where
  <2>3. /\ \A q \in Projects \ {p} : project'[q] = project[q]
        /\ project'[p] = Gone
        /\ RowsPersist
    BY <1>4, <1>6 DEF Good, Types, RowsPersist
  <2>4. Types'
    <3>1. req' \in [Requests -> Request]
      BY <2>1, RequestsTyped DEF Ready
    <3>. QED BY <1>4, <1>6, <3>1 DEF Good, Types, Wrote
  <2>5. LosersAreTold' /\ \A u \in Requests : Prepared(u)' /\ ReadOwn(u)' /\ PageKept(u)'
    BY <1>1, <1>4, <2>1, <2>3, <2>4, Mover
  <2>6. ProjectHasClient' /\ CodesUnique'
    BY <1>4, <2>3 DEF Good, ProjectHasClient, CodesUnique, ProjectExists, ClientExists
  <2>7. RemovalsOK'
    <3>1. ~IsGone(p) /\ IsGone(p)'
      BY <2>2, <2>3, NamesAssumption DEF IsGone, ProjectExists
    <3>2. p = IF req[r].project # None THEN req[r].project ELSE req[r].client
      BY <1>3, NamesAssumption
    <3>. QED BY <1>4, <2>1, <2>3, <3>1, <3>2, OneRemoved
  <2>. QED BY <2>4, <2>5, <2>6, <2>7 DEF Good
<1>. QED BY <1>4, <1>5, <1>6
-----------------------------------------------------------------------------
(* The steps that concern one request only *)

LEMMA Alone ==
  ASSUME Good, NEW r \in Requests, req[r].pc # "auditRemoval",
         NEW q \in Request, req' = [req EXCEPT ![r] = q],
         q.pc # "auditRemoval", q.answer # "INTERNAL_ERROR",
         UNCHANGED <<client, project, removals>>,
         exempt' \subseteq Requests, exempt' \ {r} = exempt \ {r},
         crossed' \subseteq Requests, crossed \subseteq crossed' \cup {r},
         Prepared(r)', ReadOwn(r)', PageKept(r)'
  PROVE  Good'
<1>1. /\ \A u \in Requests \ {r} : req'[u] = req[u]
      /\ req'[r] = q
  BY DEF Good, Types
<1>2. Types'
  BY DEF Good, Types
<1>3. RowsPersist
  BY DEF RowsPersist
<1>4. \A u \in Requests : Prepared(u)' /\ ReadOwn(u)' /\ PageKept(u)'
  <2>1. \A u \in Requests \ {r} : Prepared(u)' /\ ReadOwn(u)' /\ PageKept(u)'
    BY <1>1, <1>2, <1>3, Bystanders
  <2>. QED BY <2>1
<1>5. LosersAreTold' /\ ProjectHasClient' /\ CodesUnique'
  BY <1>1 DEF Good, LosersAreTold, ProjectHasClient, CodesUnique, ProjectExists, ClientExists
<1>6. \A u \in Requests : \A x : Removes(u, x)' <=> Removes(u, x)
  BY <1>1 DEF Removes
<1>7. \A u \in Requests : req'[u].pc = "auditRemoval" => req[u].pc = "auditRemoval"
  BY <1>1
<1>8. RemovalsOK'
  BY <1>6, <1>7 DEF Good, RemovalsOK, IsGone
<1>. QED BY <1>2, <1>4, <1>5, <1>8 DEF Good

LEMMA IdleTyped ==
  /\ Idle \in Request
  /\ Idle.pc = "idle" /\ Idle.answer = None /\ Idle.rows = {}
BY NoAnswer DEF Idle, Request, Pcs, Answers

LEMMA BeginStep ==
  ASSUME Good, NEW r \in Requests, NEW request \in Request,
         request.pc \notin {"idle", "unscoped", "lookedUp", "answered", "findCode", "createProject",
                            "count", "auditRemoval"},
         request.tenant \in Tenants, request.answer = None, request.rows = {},
         request.pc \in ClientPcs => request.client \in Clients /\ request.project = None,
         request.pc \in ProjectPcs => request.project \in Projects,
         request.pc \in CodePcs => request.code \in Codes,
         Begin(r, request)
  PROVE  Good'
<1>. DEFINE forbidden ==
       [Idle EXCEPT !.pc = "answered", !.tenant = request.tenant, !.answer = "FORBIDDEN"]
<1>1. /\ forbidden \in Request
      /\ forbidden.pc = "answered" /\ forbidden.tenant = request.tenant
      /\ forbidden.answer = "FORBIDDEN" /\ forbidden.rows = {}
  <2>1. "answered" \in Pcs /\ "FORBIDDEN" \in Answers
    BY DEF Pcs, Answers
  <2>. QED BY <2>1, IdleTyped, Zenon DEF Request
<1>. HIDE DEF forbidden
<1>2. PICK q \in {request, forbidden} : req' = [req EXCEPT ![r] = q]
  BY DEF Begin, forbidden
<1>3. /\ req[r].pc = "idle" /\ UNCHANGED <<client, project, exempt, removals, crossed>>
      /\ exempt \subseteq Requests /\ crossed \subseteq Requests
      /\ req'[r] = q /\ q \in Request /\ r \notin exempt
  BY <1>1, <1>2 DEF Begin, tables, Good, Types, Prepared
<1>4. /\ q.pc \notin {"findCode", "createProject", "count", "auditRemoval"}
      /\ q.rows = {} /\ q.answer \notin {"LIST", "INTERNAL_ERROR"}
  BY <1>1, <1>2, NoAnswer
<1>5. Prepared(r)'
  BY <1>1, <1>2, <1>3 DEF Prepared, ClientPcs, ProjectPcs, CodePcs
<1>6. ReadOwn(r)' /\ PageKept(r)'
  BY <1>3, <1>4 DEF ReadOwn, PageKept
<1>. QED BY <1>2, <1>3, <1>4, <1>5, <1>6, Alone

LEMMA StartStep ==
  ASSUME Good, NEW r \in Requests, NEW tenant \in Tenants, Start(r, tenant)
  PROVE  Good'
<1>. DEFINE Plain(pc) == [Idle EXCEPT !.pc = pc, !.tenant = tenant]
<1>1. CASE Begin(r, Plain("createClient"))
  BY <1>1, BeginStep, IdleTyped DEF Idle, Request, Pcs, ClientPcs, ProjectPcs, CodePcs
<1>2. CASE \E c \in Clients, pc \in {"changeClient", "removeClient"} :
             Begin(r, [Plain(pc) EXCEPT !.client = c])
  BY <1>2, BeginStep, IdleTyped DEF Idle, Request, Pcs, ClientPcs, ProjectPcs, CodePcs
<1>3. CASE \E c \in Clients, code \in Codes :
             Begin(r, [Plain("newProject") EXCEPT !.client = c, !.code = code])
  BY <1>3, BeginStep, IdleTyped DEF Idle, Request, Pcs, ClientPcs, ProjectPcs, CodePcs
<1>4. CASE \E p \in Projects, code \in Codes :
             Begin(r, [Plain("changeProject") EXCEPT !.project = p, !.code = code])
  BY <1>4, BeginStep, IdleTyped DEF Idle, Request, Pcs, ClientPcs, ProjectPcs, CodePcs
<1>5. CASE \E p \in Projects : Begin(r, [Plain("removeProject") EXCEPT !.project = p])
  BY <1>5, BeginStep, IdleTyped DEF Idle, Request, Pcs, ClientPcs, ProjectPcs, CodePcs
<1>6. CASE \E page \in 1 .. 2, found \in SUBSET Clients :
             Begin(r, [Plain("list") EXCEPT !.page = page, !.found = found])
  <2>1. PICK page \in 1 .. 2, found \in SUBSET Clients :
               Begin(r, [Plain("list") EXCEPT !.page = page, !.found = found])
    BY <1>6, Zenon
  <2>2. page \in 0 .. 2
    OBVIOUS
  <2>3. [Plain("list") EXCEPT !.page = page, !.found = found] \in Request
    <3>1. "list" \in Pcs
      BY DEF Pcs
    <3>. QED BY <2>2, <3>1, IdleTyped, Zenon DEF Request
  <2>. QED BY <2>1, <2>3, BeginStep DEF Idle, ClientPcs, ProjectPcs, CodePcs
<1>. QED BY <1>1, <1>2, <1>3, <1>4, <1>5, <1>6, Zenon DEF Start
LEMMA DoneStep ==
  ASSUME Good, NEW r \in Requests, Done(r)
  PROVE  Good'
<1>1. /\ req[r].pc = "answered" /\ req' = [req EXCEPT ![r] = Idle]
      /\ crossed' = crossed \ {r} /\ UNCHANGED <<client, project, exempt, removals>>
      /\ exempt \subseteq Requests /\ crossed \subseteq Requests
      /\ req'[r] = Idle /\ r \notin exempt
  BY DEF Done, tables, Good, Types, Prepared
<1>2. Prepared(r)' /\ ReadOwn(r)' /\ PageKept(r)'
  BY <1>1, IdleTyped, NoAnswer
  DEF Prepared, ReadOwn, PageKept, ClientPcs, ProjectPcs, CodePcs
<1>. QED BY <1>1, <1>2, IdleTyped, NoAnswer, Alone

(* The lookup of unscoped() is sent inside the exemption, so that the middleware lets it
   run although it names no tenant. *)
LEMMA LookupRuns ==
  ASSUME Good, NEW r \in Requests, UnscopedQuery(r)
  PROVE  Go(r, "lookedUp") /\ UNCHANGED <<tables, removals, exempt, crossed>>
<1>1. r \in exempt
  BY DEF Good, Prepared, UnscopedQuery
<1>2. \A model, where : Runs(r, model, "findFirst", where, {})
  BY <1>1 DEF Runs, MayRun, IsUnscoped
<1>. QED BY <1>2 DEF UnscopedQuery, Statement

LEMMA UnscopedStep ==
  ASSUME Good, NEW r \in Requests, EnterUnscoped(r) \/ UnscopedQuery(r) \/ LeaveUnscoped(r)
  PROVE  Good'
<1>1. /\ UnscopedRequest \in Request
      /\ UnscopedRequest.pc = "unscoped" /\ UnscopedRequest.answer = None
      /\ UnscopedRequest.rows = {}
  BY IdleTyped DEF UnscopedRequest, Request, Pcs
<1>2. CASE UnscopedQuery(r)
  <2>1. req[r].pc = "unscoped" /\ r \in exempt /\ req[r].answer = None
    BY <1>2 DEF UnscopedQuery, Good, Prepared
  <2>2. Goes(r, "lookedUp", None) /\ UNCHANGED <<client, project, removals, exempt, crossed>>
    BY <1>2, <2>1, LookupRuns, GoGoes DEF Good, tables
  <2>. DEFINE q == [req[r] EXCEPT !.pc = "lookedUp", !.answer = None]
  <2>3. q \in Request
    <3>1. req[r] \in Request /\ "lookedUp" \in Pcs /\ None \in Answers
      BY NoAnswer DEF Good, Types, Pcs
    <3>. QED BY <3>1, Zenon DEF Request
  <2>4. req' = [req EXCEPT ![r] = q]
    BY <2>2 DEF Goes
  <2>5. q.pc = "lookedUp" /\ q.answer = None /\ q.rows = req[r].rows
    BY <2>2, GoesOn, <2>4 DEF Good, Types, Request
  <2>. HIDE DEF q
  <2>6. exempt \subseteq Requests /\ crossed \subseteq Requests /\ req'[r] = q
    BY <2>4 DEF Good, Types
  <2>7. Prepared(r)' /\ PageKept(r)'
    BY <2>1, <2>2, <2>5, <2>6, NoAnswer DEF Prepared, PageKept, ClientPcs, ProjectPcs, CodePcs
  <2>8. ReadOwn(r)'
    <3>1. \A c \in req[r].rows : FoundOf(req[r].tenant, c)
      BY DEF Good, ReadOwn
    <3>2. /\ req'[r].pc = "lookedUp" /\ req'[r].rows = req[r].rows
          /\ req'[r].tenant = req[r].tenant
      BY <2>2, GoesOn DEF Good
    <3>. QED BY <2>2, <3>1, <3>2 DEF ReadOwn, FoundOf, ClientExists
  <2>. QED BY <2>1, <2>2, <2>3, <2>4, <2>5, <2>6, <2>7, <2>8, NoAnswer, Alone
<1>3. CASE EnterUnscoped(r) \/ LeaveUnscoped(r)
  <2>1. PICK q \in {Idle, UnscopedRequest} :
          /\ req' = [req EXCEPT ![r] = q]
          /\ exempt' = IF q = UnscopedRequest THEN exempt \cup {r} ELSE exempt \ {r}
    BY <1>1, <1>3, IdleTyped DEF EnterUnscoped, LeaveUnscoped
  <2>2. /\ req[r].pc # "auditRemoval" /\ UNCHANGED <<client, project, removals, crossed>>
        /\ exempt \subseteq Requests /\ crossed \subseteq Requests
        /\ req'[r] = q
    BY <1>3, <2>1 DEF EnterUnscoped, LeaveUnscoped, tables, Good, Types
  <2>3. Prepared(r)' /\ ReadOwn(r)' /\ PageKept(r)'
    BY <1>1, <2>1, <2>2, IdleTyped, NoAnswer
    DEF Prepared, ReadOwn, PageKept, ClientPcs, ProjectPcs, CodePcs
  <2>. QED BY <1>1, <2>1, <2>2, <2>3, IdleTyped, NoAnswer, Alone
<1>. QED BY <1>2, <1>3

(* What a query of a tenant that names its tenant shows. *)
LEMMA ShownFound ==
  ASSUME Good, NEW tenant \in Tenants, NEW where,
         \A row : Matches(row, where) => row.tenant = tenant
  PROVE  FindClients(where) \subseteq {c \in Clients : FoundOf(tenant, c)}
BY DEF FindClients, FoundOf, ClientExists

LEMMA FindManyStep ==
  ASSUME Good, NEW r \in Requests, FindMany(r)
  PROVE  Good'
<1>. DEFINE where == ListWhere(r)
<1>1. /\ Prepared(r) /\ req[r].pc = "list" /\ req[r].tenant \in Tenants /\ req[r].answer = None
      /\ r \notin exempt /\ req[r] \in Request
  BY DEF Good, Types, FindMany, Prepared
<1>2. /\ WhereConstrainsTenant(where)
      /\ \A row : Matches(row, where) => row.tenant = req[r].tenant
  BY <1>1, SearchClause DEF ListWhere
<1>3. Runs(r, "Client", "findMany", where, {})
  BY <1>2, StatementRuns DEF DataOperations
<1>. HIDE DEF where
<1>4. PICK rows \in SUBSET FindClients(where) :
        /\ Cardinality(rows) = OnPage(req[r].page, Cardinality(FindClients(where)))
        /\ req' = [req EXCEPT ![r].pc = "count", ![r].rows = rows]
  BY <1>3 DEF FindMany, Statement, where
<1>5. UNCHANGED <<client, project, removals, exempt, crossed>>
  BY <1>3 DEF FindMany, Statement, where, tables
<1>6. rows \subseteq {c \in Clients : FoundOf(req[r].tenant, c)}
  BY <1>1, <1>2, ShownFound
<1>7. PICK q \in Request :
        /\ req' = [req EXCEPT ![r] = q]
        /\ q = [req[r] EXCEPT !.pc = "count", !.rows = rows]
  <2>0. "count" \in Pcs /\ rows \in SUBSET Clients
    BY <1>6 DEF Pcs
  <2>1. [req[r] EXCEPT !.pc = "count", !.rows = rows] \in Request
    BY <1>1, <2>0, Zenon DEF Request
  <2>. QED BY <1>4, <2>1 DEF Good, Types
<1>8. /\ req'[r] = q
      /\ q.pc = "count" /\ q.rows = rows /\ q.answer = None
      /\ q.tenant = req[r].tenant /\ q.page = req[r].page /\ q.found = req[r].found
  BY <1>1, <1>7 DEF Good, Types, Request
<1>9. Prepared(r)' /\ ReadOwn(r)'
  BY <1>1, <1>5, <1>6, <1>8
  DEF Prepared, ReadOwn, FoundOf, ClientExists, ClientPcs, ProjectPcs, CodePcs
<1>10. PageKept(r)'
  <2>1. FindClients(CountWhere(r))' = FindClients(where)
    BY <1>5, <1>8 DEF FindClients, CountWhere, ListWhere, ClientExists, where
  <2>. QED BY <1>4, <1>8, <2>1, NoAnswer DEF PageKept
<1>. QED BY <1>1, <1>5, <1>7, <1>8, <1>9, <1>10, NoAnswer, Alone DEF Good, Types
LEMMA CountStep ==
  ASSUME Good, NEW r \in Requests, Count(r)
  PROVE  Good'
<1>. DEFINE where == CountWhere(r)
<1>1. /\ Prepared(r) /\ ReadOwn(r) /\ PageKept(r) /\ req[r].pc = "count"
      /\ req[r].tenant \in Tenants /\ r \notin exempt /\ req[r] \in Request
  BY DEF Good, Types, Count, Prepared
<1>2. WhereConstrainsTenant(where)
  BY <1>1, SearchClause DEF CountWhere, ListWhere
<1>3. Runs(r, "Client", "count", where, {})
  BY <1>2, StatementRuns DEF DataOperations
<1>. DEFINE total == Cardinality(FindClients(where))
            counted == [req[r] EXCEPT !.pc = "answered", !.answer = "LIST", !.total = total]
<1>4. total \in {Cardinality(rows) : rows \in SUBSET Clients}
  BY DEF FindClients
<1>. HIDE DEF where
<1>5. /\ req' = [req EXCEPT ![r].pc = "answered", ![r].answer = "LIST", ![r].total = total]
      /\ UNCHANGED <<client, project, removals, exempt, crossed>>
  BY <1>3 DEF Count, Statement, where, tables
<1>6. r \notin crossed => Cardinality(req[r].rows) = OnPage(req[r].page, total)
  BY <1>1 DEF PageKept, where
<1>. HIDE DEF total
<1>7. PICK q \in Request : req' = [req EXCEPT ![r] = q] /\ q = counted
  <2>1. counted \in Request
    BY <1>1, <1>4 DEF Request, Pcs, Answers
  <2>. QED BY <1>5, <2>1 DEF Good, Types
<1>8. /\ req'[r] = q
      /\ q.pc = "answered" /\ q.rows = req[r].rows /\ q.answer = "LIST" /\ q.total = total
      /\ q.tenant = req[r].tenant /\ q.page = req[r].page
  BY <1>1, <1>7 DEF Good, Types, Request
<1>9. Prepared(r)' /\ ReadOwn(r)'
  BY <1>1, <1>5, <1>8
  DEF Prepared, ReadOwn, FoundOf, ClientExists, ClientPcs, ProjectPcs, CodePcs
<1>10. PageKept(r)'
  BY <1>5, <1>6, <1>8 DEF PageKept
<1>. QED BY <1>1, <1>5, <1>7, <1>8, <1>9, <1>10, Alone DEF Good, Types

(* Of the clauses another service sends, the middleware runs only the one with the
   tenant. *)
LEMMA OtherClauseRuns ==
  ASSUME NEW tenant \in Tenants, NEW where \in OtherClauses(tenant),
         WhereConstrainsTenant(where)
  PROVE  where = Key("tenantId", tenant)
<1>1. ~WhereConstrainsTenant({})
  BY DEF WhereConstrainsTenant, ConstrainsGiven
<1>2. ~ConstrainsNested({})
  BY DEF ConstrainsNested, ConstrainsGiven
<1>3. ~WhereConstrainsTenant(Key("OR", {Key("tenantId", tenant), {}}))
  BY <1>2 DEF WhereConstrainsTenant, ConstrainsGiven, Key, TenantKeys
<1>. QED BY <1>1, <1>3 DEF OtherClauses

LEMMA OtherQueryStep ==
  ASSUME Good, NEW r \in Requests, NEW tenant \in Tenants, OtherQuery(r, tenant)
  PROVE  Good'
<1>. DEFINE request == [Idle EXCEPT !.pc = "answered", !.tenant = tenant]
<1>1. /\ req[r].pc = "idle" /\ r \notin exempt
      /\ UNCHANGED <<client, project, removals, exempt, crossed>>
      /\ exempt \subseteq Requests /\ crossed \subseteq Requests
  BY DEF OtherQuery, tables, Good, Types, Prepared
<1>0. /\ request \in Request
      /\ request.pc = "answered" /\ request.tenant = tenant /\ request.rows = {}
  BY IdleTyped DEF Request, Pcs
<1>2. PICK where \in OtherClauses(tenant) :
        req' = [req EXCEPT ![r] =
          IF Runs(r, "Client", "findMany", where, {})
          THEN [request EXCEPT !.answer = "ROWS", !.rows = FindClients(where)]
          ELSE [request EXCEPT !.answer = "MISSING_SCOPE"]]
  BY Zenon DEF OtherQuery
<1>3. ASSUME Runs(r, "Client", "findMany", where, {})
      PROVE  FindClients(where) \subseteq {c \in Clients : FoundOf(tenant, c)}
  <2>1. WhereConstrainsTenant(where)
    BY <1>1, <1>3
    DEF Runs, MayRun, IsUnscoped, AssertTenantScope, TenantScopedModels, WhereOperations
  <2>2. \A row : Matches(row, where) => row.tenant = tenant
    BY <2>1, OtherClauseRuns, TenantClause
  <2>. QED BY <2>2, ShownFound
<1>. HIDE DEF request
<1>4. PICK q \in Request :
        /\ req' = [req EXCEPT ![r] = q]
        /\ q.pc = "answered" /\ q.tenant = tenant /\ q.answer \in {"ROWS", "MISSING_SCOPE"}
        /\ q.rows \subseteq {c \in Clients : FoundOf(tenant, c)}
  <2>1. CASE Runs(r, "Client", "findMany", where, {})
    <3>. DEFINE shown == [request EXCEPT !.answer = "ROWS", !.rows = FindClients(where)]
    <3>1. shown \in Request
      BY <1>0, <1>3, <2>1 DEF Request, Answers
    <3>2. /\ shown.pc = "answered" /\ shown.tenant = tenant /\ shown.answer = "ROWS"
          /\ shown.rows = FindClients(where)
      BY <1>0 DEF Request
    <3>. QED BY <1>2, <1>3, <2>1, <3>1, <3>2
  <2>2. CASE ~Runs(r, "Client", "findMany", where, {})
    <3>. DEFINE shown == [request EXCEPT !.answer = "MISSING_SCOPE"]
    <3>1. shown \in Request
      BY <1>0 DEF Request, Answers
    <3>2. /\ shown.pc = "answered" /\ shown.tenant = tenant /\ shown.answer = "MISSING_SCOPE"
          /\ shown.rows = {}
      BY <1>0 DEF Request
    <3>. QED BY <1>2, <2>2, <3>1, <3>2
  <2>. QED BY <2>1, <2>2
<1>5. req'[r] = q
  BY <1>4 DEF Good, Types
<1>6. Prepared(r)' /\ ReadOwn(r)' /\ PageKept(r)'
  BY <1>1, <1>4, <1>5
  DEF Prepared, ReadOwn, PageKept, FoundOf, ClientExists, ClientPcs, ProjectPcs, CodePcs
<1>. QED BY <1>1, <1>4, <1>6, Alone

LEMMA AuditedRemovalStep ==
  ASSUME Good, NEW r \in Requests, NEW x \in Clients \cup Projects, AuditedRemoval(r, x)
  PROVE  Good'
<1>1. /\ Removes(r, x) /\ req[r].pc = "auditRemoval" /\ Respond(r, "OK")
      /\ UNCHANGED <<client, project, exempt, crossed>>
      /\ \/ removals' = [removals EXCEPT ![x] = @ + 1]
         \/ UNCHANGED removals
  BY DEF AuditedRemoval, Removes, tables
<1>2. Goes(r, "answered", "OK") /\ Ready(r, "answered", "OK")
  BY <1>1, GoGoes DEF Good, Ready, Pcs, ClientPcs, ProjectPcs, CodePcs, Answers
<1>3. removals[x] = 0
  BY <1>1 DEF Good, RemovalsOK
<1>4. /\ removals'[x] \in {0, 1}
      /\ \A y \in (Clients \cup Projects) \ {x} : removals'[y] = removals[y]
      /\ removals' \in [Clients \cup Projects -> Nat]
  BY <1>1, <1>3 DEF Good, Types
<1>5. Types' /\ RowsPersist
  <2>1. req' \in [Requests -> Request]
    BY <1>2, RequestsTyped DEF Ready
  <2>. QED BY <1>1, <1>4, <2>1 DEF Good, Types, RowsPersist
<1>6. LosersAreTold' /\ \A u \in Requests : Prepared(u)' /\ ReadOwn(u)' /\ PageKept(u)'
  <2>1. client' = client /\ crossed \subseteq crossed' /\ exempt' = exempt
    BY <1>1
  <2>. QED BY <1>1, <1>2, <1>5, <2>1, Mover
<1>7. ProjectHasClient' /\ CodesUnique'
  BY <1>1 DEF Good, ProjectHasClient, CodesUnique, ProjectExists, ClientExists
<1>8. RemovalsOK'
  <2>1. \A u \in Requests : \A y : Removes(u, y)' <=> u # r /\ Removes(u, y)
    BY <1>2, GoesOn DEF Good, Removes
  <2>2. \A u \in Requests : req'[u].pc = "auditRemoval" => req[u].pc = "auditRemoval" /\ u # r
    BY <1>2, GoesOn DEF Good
  <2>3. \A u \in Requests \ {r} : ~Removes(u, x)
    BY <1>1 DEF Good, RemovalsOK
  <2>4. IsGone(x)
    BY <1>1 DEF Good, RemovalsOK
  <2>5. \A y \in Clients \cup Projects : IsGone(y)' <=> IsGone(y)
    BY <1>1 DEF IsGone
  <2>. QED BY <1>4, <2>1, <2>2, <2>3, <2>4, <2>5 DEF Good, RemovalsOK
<1>. QED BY <1>5, <1>6, <1>7, <1>8 DEF Good
-----------------------------------------------------------------------------
(* The theorems *)

LEMMA GoodInit == Init => Good
<1>. SUFFICES ASSUME Init PROVE Good
  OBVIOUS
<1>1. Types
  BY IdleTyped DEF Init, Types
<1>2. \A r \in Requests : req[r] = Idle
  BY DEF Init
<1>3. \A r \in Requests : Prepared(r) /\ ReadOwn(r) /\ PageKept(r)
  BY <1>2, IdleTyped, NoAnswer
  DEF Init, Prepared, ReadOwn, PageKept, ClientPcs, ProjectPcs, CodePcs
<1>4. LosersAreTold
  BY <1>2, IdleTyped, NoAnswer DEF LosersAreTold
<1>5. ProjectHasClient /\ CodesUnique
  BY DEF Init, ProjectHasClient, CodesUnique, ProjectExists
<1>6. RemovalsOK
  <2>1. \A r \in Requests : \A x : req[r].pc # "auditRemoval" /\ ~Removes(r, x)
    BY <1>2, IdleTyped DEF Removes
  <2>. QED BY <2>1 DEF Init, RemovalsOK
<1>. QED BY <1>1, <1>3, <1>4, <1>5, <1>6 DEF Good

LEMMA GoodStutter ==
  ASSUME Good, UNCHANGED vars
  PROVE  Good'
<1>. USE DEF vars
<1>1. Types'
  BY DEF Good, Types
<1>2. \A r \in Requests : Prepared(r)' /\ ReadOwn(r)'
  BY Zenon DEF Good, Prepared, ReadOwn, FoundOf, ClientExists
<1>3. \A r \in Requests : PageKept(r)'
  BY Zenon DEF Good, PageKept, FindClients, ClientExists, CountWhere, ListWhere
<1>4. LosersAreTold' /\ ProjectHasClient' /\ CodesUnique' /\ RemovalsOK'
  BY DEF Good, LosersAreTold, ProjectHasClient, CodesUnique, ProjectExists, ClientExists,
         RemovalsOK, Removes, IsGone
<1>. QED BY <1>1, <1>2, <1>3, <1>4 DEF Good

LEMMA GoodNext ==
  ASSUME Good, Next
  PROVE  Good'
<1>. PICK r \in Requests :
       \/ \E tenant \in Tenants : Start(r, tenant) \/ OtherQuery(r, tenant)
       \/ ClientStep(r) \/ ProjectStep(r) \/ ReadStep(r)
       \/ Audited(r) \/ Done(r)
       \/ \E x \in Clients \cup Projects : AuditedRemoval(r, x)
  BY DEF Next
<1>1. CASE \E tenant \in Tenants : Start(r, tenant) \/ OtherQuery(r, tenant)
  BY <1>1, StartStep, OtherQueryStep
<1>2. CASE ClientStep(r)
  BY <1>2, CreateClientStep, FindClientStep, UpdateClientStep, DeleteClientStep DEF ClientStep
<1>3. CASE ProjectStep(r)
  BY <1>3, FindClientStep, FindCodeStep, FindProjectStep, CreateProjectStep, UpdateProjectStep,
     DeleteProjectStep DEF ProjectStep
<1>4. CASE ReadStep(r)
  BY <1>4, FindManyStep, CountStep, UnscopedStep DEF ReadStep
<1>5. CASE Audited(r) \/ Done(r)
  BY <1>5, AuditedStep, DoneStep
<1>6. CASE \E x \in Clients \cup Projects : AuditedRemoval(r, x)
  BY <1>6, AuditedRemovalStep
<1>. QED BY <1>1, <1>2, <1>3, <1>4, <1>5, <1>6

LEMMA AlwaysGood == Spec => []Good
<1>1. Good /\ [Next]_vars => Good'
  BY GoodNext, GoodStutter
<1>. QED BY <1>1, GoodInit, PTL DEF Spec

(* Every row keeps its shape, and a request of client.service.ts or project.service.ts the
   tenant its statements name. *)
THEOREM TypeCorrect == Spec => []TypeOK
<1>1. Good => TypeOK
  BY DEF Good, Types, Prepared, TypeOK, ClientRow, Tenantless
<1>. QED BY <1>1, AlwaysGood, PTL

(* However ClientService.remove and ProjectService.create interleave, a project has a
   client, and one of its own tenant: the foreign key covers what the two services read
   before they write. *)
THEOREM ProjectsHaveClients == Spec => []ProjectHasClient
<1>1. Good => ProjectHasClient
  BY DEF Good
<1>. QED BY <1>1, AlwaysGood, PTL

(* The unique index keeps codes unique in a tenant although ProjectService checks and
   writes in two statements. *)
THEOREM CodesStayUnique == Spec => []CodesUnique
<1>1. Good => CodesUnique
  BY DEF Good
<1>. QED BY <1>1, AlwaysGood, PTL

(* A request of the two services that loses a race is told so by the exception filter,
   never with a server error, and the tenant-scope middleware refuses none of their
   statements. *)
THEOREM LosersTold == Spec => []LosersAreTold
<1>1. Good => LosersAreTold
  BY DEF Good
<1>. QED BY <1>1, AlwaysGood, PTL

(* No request is shown a client of another tenant: neither the lists of ClientService nor
   a query of another service that forgot its tenant, whatever runs in unscoped(). *)
THEOREM OwnRows == Spec => []OwnRowsOnly
<1>1. Good => OwnRowsOnly
  BY ScopeIsSound DEF Good, ReadOwn, FoundOf, OwnRowsOnly
<1>. QED BY <1>1, AlwaysGood, PTL

(* A page of ClientService.list agrees with the total beside it, unless another request
   wrote between its two statements. *)
THEOREM PagesFit == Spec => []PageFits
<1>1. Good => PageFits
  BY DEF Good, PageKept, PageFits
<1>. QED BY <1>1, AlwaysGood, PTL

(* Of the requests that remove one row one at most audits the removal, and the row is
   gone. *)
THEOREM RemovedAtMostOnce == Spec => []RemovedOnce
<1>1. Good => RemovedOnce
  BY DEF Good, RemovalsOK, RemovedOnce, IsGone
<1>. QED BY <1>1, AlwaysGood, PTL


=============================================================================
