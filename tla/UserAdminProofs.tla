--------------------------- MODULE UserAdminProofs ---------------------------
(***************************************************************************)
(* Theorems about UserAdmin for every tenant, whoever its administrators   *)
(* are and however many requests they send.                                *)
(***************************************************************************)
EXTENDS UserAdmin, TLAPS

\* Types, what requests hold, and roles.
Good == TypeOK /\ RequestsOK /\ NeverWithoutRole

\* The inductive invariant under SuperAdminUnlessOverlap.
Strong == Good /\ DecisionsOK

-----------------------------------------------------------------------------
(* Facts about the data *)

(* The three keys the guards and the initial roles name are role keys. *)
LEMMA KeysKnown == {"SUPER_ADMIN", "ADMIN", "VIEWER"} \subseteq RoleKeys
BY DEF RoleKeys, Rank

(* A free slot is well-typed. *)
LEMMA IdleType == Idle \in Request
BY DEF Idle, Request, Steps

(* Every slot holds a request, and every user some well-typed rows. *)
LEMMA Fields ==
  ASSUME TypeOK, NEW r \in Requests, NEW u \in Users
  PROVE  /\ req[r] \in Request
         /\ RolesOf(u) \subseteq RoleKeys
<1>1. req[r] \in Request
  BY DEF TypeOK
<1>2. assignments[u] \in SUBSET (RoleKeys \X (0 .. MaxChanges))
  BY DEF TypeOK
<1>3. RolesOf(u) \subseteq RoleKeys
  BY <1>2 DEF RolesOf, KeysOf
<1>. QED BY <1>1, <1>3

(* Finishing a request leaves every other slot as it was. *)
LEMMA FinishFrees ==
  ASSUME TypeOK, NEW r \in Requests, Finish(r)
  PROVE  /\ req' \in [Requests -> Request]
         /\ req'[r] = Idle
         /\ \A o \in Requests \ {r} : req'[o] = req[o]
<1>. DEFINE idle == Idle
<1>1. idle \in Request
  BY IdleType
<1>2. req' = [req EXCEPT ![r] = idle] /\ req \in [Requests -> Request]
  BY DEF Finish, TypeOK
<1>. HIDE DEF idle
<1>3. /\ req' \in [Requests -> Request]
      /\ req'[r] = idle
      /\ \A o \in Requests \ {r} : req'[o] = req[o]
  BY <1>1, <1>2
<1>. QED BY <1>3 DEF idle

-----------------------------------------------------------------------------
(* Types, what requests hold, and roles *)

(* Nothing is wrong at first: every user has one role and every slot is free. *)
LEMMA GoodInit == Init => Good
<1>. SUFFICES ASSUME Init PROVE Good
  OBVIOUS
<1>1. \A u \in Users : InitialRole(u) \in RoleKeys
  BY KeysKnown DEF InitialRole
<1>2. TypeOK
  <2>1. 0 \in 0 .. MaxChanges
    BY UsersAssumption
  <2>2. \A u \in Users : {<<InitialRole(u), 0>>} \in SUBSET (RoleKeys \X (0 .. MaxChanges))
    BY <1>1, <2>1
  <2>3. assignments \in [Users -> SUBSET (RoleKeys \X (0 .. MaxChanges))]
    BY <2>2 DEF Init
  <2>4. req \in [Requests -> Request]
    BY IdleType DEF Init
  <2>. QED BY <2>1, <2>3, <2>4 DEF Init, TypeOK
<1>3. RequestsOK
  BY DEF Init, RequestsOK, RequestOK, Idle
<1>4. NeverWithoutRole
  BY DEF Init, NeverWithoutRole
<1>. QED BY <1>2, <1>3, <1>4 DEF Good

(* A step that changes nothing but slot r, and leaves a good request in it. *)
LEMMA GoodSlot ==
  ASSUME Good, NEW r \in Requests, NEW q \in Request,
         req' = [req EXCEPT ![r] = q],
         q.pc # "idle" => q.target \in Users /\ q.op # "none",
         q.pc = "update" => q.op = "status",
         q.pc \in {"delete", "create"} => q.op = "roles",
         q.pc # "idle" /\ q.op = "roles" => q.roles # {},
         UNCHANGED <<active, assignments, changes>>, overlapped' \in BOOLEAN
  PROVE  Good'
<1>1. TypeOK'
  BY DEF Good, TypeOK
<1>2. \A o \in Requests : req'[o] = IF o = r THEN q ELSE req[o]
  BY DEF Good, TypeOK
<1>3. RequestsOK'
  BY <1>2 DEF Good, RequestsOK, RequestOK
<1>4. NeverWithoutRole'
  BY DEF Good, NeverWithoutRole
<1>. QED BY <1>1, <1>3, <1>4 DEF Good

(* A step that frees slot r keeps what the requests hold. *)
LEMMA GoodFinish ==
  ASSUME Good, NEW r \in Requests, Finish(r)
  PROVE  /\ req' \in [Requests -> Request]
         /\ RequestsOK'
<1>1. /\ req' \in [Requests -> Request]
      /\ req'[r] = Idle
      /\ \A o \in Requests \ {r} : req'[o] = req[o]
  BY FinishFrees DEF Good
<1>2. RequestsOK'
  BY <1>1 DEF Good, RequestsOK, RequestOK, Idle
<1>. QED BY <1>1, <1>2

(* The commit of a role change writes well-typed rows and at least one. *)
LEMMA CreateRolesRows ==
  ASSUME Good, NEW r \in Requests, CreateRoles(r)
  PROVE  /\ assignments' \in [Users -> SUBSET (RoleKeys \X (0 .. MaxChanges))]
         /\ changes' \in 0 .. MaxChanges
         /\ NeverWithoutRole'
<1> DEFINE u == req[r].target
           added == {<<role, changes + 1>> : role \in req[r].roles}
           kept == assignments[u] \ req[r].rows
<1>1. /\ req[r] \in Request
      /\ u \in Users
      /\ req[r].pc = "create"
      /\ req[r].roles # {}
      /\ req[r].roles \subseteq RoleKeys
  BY DEF Good, TypeOK, RequestsOK, RequestOK, CreateRoles, Request
<1>2. changes + 1 \in 0 .. MaxChanges
  BY UsersAssumption DEF CreateRoles, Good, TypeOK
<1>3. added \subseteq RoleKeys \X (0 .. MaxChanges) /\ added # {}
  <2>1. \A role \in req[r].roles : <<role, changes + 1>> \in RoleKeys \X (0 .. MaxChanges)
    BY <1>1, <1>2
  <2>2. PICK role \in req[r].roles : TRUE
    BY <1>1
  <2>3. <<role, changes + 1>> \in added
    BY <2>2
  <2>. QED BY <2>1, <2>3
<1>4. kept \subseteq RoleKeys \X (0 .. MaxChanges)
  BY <1>1 DEF Good, TypeOK
<1>5. CASE /\ assignments' = [assignments EXCEPT ![u] = kept \cup added]
           /\ changes' = changes + 1
  <2>1. kept \cup added \in SUBSET (RoleKeys \X (0 .. MaxChanges))
    BY <1>3, <1>4
  <2>2. assignments' \in [Users -> SUBSET (RoleKeys \X (0 .. MaxChanges))]
    BY <1>5, <2>1 DEF Good, TypeOK
  <2>3. \A v \in Users : assignments'[v] = IF v = u THEN kept \cup added ELSE assignments[v]
    BY <1>5 DEF Good, TypeOK
  <2>4. NeverWithoutRole'
    BY <1>3, <2>3 DEF Good, NeverWithoutRole
  <2>. QED BY <1>2, <1>5, <2>2, <2>4
<1>6. CASE UNCHANGED <<assignments, changes>>
  BY <1>6 DEF Good, TypeOK, NeverWithoutRole
<1>. QED BY <1>5, <1>6 DEF CreateRoles

(* No step spoils the types, what the requests hold, or the users' roles. *)
LEMMA GoodStep == Good /\ [Next]_vars => Good'
<1>. SUFFICES ASSUME Good, [Next]_vars PROVE Good'
  OBVIOUS
<1>0. CASE UNCHANGED vars
  BY <1>0 DEF vars, Good, TypeOK, RequestsOK, RequestOK, NeverWithoutRole
<1>. SUFFICES ASSUME NEW r \in Requests,
                     \/ \E actor, target \in Users :
                          \/ \E enable \in BOOLEAN : BeginUpdate(r, actor, target, enable)
                          \/ \E roles \in SUBSET AssignableRoles :
                               BeginAssign(r, actor, target, roles)
                     \/ LoadTarget(r)
                     \/ CountSuperAdmins(r)
                     \/ UpdateStatus(r)
                     \/ DeleteRoles(r)
                     \/ CreateRoles(r)
                     \/ Fail(r)
              PROVE  Good'
  BY <1>0 DEF Next
<1>. req[r] \in Request /\ RequestOK(r) /\ TypeOK /\ overlapped \in BOOLEAN
  BY DEF Good, TypeOK, RequestsOK
<1>1. ASSUME NEW actor \in Users, NEW target \in Users, NEW enable \in BOOLEAN,
             BeginUpdate(r, actor, target, enable)
      PROVE  Good'
  <2> DEFINE q == [Idle EXCEPT !.pc = "load", !.op = "status", !.actor = actor,
                               !.actorRoles = RolesOf(actor), !.target = target,
                               !.enable = enable]
  <2>1. RolesOf(actor) \subseteq RoleKeys
    BY Fields
  <2>2. q \in Request /\ q.pc = "load" /\ q.op = "status" /\ q.target = target
    BY <2>1, IdleType DEF Request, Steps, Idle
  <2>3. req' = [req EXCEPT ![r] = q] /\ UNCHANGED <<active, assignments, changes, overlapped>>
    BY <1>1, Zenon DEF BeginUpdate
  <2>. HIDE DEF q
  <2>. QED BY <2>2, <2>3, GoodSlot
<1>2. ASSUME NEW actor \in Users, NEW target \in Users, NEW roles \in SUBSET AssignableRoles,
             BeginAssign(r, actor, target, roles)
      PROVE  Good'
  <2> DEFINE q == [Idle EXCEPT !.pc = "load", !.op = "roles", !.actor = actor,
                               !.actorRoles = RolesOf(actor), !.target = target,
                               !.roles = roles]
  <2>1. RolesOf(actor) \subseteq RoleKeys /\ roles \subseteq RoleKeys
    BY Fields, UsersAssumption
  <2>2. q \in Request /\ q.pc = "load" /\ q.op = "roles" /\ q.target = target /\ q.roles = roles
    BY <2>1, IdleType DEF Request, Steps, Idle
  <2>3. /\ req' = [req EXCEPT ![r] = q] /\ roles # {}
        /\ UNCHANGED <<active, assignments, changes, overlapped>>
    BY <1>2, Zenon DEF BeginAssign
  <2>. HIDE DEF q
  <2>. QED BY <2>2, <2>3, GoodSlot
<1>3. CASE LoadTarget(r)
  <2> DEFINE write == IF req[r].op = "status" THEN "update" ELSE "delete"
             next == IF TakesSuperAdmin(req[r]) THEN "count" ELSE write
             read == IF req[r].op = "roles" THEN RolesOf(req[r].target) ELSE {}
             q == [req[r] EXCEPT !.pc = next, !.previous = read]
  <2>1. /\ req[r].pc = "load" /\ UNCHANGED <<active, assignments, changes>>
        /\ overlapped' \in BOOLEAN
    BY <1>3 DEF LoadTarget
  <2>2. CASE Permitted(req[r])
    <3>1. req' = [req EXCEPT ![r] = q]
      BY <1>3, <2>2 DEF LoadTarget
    <3>2. /\ q.pc = next /\ q.op = req[r].op /\ q.target = req[r].target
          /\ q.roles = req[r].roles
      BY DEF Request
    <3>3. next \in {"count", "update", "delete"} /\ q \in Request
      <4>1. read \subseteq RoleKeys
        BY <2>1, Fields DEF RequestOK
      <4>. HIDE DEF read
      <4>. QED BY <4>1 DEF Request, Steps
    <3>4. next = "update" => req[r].op = "status"
      OBVIOUS
    <3>5. req[r].op \in {"status", "roles", "none"}
      BY DEF Request
    <3>6. req[r].op # "none"
      BY <2>1 DEF RequestOK
    <3>7. next = "delete" => req[r].op = "roles"
      BY <3>5, <3>6
    <3>. HIDE DEF q, next
    <3>. QED BY <2>1, <3>1, <3>2, <3>3, <3>4, <3>7, GoodSlot DEF RequestOK
  <2>3. CASE ~Permitted(req[r])
    <3>1. Finish(r)
      BY <1>3, <2>3 DEF LoadTarget
    <3>. QED BY <2>1, <3>1, GoodFinish DEF Good, TypeOK, NeverWithoutRole
  <2>. QED BY <2>2, <2>3
<1>4. CASE CountSuperAdmins(r)
  <2> DEFINE next == IF req[r].op = "status" THEN "update" ELSE "delete"
             q == [req[r] EXCEPT !.pc = next]
  <2>1. /\ req[r].pc = "count"
        /\ UNCHANGED <<active, assignments, changes, overlapped>>
    BY <1>4 DEF CountSuperAdmins
  <2>2. CASE OtherSuperAdmins(req[r].target) # {}
    <3>1. req' = [req EXCEPT ![r] = q]
      BY <1>4, <2>2 DEF CountSuperAdmins
    <3>2. /\ q.pc = next /\ q.op = req[r].op /\ q.target = req[r].target
          /\ q.roles = req[r].roles
      BY DEF Request
    <3>3. next \in {"update", "delete"} /\ q \in Request
      BY DEF Request, Steps
    <3>4. next = "update" => req[r].op = "status"
      OBVIOUS
    <3>5. next = "delete" => req[r].op = "roles"
      BY <2>1 DEF Request, RequestOK
    <3>. HIDE DEF q, next
    <3>. QED BY <2>1, <3>1, <3>2, <3>3, <3>4, <3>5, GoodSlot DEF RequestOK
  <2>3. CASE OtherSuperAdmins(req[r].target) = {}
    <3>1. Finish(r)
      BY <1>4, <2>3 DEF CountSuperAdmins
    <3>. QED BY <2>1, <3>1, GoodFinish DEF Good, TypeOK, NeverWithoutRole
  <2>. QED BY <2>2, <2>3
<1>5. CASE UpdateStatus(r)
  <2>1. Finish(r) /\ UNCHANGED <<assignments, changes, overlapped>>
    BY <1>5 DEF UpdateStatus
  <2>2. active' \in [Users -> BOOLEAN]
    BY <1>5 DEF UpdateStatus, TypeOK, Request, RequestOK
  <2>. QED BY <2>1, <2>2, GoodFinish DEF Good, TypeOK, NeverWithoutRole
<1>6. CASE DeleteRoles(r)
  <2> DEFINE q == [req[r] EXCEPT !.pc = "create", !.rows = assignments[req[r].target]]
  <2>1. /\ req' = [req EXCEPT ![r] = q] /\ req[r].pc = "delete"
        /\ UNCHANGED <<active, assignments, changes, overlapped>>
    BY <1>6 DEF DeleteRoles
  <2>2. assignments[req[r].target] \in SUBSET (RoleKeys \X (0 .. MaxChanges))
    BY <2>1 DEF TypeOK, RequestOK
  <2>3. /\ q \in Request /\ q.pc = "create" /\ q.op = req[r].op
        /\ q.target = req[r].target /\ q.roles = req[r].roles
    BY <2>2 DEF Request, Steps
  <2>. HIDE DEF q
  <2>. QED BY <2>1, <2>3, GoodSlot DEF RequestOK
<1>7. CASE CreateRoles(r)
  <2>1. Finish(r) /\ UNCHANGED <<active, overlapped>>
    BY <1>7 DEF CreateRoles
  <2>. QED BY <1>7, <2>1, GoodFinish, CreateRolesRows DEF Good, TypeOK
<1>8. CASE Fail(r)
  <2>1. Finish(r) /\ UNCHANGED <<active, assignments, changes, overlapped>>
    BY <1>8 DEF Fail
  <2>. QED BY <2>1, GoodFinish DEF Good, TypeOK, NeverWithoutRole
<1>. QED BY <1>1, <1>2, <1>3, <1>4, <1>5, <1>6, <1>7, <1>8

(* State and actions are well-typed for every set of users and requests: the *)
(* data UserService keeps in users and user_roles.                           *)
THEOREM TypeCorrect == Spec => []TypeOK
<1>1. Good => TypeOK
  BY DEF Good
<1>. QED BY GoodInit, GoodStep, <1>1, PTL DEF Spec

(* Whatever requests overlap, fail or collide in assignRoles, no user is ever *)
(* left without a role.                                                       *)
THEOREM RolesKept == Spec => []NeverWithoutRole
<1>1. Good => NeverWithoutRole
  BY DEF Good
<1>. QED BY GoodInit, GoodStep, <1>1, PTL DEF Spec

-----------------------------------------------------------------------------
(* The last Super Admin *)

(* At first nobody decides, and there is a Super Admin. *)
LEMMA DecisionsInit == Init => DecisionsOK
<1>. SUFFICES ASSUME Init PROVE DecisionsOK
  OBVIOUS
<1>1. OneDecides /\ \A r \in Requests : ~WillTake(req[r])
  BY DEF Init, OneDecides, Deciding, WillTake, Idle
<1>2. PICK u \in SuperAdmins : u \in Users
  BY UsersAssumption
<1>3. InitialRole(u) = "SUPER_ADMIN"
  BY DEF InitialRole
<1>4. assignments[u] = {<<"SUPER_ADMIN", 0>>} /\ active[u] = TRUE
  BY <1>2, <1>3 DEF Init
<1>5. "SUPER_ADMIN" \in RolesOf(u)
  BY <1>4 DEF RolesOf, KeysOf
<1>6. SuperAdminActive(u)
  BY <1>4, <1>5 DEF SuperAdminActive
<1>. QED BY <1>1, <1>2, <1>6 DEF DecisionsOK

(* A step that changes nothing but slot r keeps the decisions sound when r is *)
(* the one that decides and leaves another Super Admin if it takes the role.  *)
LEMMA DecisionsSlot ==
  ASSUME TypeOK, DecisionsOK, NEW r \in Requests, NEW q \in Request,
         req' = [req EXCEPT ![r] = q],
         q.pc \in {"count", "update", "delete", "create"} => Deciding \subseteq {r},
         WillTake(q) => OtherSuperAdmins(q.target) # {},
         UNCHANGED <<active, assignments>>, overlapped' = FALSE => overlapped = FALSE
  PROVE  DecisionsOK'
<1>. SUFFICES ASSUME ~overlapped' PROVE DecisionsOK'
  BY DEF DecisionsOK
<1>1. ~overlapped
  BY DEF TypeOK
<1>2. \A o \in Requests : req'[o] = IF o = r THEN q ELSE req[o]
  BY DEF TypeOK
<1>3. \A u : SuperAdminActive(u)' <=> SuperAdminActive(u)
  BY DEF SuperAdminActive, RolesOf
<1>4. \A u : OtherSuperAdmins(u)' = OtherSuperAdmins(u)
  BY <1>3 DEF OtherSuperAdmins
<1>5. OneDecides'
  BY <1>1, <1>2 DEF DecisionsOK, OneDecides, Deciding
<1>6. ASSUME NEW o \in Requests, WillTake(req[o])'
      PROVE  OtherSuperAdmins(req[o].target)' # {}
  <2>1. WillTake(req'[o])
    BY <1>3, <1>6 DEF WillTake
  <2>2. OtherSuperAdmins(req'[o].target) # {}
    BY <1>1, <1>2, <2>1 DEF DecisionsOK
  <2>. QED BY <1>4, <2>2
<1>. QED BY <1>1, <1>3, <1>5, <1>6 DEF DecisionsOK

(* So does freeing a slot. *)
LEMMA DecisionsFinish ==
  ASSUME TypeOK, DecisionsOK, NEW r \in Requests, Finish(r),
         UNCHANGED <<active, assignments>>, overlapped' = FALSE => overlapped = FALSE
  PROVE  DecisionsOK'
<1>. DEFINE idle == Idle
<1>1. idle \in Request /\ req' = [req EXCEPT ![r] = idle] /\ idle.pc = "idle"
  BY IdleType DEF Finish, Idle
<1>. HIDE DEF idle
<1>2. ~WillTake(idle)
  BY <1>1 DEF WillTake
<1>. QED BY <1>1, <1>2, DecisionsSlot

(* A write frees the slot of the only request that decides: what is left to   *)
(* show is that somebody is still Super Admin.                                *)
LEMMA DecisionsWrite ==
  ASSUME TypeOK, DecisionsOK, NEW r \in Deciding, Finish(r), UNCHANGED overlapped,
         ~overlapped => \E u \in Users : SuperAdminActive(u)'
  PROVE  DecisionsOK'
<1>. SUFFICES ASSUME ~overlapped PROVE DecisionsOK'
  BY DEF DecisionsOK
<1>1. r \in Requests /\ \A o \in Deciding : o = r
  BY DEF DecisionsOK, OneDecides, Deciding
<1>2. /\ req'[r] = Idle
      /\ \A o \in Requests \ {r} : req'[o] = req[o]
  BY <1>1, FinishFrees
<1>3. \A o \in Requests : req'[o].pc \notin {"count", "update", "delete", "create"}
  BY <1>1, <1>2 DEF Deciding, Idle
<1>4. OneDecides' /\ \A o \in Requests : ~WillTake(req[o])'
  BY <1>3 DEF OneDecides, Deciding, WillTake
<1>. QED BY <1>4 DEF DecisionsOK

(* Whoever has the role and is not the target of a write keeps it, and when   *)
(* the write takes it from the target somebody else has it.                   *)
LEMMA SomebodyElse ==
  ASSUME DecisionsOK, ~overlapped, NEW r \in Requests,
         req[r].pc \in {"update", "delete", "create"},
         NEW Keeps, Keeps \/ WillTake(req[r]) \/ ~SuperAdminActive(req[r].target)
  PROVE  \E u \in Users : SuperAdminActive(u) /\ (u = req[r].target => Keeps)
<1>1. CASE WillTake(req[r])
  BY <1>1 DEF DecisionsOK, OtherSuperAdmins
<1>2. CASE ~WillTake(req[r])
  BY <1>2 DEF DecisionsOK
<1>. QED BY <1>1, <1>2

(* After the status is written somebody is Super Admin: enabling adds, and   *)
(* disabling one was counted to leave another.                               *)
LEMMA StatusWritten ==
  ASSUME Good, DecisionsOK, NEW r \in Requests, UpdateStatus(r), ~overlapped
  PROVE  \E u \in Users : SuperAdminActive(u)'
<1> DEFINE enable == req[r].enable
<1>1. /\ req[r].pc = "update" /\ req[r].op = "status"
      /\ active' = [active EXCEPT ![req[r].target] = enable]
      /\ assignments' = assignments
  BY DEF UpdateStatus, Good, RequestsOK, RequestOK
<1>2. enable \/ WillTake(req[r]) \/ ~SuperAdminActive(req[r].target)
  BY <1>1 DEF WillTake
<1>3. PICK u \in Users : SuperAdminActive(u) /\ (u = req[r].target => enable)
  BY <1>1, <1>2, SomebodyElse
<1>4. active'[u]
  BY <1>1, <1>3 DEF Good, TypeOK, SuperAdminActive
<1>5. "SUPER_ADMIN" \in RolesOf(u)'
  BY <1>1, <1>3 DEF SuperAdminActive, RolesOf
<1>. QED BY <1>4, <1>5 DEF SuperAdminActive

(* So is somebody after the roles are replaced: the target when it is granted *)
(* the role, and otherwise the one the count found.                           *)
LEMMA RolesWritten ==
  ASSUME Good, DecisionsOK, NEW r \in Requests, CreateRoles(r), ~overlapped
  PROVE  \E u \in Users : SuperAdminActive(u)'
<1> DEFINE t == req[r].target
           grants == "SUPER_ADMIN" \in req[r].roles
           added == {<<role, changes + 1>> : role \in req[r].roles}
           rows == (assignments[t] \ req[r].rows) \cup added
<1>1. req[r].pc = "create" /\ req[r].op = "roles" /\ active' = active
  BY DEF CreateRoles, Good, RequestsOK, RequestOK
<1>2. CASE assignments' = [assignments EXCEPT ![t] = rows]
  <2>1. grants \/ WillTake(req[r]) \/ ~SuperAdminActive(t)
    BY <1>1 DEF WillTake
  <2>2. PICK u \in Users : SuperAdminActive(u) /\ (u = t => grants)
    BY <1>1, <2>1, SomebodyElse
  <2>3. "SUPER_ADMIN" \in RolesOf(u)'
    <3>1. CASE u # t
      <4>1. assignments'[u] = assignments[u]
        BY <1>2, <3>1 DEF Good, TypeOK
      <4>. QED BY <2>2, <4>1 DEF SuperAdminActive, RolesOf
    <3>2. CASE u = t
      <4>1. <<"SUPER_ADMIN", changes + 1>> \in rows
        BY <2>2, <3>2
      <4>2. assignments'[u] = rows
        BY <1>2, <3>2 DEF Good, TypeOK
      <4>. HIDE DEF rows
      <4>3. "SUPER_ADMIN" \in KeysOf(rows)
        BY <4>1 DEF KeysOf
      <4>. QED BY <4>2, <4>3 DEF RolesOf
    <3>. QED BY <3>1, <3>2
  <2>. QED BY <1>1, <2>2, <2>3 DEF SuperAdminActive
<1>3. CASE assignments' = assignments
  BY <1>1, <1>3 DEF DecisionsOK, SuperAdminActive, RolesOf
<1>. QED BY <1>2, <1>3 DEF CreateRoles

(* No step lets a request take the role from the last one who has it, as long *)
(* as requests decide one at a time.                                          *)
LEMMA DecisionsStep == Good /\ DecisionsOK /\ [Next]_vars => DecisionsOK'
<1>. SUFFICES ASSUME Good, DecisionsOK, [Next]_vars PROVE DecisionsOK'
  OBVIOUS
<1>0. CASE UNCHANGED vars
  BY <1>0 DEF vars, DecisionsOK, OneDecides, Deciding, WillTake, OtherSuperAdmins,
              SuperAdminActive, RolesOf
<1>. SUFFICES ASSUME NEW r \in Requests,
                     \/ \E actor, target \in Users :
                          \/ \E enable \in BOOLEAN : BeginUpdate(r, actor, target, enable)
                          \/ \E roles \in SUBSET AssignableRoles :
                               BeginAssign(r, actor, target, roles)
                     \/ LoadTarget(r)
                     \/ CountSuperAdmins(r)
                     \/ UpdateStatus(r)
                     \/ DeleteRoles(r)
                     \/ CreateRoles(r)
                     \/ Fail(r),
                     ~overlapped'
              PROVE  DecisionsOK'
  BY <1>0 DEF Next, DecisionsOK
<1>. req[r] \in Request /\ RequestOK(r) /\ TypeOK /\ overlapped \in BOOLEAN
  BY DEF Good, TypeOK, RequestsOK
<1>1. ASSUME req[r].pc \in {"count", "update", "delete", "create"}, ~overlapped
      PROVE  r \in Deciding /\ Deciding \subseteq {r}
  BY <1>1 DEF DecisionsOK, OneDecides, Deciding
<1>2. ASSUME NEW actor \in Users, NEW target \in Users, NEW enable \in BOOLEAN,
             BeginUpdate(r, actor, target, enable)
      PROVE  DecisionsOK'
  <2> DEFINE q == [Idle EXCEPT !.pc = "load", !.op = "status", !.actor = actor,
                               !.actorRoles = RolesOf(actor), !.target = target,
                               !.enable = enable]
  <2>1. RolesOf(actor) \subseteq RoleKeys
    BY Fields
  <2>2. q \in Request /\ q.pc = "load"
    BY <2>1, IdleType DEF Request, Steps, Idle
  <2>3. req' = [req EXCEPT ![r] = q] /\ UNCHANGED <<active, assignments, overlapped>>
    BY <1>2, Zenon DEF BeginUpdate
  <2>. HIDE DEF q
  <2>4. ~WillTake(q)
    BY <2>2 DEF WillTake
  <2>. QED BY <2>2, <2>3, <2>4, DecisionsSlot
<1>3. ASSUME NEW actor \in Users, NEW target \in Users, NEW roles \in SUBSET AssignableRoles,
             BeginAssign(r, actor, target, roles)
      PROVE  DecisionsOK'
  <2> DEFINE q == [Idle EXCEPT !.pc = "load", !.op = "roles", !.actor = actor,
                               !.actorRoles = RolesOf(actor), !.target = target,
                               !.roles = roles]
  <2>1. RolesOf(actor) \subseteq RoleKeys /\ roles \subseteq RoleKeys
    BY Fields, UsersAssumption
  <2>2. q \in Request /\ q.pc = "load"
    BY <2>1, IdleType DEF Request, Steps, Idle
  <2>3. req' = [req EXCEPT ![r] = q] /\ UNCHANGED <<active, assignments, overlapped>>
    BY <1>3, Zenon DEF BeginAssign
  <2>. HIDE DEF q
  <2>4. ~WillTake(q)
    BY <2>2 DEF WillTake
  <2>. QED BY <2>2, <2>3, <2>4, DecisionsSlot
<1>4. CASE LoadTarget(r)
  <2> DEFINE write == IF req[r].op = "status" THEN "update" ELSE "delete"
             next == IF TakesSuperAdmin(req[r]) THEN "count" ELSE write
             read == IF req[r].op = "roles" THEN RolesOf(req[r].target) ELSE {}
             q == [req[r] EXCEPT !.pc = next, !.previous = read]
  <2>1. UNCHANGED <<active, assignments>> /\ ~overlapped
    BY <1>4 DEF LoadTarget
  <2>2. CASE Permitted(req[r])
    <3>1. req' = [req EXCEPT ![r] = q] /\ Deciding = {}
      BY <1>4, <2>2 DEF LoadTarget
    <3>2. /\ q \in Request /\ q.pc = next /\ q.op = req[r].op /\ q.enable = req[r].enable
          /\ q.target = req[r].target /\ q.roles = req[r].roles
      <4>1. read \subseteq RoleKeys
        BY <1>4, Fields DEF LoadTarget, Strong, Good, RequestsOK, RequestOK
      <4>. HIDE DEF read
      <4>. QED BY <4>1 DEF Request, Steps
    <3>3. ~WillTake(q)
      <4>1. next = "count" <=> TakesSuperAdmin(req[r])
        OBVIOUS
      <4>. HIDE DEF q, next
      <4>2. CASE TakesSuperAdmin(req[r])
        BY <3>2, <4>1, <4>2 DEF WillTake
      <4>3. CASE ~TakesSuperAdmin(req[r])
        BY <3>2, <4>3 DEF WillTake, TakesSuperAdmin, SuperAdminActive
      <4>. QED BY <4>2, <4>3
    <3>. HIDE DEF q
    <3>. QED BY <2>1, <3>1, <3>2, <3>3, DecisionsSlot
  <2>3. CASE ~Permitted(req[r])
    <3>1. Finish(r)
      BY <1>4, <2>3 DEF LoadTarget
    <3>. QED BY <2>1, <3>1, DecisionsFinish
  <2>. QED BY <2>2, <2>3
<1>5. CASE CountSuperAdmins(r)
  <2> DEFINE next == IF req[r].op = "status" THEN "update" ELSE "delete"
             q == [req[r] EXCEPT !.pc = next]
  <2>1. req[r].pc = "count" /\ UNCHANGED <<active, assignments>> /\ ~overlapped
    BY <1>5 DEF CountSuperAdmins
  <2>2. CASE OtherSuperAdmins(req[r].target) # {}
    <3>1. req' = [req EXCEPT ![r] = q]
      BY <1>5, <2>2 DEF CountSuperAdmins
    <3>2. q \in Request /\ q.target = req[r].target
      BY DEF Request, Steps
    <3>. HIDE DEF q
    <3>. QED BY <1>1, <2>1, <2>2, <3>1, <3>2, DecisionsSlot
  <2>3. CASE OtherSuperAdmins(req[r].target) = {}
    <3>1. Finish(r)
      BY <1>5, <2>3 DEF CountSuperAdmins
    <3>. QED BY <2>1, <3>1, DecisionsFinish
  <2>. QED BY <2>2, <2>3
<1>6. CASE UpdateStatus(r)
  <2>1. req[r].pc = "update" /\ Finish(r) /\ UNCHANGED overlapped
    BY <1>6 DEF UpdateStatus
  <2>. QED BY <1>1, <1>6, <2>1, StatusWritten, DecisionsWrite
<1>7. CASE DeleteRoles(r)
  <2> DEFINE q == [req[r] EXCEPT !.pc = "create", !.rows = assignments[req[r].target]]
  <2>1. /\ req' = [req EXCEPT ![r] = q] /\ req[r].pc = "delete"
        /\ UNCHANGED <<active, assignments, overlapped>>
    BY <1>7 DEF DeleteRoles
  <2>2. assignments[req[r].target] \in SUBSET (RoleKeys \X (0 .. MaxChanges))
    BY <2>1 DEF TypeOK, RequestOK
  <2>3. /\ q \in Request /\ q.op = req[r].op /\ q.enable = req[r].enable
        /\ q.target = req[r].target /\ q.roles = req[r].roles
    BY <2>2 DEF Request, Steps
  <2>. HIDE DEF q
  <2>4. WillTake(q) => OtherSuperAdmins(q.target) # {}
    BY <2>1, <2>3 DEF WillTake, DecisionsOK
  <2>. QED BY <1>1, <2>1, <2>3, <2>4, DecisionsSlot
<1>8. CASE CreateRoles(r)
  <2>1. req[r].pc = "create" /\ Finish(r) /\ UNCHANGED overlapped
    BY <1>8 DEF CreateRoles
  <2>. QED BY <1>1, <1>8, <2>1, RolesWritten, DecisionsWrite
<1>9. CASE Fail(r)
  <2>1. Finish(r) /\ UNCHANGED <<active, assignments, overlapped>>
    BY <1>9 DEF Fail
  <2>. QED BY <2>1, DecisionsFinish
<1>. QED BY <1>2, <1>3, <1>4, <1>5, <1>6, <1>7, <1>8, <1>9

(* The rule on assertNotLastSuperAdmin: as long as requests read their target *)
(* and write one at a time, an active user of the tenant is Super Admin.      *)
THEOREM SuperAdminKept == Spec => []SuperAdminUnlessOverlap
<1>1. Init => Strong
  BY GoodInit, DecisionsInit DEF Strong
<1>2. Strong /\ [Next]_vars => Strong'
  BY GoodStep, DecisionsStep DEF Strong
<1>3. Strong => SuperAdminUnlessOverlap
  BY DEF Strong, DecisionsOK, SuperAdminUnlessOverlap
<1>. QED BY <1>1, <1>2, <1>3, PTL DEF Spec

-----------------------------------------------------------------------------
(* What a role change may grant and take away *)

(* What a role change was let through on: what its target was read with and   *)
(* what it asks for are within its actor's rank.                              *)
PermittedOK ==
  \A r \in Deciding :
    req[r].op = "roles" =>
      /\ ~RanksAbove(req[r].previous, req[r].actorRoles)
      /\ \A role \in req[r].roles : CanManageRole(req[r].actorRoles, role)

(* A step that leaves slot r idle, loading, or with what it was let through on. *)
LEMMA PermittedSlot ==
  ASSUME PermittedOK, NEW r \in Requests, NEW q,
         req \in [Requests -> Request], req' = [req EXCEPT ![r] = q],
         \/ q.pc \in {"idle", "load"}
         \/ /\ r \in Deciding /\ q.op = req[r].op /\ q.previous = req[r].previous
            /\ q.actorRoles = req[r].actorRoles /\ q.roles = req[r].roles
         \/ q.op = "roles" =>
              /\ ~RanksAbove(q.previous, q.actorRoles)
              /\ \A role \in q.roles : CanManageRole(q.actorRoles, role)
  PROVE  PermittedOK'
<1>1. \A o \in Requests : req'[o] = IF o = r THEN q ELSE req[o]
  OBVIOUS
<1>. SUFFICES ASSUME NEW o \in Requests,
                     req'[o].pc \in {"count", "update", "delete", "create"},
                     req'[o].op = "roles"
              PROVE  /\ ~RanksAbove(req'[o].previous, req'[o].actorRoles)
                     /\ \A role \in req'[o].roles : CanManageRole(req'[o].actorRoles, role)
  BY Zenon DEF PermittedOK, Deciding
<1>2. CASE o = r
  <2>1. req'[o] = q
    BY <1>1, <1>2
  <2>. QED BY <1>2, <2>1 DEF PermittedOK
<1>3. CASE o # r
  <2>1. req'[o] = req[o] /\ o \in Deciding
    BY <1>1, <1>3 DEF Deciding
  <2>. QED BY <2>1 DEF PermittedOK
<1>. QED BY <1>2, <1>3

(* A request is let through on what it reads, and keeps it to the end. *)
LEMMA PermittedStep ==
  ASSUME Good, PermittedOK, [Next]_vars
  PROVE  PermittedOK'
<1>0. CASE UNCHANGED vars
  BY <1>0 DEF vars, PermittedOK, Deciding
<1>. SUFFICES ASSUME NEW r \in Requests,
                     \/ \E actor, target \in Users :
                          \/ \E enable \in BOOLEAN : BeginUpdate(r, actor, target, enable)
                          \/ \E roles \in SUBSET AssignableRoles :
                               BeginAssign(r, actor, target, roles)
                     \/ LoadTarget(r)
                     \/ CountSuperAdmins(r)
                     \/ UpdateStatus(r)
                     \/ DeleteRoles(r)
                     \/ CreateRoles(r)
                     \/ Fail(r)
              PROVE  PermittedOK'
  BY <1>0 DEF Next
<1>. req \in [Requests -> Request] /\ req[r] \in Request /\ RequestOK(r)
  BY DEF Good, TypeOK, RequestsOK
<1>1. ASSUME Finish(r)
      PROVE  PermittedOK'
  <2>. DEFINE idle == Idle
  <2>1. req' = [req EXCEPT ![r] = idle] /\ idle.pc = "idle"
    BY <1>1 DEF Finish, Idle
  <2>. HIDE DEF idle
  <2>. QED BY <2>1, PermittedSlot
<1>2. ASSUME NEW actor \in Users, NEW target \in Users, NEW enable \in BOOLEAN,
             BeginUpdate(r, actor, target, enable)
      PROVE  PermittedOK'
  <2>. DEFINE q == [Idle EXCEPT !.pc = "load", !.op = "status", !.actor = actor,
                                !.actorRoles = RolesOf(actor), !.target = target,
                                !.enable = enable]
  <2>1. req' = [req EXCEPT ![r] = q] /\ q.pc = "load"
    BY <1>2, Zenon DEF BeginUpdate, Idle
  <2>. HIDE DEF q
  <2>. QED BY <2>1, PermittedSlot
<1>3. ASSUME NEW actor \in Users, NEW target \in Users, NEW roles \in SUBSET AssignableRoles,
             BeginAssign(r, actor, target, roles)
      PROVE  PermittedOK'
  <2>. DEFINE q == [Idle EXCEPT !.pc = "load", !.op = "roles", !.actor = actor,
                                !.actorRoles = RolesOf(actor), !.target = target,
                                !.roles = roles]
  <2>1. req' = [req EXCEPT ![r] = q] /\ q.pc = "load"
    BY <1>3, Zenon DEF BeginAssign, Idle
  <2>. HIDE DEF q
  <2>. QED BY <2>1, PermittedSlot
<1>4. CASE LoadTarget(r)
  <2> DEFINE write == IF req[r].op = "status" THEN "update" ELSE "delete"
             next == IF TakesSuperAdmin(req[r]) THEN "count" ELSE write
             read == IF req[r].op = "roles" THEN RolesOf(req[r].target) ELSE {}
             q == [req[r] EXCEPT !.pc = next, !.previous = read]
  <2>1. CASE Permitted(req[r])
    <3>1. req' = [req EXCEPT ![r] = q]
      BY <1>4, <2>1 DEF LoadTarget
    <3>2. /\ q.op = req[r].op /\ q.previous = read /\ q.roles = req[r].roles
          /\ q.actorRoles = req[r].actorRoles
      BY DEF Request
    <3>3. req[r].op = "roles" =>
            /\ ~RanksAbove(read, req[r].actorRoles)
            /\ \A role \in req[r].roles : CanManageRole(req[r].actorRoles, role)
      BY <2>1 DEF Permitted
    <3>. HIDE DEF q, read
    <3>. QED BY <3>1, <3>2, <3>3, PermittedSlot
  <2>2. CASE ~Permitted(req[r])
    <3>1. Finish(r)
      BY <1>4, <2>2 DEF LoadTarget
    <3>. QED BY <1>1, <3>1
  <2>. QED BY <2>1, <2>2
<1>5. CASE CountSuperAdmins(r)
  <2> DEFINE next == IF req[r].op = "status" THEN "update" ELSE "delete"
             q == [req[r] EXCEPT !.pc = next]
  <2>1. CASE OtherSuperAdmins(req[r].target) # {}
    <3>1. req' = [req EXCEPT ![r] = q] /\ r \in Deciding
      BY <1>5, <2>1 DEF CountSuperAdmins, Deciding
    <3>2. /\ q.op = req[r].op /\ q.previous = req[r].previous
          /\ q.roles = req[r].roles /\ q.actorRoles = req[r].actorRoles
      BY DEF Request
    <3>. HIDE DEF q
    <3>. QED BY <3>1, <3>2, PermittedSlot
  <2>2. CASE OtherSuperAdmins(req[r].target) = {}
    <3>1. Finish(r)
      BY <1>5, <2>2 DEF CountSuperAdmins
    <3>. QED BY <1>1, <3>1
  <2>. QED BY <2>1, <2>2
<1>6. CASE DeleteRoles(r)
  <2> DEFINE q == [req[r] EXCEPT !.pc = "create", !.rows = assignments[req[r].target]]
  <2>1. req' = [req EXCEPT ![r] = q] /\ r \in Deciding
    BY <1>6 DEF DeleteRoles, Deciding
  <2>2. /\ q.op = req[r].op /\ q.previous = req[r].previous
        /\ q.roles = req[r].roles /\ q.actorRoles = req[r].actorRoles
    BY DEF Request
  <2>. HIDE DEF q
  <2>. QED BY <2>1, <2>2, PermittedSlot
<1>7. CASE UpdateStatus(r) \/ CreateRoles(r) \/ Fail(r)
  BY <1>1, <1>7 DEF UpdateStatus, CreateRoles, Fail
<1>. QED BY <1>2, <1>3, <1>4, <1>5, <1>6, <1>7

(* The commit of a change that was let through: what it gives is among what    *)
(* it asks for, and what it takes it had read or was given meanwhile.          *)
LEMMA CommitManages ==
  ASSUME Good, PermittedOK, NEW r \in Requests, RolesCommitted(r), CreateRoles(r),
         NEW role \in Given(r) \cup (Taken(r) \cap req[r].previous)
  PROVE  ~RanksAbove({role}, req[r].actorRoles)
<1> DEFINE u == req[r].target
           kept == assignments[u] \ req[r].rows
<1>1. /\ req[r] \in Request /\ u \in Users /\ req[r].op = "roles" /\ r \in Deciding
      /\ changes \in 0 .. MaxChanges /\ changes \in Int
  BY DEF Good, TypeOK, RequestsOK, RequestOK, CreateRoles, Deciding
<1>2. /\ ~RanksAbove(req[r].previous, req[r].actorRoles)
      /\ \A asked \in req[r].roles : CanManageRole(req[r].actorRoles, asked)
  BY <1>1 DEF PermittedOK
<1>3. assignments' = [assignments EXCEPT ![u] =
                        kept \cup {<<asked, changes + 1>> : asked \in req[r].roles}]
  <2>1. changes' # changes
    BY <1>1 DEF RolesCommitted
  <2>. QED BY <2>1 DEF CreateRoles
<1>4. assignments'[u] = kept \cup {<<asked, changes + 1>> : asked \in req[r].roles}
  BY <1>1, <1>3 DEF Good, TypeOK
<1>5. Given(r) \subseteq req[r].roles
  BY <1>4 DEF Given, RolesAfter, KeysOf, RolesOf
<1>6. /\ req[r].roles \subseteq RoleKeys /\ req[r].actorRoles \subseteq RoleKeys
  BY <1>1 DEF Request
<1>7. \A key \in RoleKeys : Rank[key] \in Int
  BY DEF RoleKeys, Rank
<1>8. CASE role \in req[r].previous
  BY <1>2, <1>8 DEF RanksAbove
<1>9. CASE role \in req[r].roles
  BY <1>2, <1>6, <1>7, <1>9 DEF RanksAbove, CanManageRole
<1>. QED BY <1>5, <1>8, <1>9

(* assertOutranks and assertCanGrant at the moment of the write, whatever     *)
(* overlaps: a commit gives no role ranked above every role its actor was      *)
(* authorised with, and takes such a role only if it was given after the       *)
(* request had read its target.                                                *)
THEOREM ChangesManaged == Spec => ManagesWhatItRead
<1> DEFINE Managed == \A r \in Requests :
                        RolesCommitted(r) =>
                          \A role \in Given(r) \cup (Taken(r) \cap req[r].previous) :
                            ~RanksAbove({role}, req[r].actorRoles)
<1>1. Init => Good /\ PermittedOK
  BY GoodInit DEF Init, PermittedOK, Deciding, Idle
<1>2. Good /\ PermittedOK /\ [Next]_vars => (Good /\ PermittedOK)'
  BY GoodStep, PermittedStep
<1>3. Good /\ PermittedOK /\ [Next]_vars => [Managed]_vars
  <2>. SUFFICES ASSUME Good, PermittedOK, Next, NEW r \in Requests, RolesCommitted(r),
                       NEW role \in Given(r) \cup (Taken(r) \cap req[r].previous)
                PROVE  ~RanksAbove({role}, req[r].actorRoles)
    BY Zenon
  <2>1. /\ req \in [Requests -> Request] /\ req[r].pc = "create" /\ req'[r].pc = "idle"
        /\ changes \in Int /\ changes' = changes + 1
    BY DEF Good, TypeOK, RolesCommitted
  <2>2. PICK o \in Requests : CreateRoles(o)
    <3>1. changes' # changes
      BY <2>1
    <3>2. \A o \in Requests, actor, target \in Users :
            /\ \A enable \in BOOLEAN : ~BeginUpdate(o, actor, target, enable)
            /\ \A roles \in SUBSET AssignableRoles : ~BeginAssign(o, actor, target, roles)
      BY <3>1, Zenon DEF BeginUpdate, BeginAssign
    <3>3. \A o \in Requests : ~LoadTarget(o) /\ ~CountSuperAdmins(o)
      BY <3>1 DEF LoadTarget, CountSuperAdmins
    <3>4. \A o \in Requests : ~UpdateStatus(o) /\ ~DeleteRoles(o) /\ ~Fail(o)
      BY <3>1 DEF UpdateStatus, DeleteRoles, Fail
    <3>. QED BY <3>2, <3>3, <3>4 DEF Next
  <2>3. o = r
    <3>1. Finish(o)
      BY <2>2 DEF CreateRoles
    <3>2. \A other \in Requests \ {o} : req'[other] = req[other]
      BY <3>1, FinishFrees DEF Good
    <3>. QED BY <2>1, <3>2
  <2>. QED BY <2>2, <2>3, CommitManages
<1>4. Spec => [][Managed]_vars
  BY <1>1, <1>2, <1>3, PTL DEF Spec
<1>. QED BY <1>4 DEF ManagesWhatItRead

=============================================================================
