------------------------------- MODULE Access -------------------------------
(***************************************************************************)
(* Roles and permissions of the API: the four tables, the requests that      *)
(* change them, the permission keys an access token carries, the middleware  *)
(* that admits a request on those keys alone, and SeedCoreRBAC, which every   *)
(* API instance runs, statement by statement, before it serves.              *)
(*                                                                          *)
(* Time is counted in ticks of the access-token lifetime.  A request is short *)
(* against that: no tick falls between reading a user's permissions and       *)
(* signing the token.                                                        *)
(***************************************************************************)
EXTENDS Naturals, Sequences, FiniteSets, FiniteSetsExt

CONSTANTS
    Users, Requests, Tokens, Instances,
    Names,             \* role names
    Keys,              \* permission keys
    RolesManage, PermissionsManage, UsersManage,  \* the keys the routes ask for
    CorePermissions,   \* sequence of keys
    CoreRoles,         \* sequence of [name, perms], perms a sequence of keys
    AccessTokenDuration,
    MaxRoles, MaxPermissions,  \* bounds: rows ever inserted
    MaxRequests,               \* bound: requests admitted
    MaxStarts,                 \* bound: times an instance is started by hand
    MaxFaults                  \* bound: statements that fail, processes that die

RoleIDs == 1 .. MaxRoles
PermissionIDs == 1 .. MaxPermissions
Unborn == "unborn"
Gone == "gone"

ASSUME AccessAssumption ==
    /\ {RolesManage, PermissionsManage, UsersManage} \subseteq Keys
    /\ {Unborn, Gone} \cap (Names \cup Keys) = {}
    /\ CorePermissions \in Seq(Keys) \ {<<>>}
    /\ CoreRoles \in Seq([name : Names, perms : Seq(Keys) \ {<<>>}]) \ {<<>>}
    /\ \A i \in DOMAIN CoreRoles : \A j \in DOMAIN CoreRoles[i].perms :
          \E k \in DOMAIN CorePermissions : CorePermissions[k] = CoreRoles[i].perms[j]
    /\ AccessTokenDuration \in Nat /\ MaxRoles \in Nat /\ MaxPermissions \in Nat

VARIABLES
    roles,      \* roles: name of each id, Unborn or Gone
    perms,      \* permissions: key of each id, Unborn or Gone
    userRoles,  \* user_roles
    rolePerms,  \* role_permissions
    tokens,     \* access tokens
    requests,   \* requests in flight, and the answer
    admitted,   \* how many requests were admitted
    instances,  \* API instances
    faults,
    lost        \* history: ticks since a user last held a key

tables == <<roles, perms, userRoles, rolePerms>>
vars == <<tables, tokens, requests, admitted, instances, faults, lost>>

Rows(table) == {id \in DOMAIN table : table[id] \notin {Unborn, Gone}}
With(table, value) == {id \in DOMAIN table : table[id] = value}

\* GetUserPermissions: the join over the roles of the user.
GetUserPermissions(u) ==
    {perms[p] : p \in {x \in Rows(perms) :
                         \E r \in RoleIDs : <<u, r>> \in userRoles /\ <<r, x>> \in rolePerms}}

NoToken == [state |-> "none", user |-> "", keys |-> {}, age |-> 0]
NoArgs == [role |-> 0, perm |-> 0, user |-> "", text |-> ""]
NoRequest == [pc |-> "idle", op |-> "", args |-> NoArgs, stale |-> 0]
NotStarted == [pc |-> "down", n |-> 1, m |-> 1, permissionMap |-> <<>>, roleID |-> 0,
               starts |-> 0, undone |-> FALSE]

Init ==
    /\ roles = [r \in RoleIDs |-> Unborn]
    /\ perms = [p \in PermissionIDs |-> Unborn]
    /\ userRoles = {}
    /\ rolePerms = {}
    /\ tokens = [t \in Tokens |-> NoToken]
    /\ requests = [q \in Requests |-> NoRequest]
    /\ admitted = 0
    /\ instances = [i \in Instances |-> NotStarted]
    /\ faults = 0
    /\ lost = [u \in Users |-> [k \in Keys |-> AccessTokenDuration]]
-----------------------------------------------------------------------------
(* Statements on the tables.  err is what the statement answers: the text of  *)
(* a unique violation never equals the one isUniqueViolation compares with,   *)
(* so a taken name is an error like any other.                               *)

Fresh(table) == With(table, Unborn) # {}
NewID(table) == Min(With(table, Unborn))

repoCreateRole(name, err) ==
    /\ IF With(roles, name) = {}
       THEN roles' = [roles EXCEPT ![NewID(roles)] = name] /\ err = "nil"
       ELSE UNCHANGED roles /\ err = "failed"
    /\ UNCHANGED <<perms, userRoles, rolePerms>>

repoUpdateRole(id, name, err) ==
    /\ CASE id \notin Rows(roles) -> UNCHANGED roles /\ err = "notfound"
         [] With(roles, name) \ {id} # {} -> UNCHANGED roles /\ err = "failed"
         [] OTHER -> roles' = [roles EXCEPT ![id] = name] /\ err = "nil"
    /\ UNCHANGED <<perms, userRoles, rolePerms>>

\* Both link tables cascade.
repoDeleteRole(id, err) ==
    /\ IF id \in Rows(roles)
       THEN /\ roles' = [roles EXCEPT ![id] = Gone]
            /\ userRoles' = {ur \in userRoles : ur[2] # id}
            /\ rolePerms' = {rp \in rolePerms : rp[1] # id}
            /\ err = "nil"
       ELSE UNCHANGED <<roles, userRoles, rolePerms>> /\ err = "notfound"
    /\ UNCHANGED perms

repoCreatePermission(key, err) ==
    /\ IF With(perms, key) = {}
       THEN perms' = [perms EXCEPT ![NewID(perms)] = key] /\ err = "nil"
       ELSE UNCHANGED perms /\ err = "failed"
    /\ UNCHANGED <<roles, userRoles, rolePerms>>

repoUpdatePermission(id, key, err) ==
    /\ CASE id \notin Rows(perms) -> UNCHANGED perms /\ err = "notfound"
         [] With(perms, key) \ {id} # {} -> UNCHANGED perms /\ err = "failed"
         [] OTHER -> perms' = [perms EXCEPT ![id] = key] /\ err = "nil"
    /\ UNCHANGED <<roles, userRoles, rolePerms>>

repoDeletePermission(id, err) ==
    /\ IF id \in Rows(perms)
       THEN /\ perms' = [perms EXCEPT ![id] = Gone]
            /\ rolePerms' = {rp \in rolePerms : rp[2] # id}
            /\ err = "nil"
       ELSE UNCHANGED <<perms, rolePerms>> /\ err = "notfound"
    /\ UNCHANGED <<roles, userRoles>>

\* ON CONFLICT DO NOTHING; a link to a row that is gone fails on its key.
repoAssignRoleToUser(u, r, err) ==
    /\ IF r \in Rows(roles)
       THEN userRoles' = userRoles \cup {<<u, r>>} /\ err = "nil"
       ELSE UNCHANGED userRoles /\ err = "failed"
    /\ UNCHANGED <<roles, perms, rolePerms>>

repoRemoveRoleFromUser(u, r, err) ==
    /\ userRoles' = userRoles \ {<<u, r>>}
    /\ err = "nil"
    /\ UNCHANGED <<roles, perms, rolePerms>>

\* Mutant: a link that exists is a duplicate key.
repoAssignPermissionToRoleOnce(r, p, err) ==
    /\ IF r \in Rows(roles) /\ p \in Rows(perms) /\ <<r, p>> \notin rolePerms
       THEN rolePerms' = rolePerms \cup {<<r, p>>} /\ err = "nil"
       ELSE UNCHANGED rolePerms /\ err = "failed"
    /\ UNCHANGED <<roles, perms, userRoles>>

repoAssignPermissionToRole(r, p, err) ==
    /\ IF r \in Rows(roles) /\ p \in Rows(perms)
       THEN rolePerms' = rolePerms \cup {<<r, p>>} /\ err = "nil"
       ELSE UNCHANGED rolePerms /\ err = "failed"
    /\ UNCHANGED <<roles, perms, userRoles>>

repoRemovePermissionFromRole(r, p, err) ==
    /\ rolePerms' = rolePerms \ {<<r, p>>}
    /\ err = "nil"
    /\ UNCHANGED <<roles, perms, userRoles>>
-----------------------------------------------------------------------------
(* Tokens.                                                                   *)

\* Login and RefreshToken read the permissions; if that fails the token is
\* issued without any.
ReadPermissions(t, u) ==
    /\ tokens[t].state = "none"
    /\ \/ tokens' = [tokens EXCEPT ![t] = [state |-> "reading", user |-> u,
                                           keys |-> GetUserPermissions(u), age |-> 0]]
          /\ UNCHANGED faults
       \/ /\ faults < MaxFaults
          /\ faults' = faults + 1
          /\ tokens' = [tokens EXCEPT ![t] = [state |-> "reading", user |-> u,
                                              keys |-> {}, age |-> 0]]
    /\ UNCHANGED <<tables, requests, admitted, instances>>

GenerateAccessToken(t) ==
    /\ tokens[t].state = "reading"
    /\ tokens' = [tokens EXCEPT ![t].state = "signed"]
    /\ UNCHANGED <<tables, requests, admitted, instances, faults>>

\* A token is dropped by its client once it is of no use.
DropToken(t) ==
    /\ tokens[t].state = "signed" /\ tokens[t].age >= AccessTokenDuration
    /\ tokens' = [tokens EXCEPT ![t] = NoToken]
    /\ UNCHANGED <<tables, requests, admitted, instances, faults>>

\* Mutant: the expiry of a token is not looked at.
ValidateSignatureOnly(t) == tokens[t].state = "signed"

ValidateAccessToken(t) == tokens[t].state = "signed" /\ tokens[t].age < AccessTokenDuration
-----------------------------------------------------------------------------
(* Requests.                                                                 *)

RequirePermission(t, key) == key \in tokens[t].keys

Instance(i) == instances[i]
InstanceAt(i, pc) == Instance(i).pc = pc
Seeding(i) == Instance(i).pc \notin {"down", "failed", "serving"}
Serving == \E i \in Instances : InstanceAt(i, "serving")

\* AuthMiddleware and RequirePermission let a request through to its handler,
\* or it ends in 401 or 403.
Admit(q, t, op, key, args) ==
    /\ Serving
    /\ requests[q].pc = "idle"
    /\ ValidateAccessToken(t)
    /\ RequirePermission(t, key)
    /\ admitted < MaxRequests
    /\ admitted' = admitted + 1
    /\ requests' = [requests EXCEPT ![q] = [pc |-> "handler", op |-> op, args |-> args,
                                            stale |-> lost[tokens[t].user][key]]]
    /\ UNCHANGED <<tables, tokens, instances, faults>>

AdmitAny(q, t) ==
    \/ \E name \in Names :
          \/ Admit(q, t, "CreateRole", RolesManage, [NoArgs EXCEPT !.text = name])
          \/ \E r \in Rows(roles) :
                Admit(q, t, "UpdateRole", RolesManage, [NoArgs EXCEPT !.role = r, !.text = name])
    \/ \E r \in Rows(roles) :
          \/ Admit(q, t, "DeleteRole", RolesManage, [NoArgs EXCEPT !.role = r])
          \/ \E p \in Rows(perms), op \in {"AssignPermissionToRole", "RemovePermissionFromRole"} :
                Admit(q, t, op, RolesManage, [NoArgs EXCEPT !.role = r, !.perm = p])
          \/ \E u \in Users, op \in {"AssignRoleToUser", "RemoveRoleFromUser"} :
                Admit(q, t, op, UsersManage, [NoArgs EXCEPT !.role = r, !.user = u])
    \/ \E key \in Keys :
          \/ Admit(q, t, "CreatePermission", PermissionsManage, [NoArgs EXCEPT !.text = key])
          \/ \E p \in Rows(perms) :
                Admit(q, t, "UpdatePermission", PermissionsManage, [NoArgs EXCEPT !.perm = p, !.text = key])
    \/ \E p \in Rows(perms) :
          Admit(q, t, "DeletePermission", PermissionsManage, [NoArgs EXCEPT !.perm = p])

At(q, pc, op) == requests[q].pc = pc /\ requests[q].op = op
Args(q) == requests[q].args

\* The error decides the status of the answer only.
Answer(q) == requests' = [requests EXCEPT ![q] = NoRequest]

\* A grant of a core role may be gone: remembered for the seeds under way.
Undo == instances' = [i \in Instances |-> IF Seeding(i) THEN [instances[i] EXCEPT !.undone = TRUE]
                                                       ELSE instances[i]]

Errors == {"nil", "notfound", "failed"}
rest == <<tokens, admitted, faults>>

CreateRole(q) ==
    /\ At(q, "handler", "CreateRole") /\ Fresh(roles)
    /\ \E err \in Errors : repoCreateRole(Args(q).text, err) /\ Answer(q)
    /\ UNCHANGED <<instances, rest>>

\* UpdateRole reads the row, changes it and writes it back.
UpdateRoleGet(q) ==
    /\ At(q, "handler", "UpdateRole")
    /\ IF Args(q).role \in Rows(roles) THEN requests' = [requests EXCEPT ![q].pc = "update"] ELSE Answer(q)
    /\ UNCHANGED <<tables, instances, rest>>

UpdateRole(q) ==
    /\ At(q, "update", "UpdateRole")
    /\ \E err \in Errors : repoUpdateRole(Args(q).role, Args(q).text, err) /\ Answer(q)
    /\ Undo
    /\ UNCHANGED rest

DeleteRole(q) ==
    /\ At(q, "handler", "DeleteRole")
    /\ \E err \in Errors : repoDeleteRole(Args(q).role, err) /\ Answer(q)
    /\ Undo
    /\ UNCHANGED rest

AssignPermissionToRole(q) ==
    /\ At(q, "handler", "AssignPermissionToRole")
    /\ \E err \in Errors : repoAssignPermissionToRole(Args(q).role, Args(q).perm, err) /\ Answer(q)
    /\ UNCHANGED <<instances, rest>>

RemovePermissionFromRole(q) ==
    /\ At(q, "handler", "RemovePermissionFromRole")
    /\ \E err \in Errors : repoRemovePermissionFromRole(Args(q).role, Args(q).perm, err) /\ Answer(q)
    /\ Undo
    /\ UNCHANGED rest

CreatePermission(q) ==
    /\ At(q, "handler", "CreatePermission") /\ Fresh(perms)
    /\ \E err \in Errors : repoCreatePermission(Args(q).text, err) /\ Answer(q)
    /\ UNCHANGED <<instances, rest>>

UpdatePermissionGet(q) ==
    /\ At(q, "handler", "UpdatePermission")
    /\ IF Args(q).perm \in Rows(perms) THEN requests' = [requests EXCEPT ![q].pc = "update"] ELSE Answer(q)
    /\ UNCHANGED <<tables, instances, rest>>

UpdatePermission(q) ==
    /\ At(q, "update", "UpdatePermission")
    /\ \E err \in Errors : repoUpdatePermission(Args(q).perm, Args(q).text, err) /\ Answer(q)
    /\ Undo
    /\ UNCHANGED rest

DeletePermission(q) ==
    /\ At(q, "handler", "DeletePermission")
    /\ \E err \in Errors : repoDeletePermission(Args(q).perm, err) /\ Answer(q)
    /\ Undo
    /\ UNCHANGED rest

AssignRoleToUser(q) ==
    /\ At(q, "handler", "AssignRoleToUser")
    /\ \E err \in Errors : repoAssignRoleToUser(Args(q).user, Args(q).role, err) /\ Answer(q)
    /\ UNCHANGED <<instances, rest>>

RemoveRoleFromUser(q) ==
    /\ At(q, "handler", "RemoveRoleFromUser")
    /\ \E err \in Errors : repoRemoveRoleFromUser(Args(q).user, Args(q).role, err) /\ Answer(q)
    /\ UNCHANGED <<instances, rest>>

Handler(q) ==
    \/ CreateRole(q) \/ UpdateRoleGet(q) \/ UpdateRole(q) \/ DeleteRole(q)
    \/ AssignPermissionToRole(q) \/ RemovePermissionFromRole(q)
    \/ CreatePermission(q) \/ UpdatePermissionGet(q) \/ UpdatePermission(q) \/ DeletePermission(q)
    \/ AssignRoleToUser(q) \/ RemoveRoleFromUser(q)

\* The first administrator is made by hand, in the database.
GrantFirstAdmin(u) ==
    /\ userRoles = {} /\ admitted = 0
    /\ \E r \in Rows(roles), err \in Errors : repoAssignRoleToUser(u, r, err)
    /\ UNCHANGED <<instances, requests, rest>>
-----------------------------------------------------------------------------
(* SeedCoreRBAC.  Each query is a step; an error ends the process.            *)

others == <<tokens, requests, admitted>>

Start(i) ==
    /\ Instance(i).pc \in {"down", "serving"}
    /\ Instance(i).starts < MaxStarts
    /\ instances' = [instances EXCEPT ![i] = [NotStarted EXCEPT !.pc = "getperm", !.starts = Instance(i).starts + 1]]
    /\ UNCHANGED <<tables, faults, others>>

\* log.Fatal, then the supervisor starts the process again.
Restart(i) ==
    /\ InstanceAt(i, "failed")
    /\ instances' = [instances EXCEPT ![i] = [NotStarted EXCEPT !.pc = "getperm", !.starts = Instance(i).starts]]
    /\ UNCHANGED <<tables, faults, others>>

\* A statement fails or the process dies.
Fail(i) ==
    /\ Seeding(i)
    /\ faults < MaxFaults
    /\ faults' = faults + 1
    /\ instances' = [instances EXCEPT ![i].pc = "failed"]
    /\ UNCHANGED <<tables, others>>

Found(i, id) ==
    LET n == Instance(i).n IN
    instances' = [instances EXCEPT ![i] = [Instance(i) EXCEPT
        !.permissionMap = Append(Instance(i).permissionMap, id),
        !.n = IF n < Len(CorePermissions) THEN n + 1 ELSE 1,
        !.pc = IF n < Len(CorePermissions) THEN "getperm" ELSE "getrole"]]

SeedGetPermission(i) ==
    LET key == CorePermissions[Instance(i).n] IN
    /\ InstanceAt(i, "getperm")
    /\ IF With(perms, key) # {}
       THEN \E id \in With(perms, key) : Found(i, id)
       ELSE instances' = [instances EXCEPT ![i].pc = "createperm"]
    /\ UNCHANGED <<tables, faults, others>>

SeedCreatePermission(i) ==
    LET key == CorePermissions[Instance(i).n] IN
    /\ InstanceAt(i, "createperm") /\ Fresh(perms)
    /\ \E err \in Errors :
          /\ repoCreatePermission(key, err)
          /\ IF err = "nil" THEN Found(i, NewID(perms))
                            ELSE instances' = [instances EXCEPT ![i].pc = "failed"]
    /\ UNCHANGED <<faults, others>>

RoleFound(i, id) ==
    instances' = [instances EXCEPT ![i] = [@ EXCEPT !.roleID = id, !.m = 1, !.pc = "assign"]]

\* The next role, or the end of the seed.
NextRole(i) ==
    LET n == Instance(i).n IN
    IF n < Len(CoreRoles)
    THEN instances' = [instances EXCEPT ![i] = [@ EXCEPT !.n = n + 1, !.pc = "getrole"]]
    ELSE instances' = [instances EXCEPT ![i] = [NotStarted EXCEPT
             !.pc = "serving", !.starts = Instance(i).starts]]

\* Mutant: a role that exists needs no grants.
SeedGetRoleSkips(i) ==
    LET name == CoreRoles[Instance(i).n].name IN
    /\ InstanceAt(i, "getrole")
    /\ IF With(roles, name) # {} THEN NextRole(i) ELSE instances' = [instances EXCEPT ![i].pc = "createrole"]
    /\ UNCHANGED <<tables, faults, others>>

SeedGetRole(i) ==
    LET name == CoreRoles[Instance(i).n].name IN
    /\ InstanceAt(i, "getrole")
    /\ IF With(roles, name) # {}
       THEN \E id \in With(roles, name) : RoleFound(i, id)
       ELSE instances' = [instances EXCEPT ![i].pc = "createrole"]
    /\ UNCHANGED <<tables, faults, others>>

SeedCreateRole(i) ==
    LET name == CoreRoles[Instance(i).n].name IN
    /\ InstanceAt(i, "createrole") /\ Fresh(roles)
    /\ \E err \in Errors :
          /\ repoCreateRole(name, err)
          /\ IF err = "nil" THEN RoleFound(i, NewID(roles))
                            ELSE instances' = [instances EXCEPT ![i].pc = "failed"]
    /\ UNCHANGED <<faults, others>>

SeedAssign(i) ==
    LET keys == CoreRoles[Instance(i).n].perms
        m == Instance(i).m
        permID == Instance(i).permissionMap[CHOOSE k \in DOMAIN CorePermissions : CorePermissions[k] = keys[m]]
    IN
    /\ InstanceAt(i, "assign")
    /\ \E err \in Errors :
          /\ repoAssignPermissionToRole(Instance(i).roleID, permID, err)
          /\ IF err # "nil" THEN instances' = [instances EXCEPT ![i].pc = "failed"]
             ELSE IF m < Len(keys) THEN instances' = [instances EXCEPT ![i].m = m + 1]
             ELSE NextRole(i)
    /\ UNCHANGED <<faults, others>>

Seed(i) ==
    \/ SeedGetPermission(i) \/ SeedCreatePermission(i)
    \/ SeedGetRole(i) \/ SeedCreateRole(i) \/ SeedAssign(i)
-----------------------------------------------------------------------------
Tick ==
    /\ \A t \in Tokens : tokens[t].state # "reading"
    /\ \E t \in Tokens : tokens[t].state = "signed" /\ tokens[t].age < AccessTokenDuration
    /\ tokens' = [t \in Tokens |-> IF tokens[t].state = "signed" /\ tokens[t].age < AccessTokenDuration
                                   THEN [tokens[t] EXCEPT !.age = @ + 1] ELSE tokens[t]]
    /\ UNCHANGED <<tables, requests, admitted, instances, faults>>

TrackLoss(ticks) ==
    IF ticks = 0 /\ UNCHANGED tables THEN UNCHANGED lost ELSE
    lost' = [u \in Users |-> [k \in Keys |->
                IF k \in GetUserPermissions(u)' THEN 0
                ELSE IF lost[u][k] < AccessTokenDuration THEN lost[u][k] + ticks
                ELSE AccessTokenDuration]]

Step ==
    \/ \E t \in Tokens, u \in Users : ReadPermissions(t, u)
    \/ \E t \in Tokens : GenerateAccessToken(t) \/ DropToken(t)
    \/ \E q \in Requests, t \in Tokens : AdmitAny(q, t)
    \/ \E q \in Requests : Handler(q)
    \/ \E u \in Users : GrantFirstAdmin(u)
    \/ \E i \in Instances : Start(i) \/ Restart(i) \/ Fail(i) \/ Seed(i)

Next == (Step /\ TrackLoss(0)) \/ (Tick /\ TrackLoss(1))

Spec == Init /\ [][Next]_vars

\* A started process runs on and a failed one is started again.
LiveSpec ==
    /\ Spec
    /\ \A i \in Instances : WF_vars((Restart(i) \/ Seed(i)) /\ TrackLoss(0))
-----------------------------------------------------------------------------
(* Properties.                                                              *)

\* A request is let through only on a permission its user held less than one
\* access-token lifetime ago, through whichever role and whatever was renamed,
\* deleted, revoked or granted again since the token was signed: claims are
\* never older than that, although the middleware does not look at the tables.
ClaimsFresh ==
    \A q \in Requests : requests[q].pc # "idle" => requests[q].stale < AccessTokenDuration

CoreGrants ==
    \A i \in DOMAIN CoreRoles : \E r \in With(roles, CoreRoles[i].name) :
        \A j \in DOMAIN CoreRoles[i].perms :
            \E p \in With(perms, CoreRoles[i].perms[j]) : <<r, p>> \in rolePerms

\* An instance that starts to serve finds every core role with all its core
\* permissions in the tables, also when another instance seeds at the same
\* time, an earlier seed was cut off or a statement failed, unless an
\* administrator changed or removed something while it was seeding.
ServesSeeded ==
    \A i \in Instances : InstanceAt(i, "serving")' /\ ~ InstanceAt(i, "serving")
        => CoreGrants' \/ Instance(i).undone

\* SeedCoreRBAC that returns has done its work, whatever ran at the same time.
SeedEffective == [][ServesSeeded]_vars

\* An instance that is started comes to serve in the end, although the loser
\* of a race to insert a core row fails and has to start over.
EveryInstanceServes ==
    \A i \in Instances : Seeding(i) ~> InstanceAt(i, "serving")
=============================================================================
