----------------------------- MODULE AccessProofs -----------------------------
(***************************************************************************)
(* Proofs about roles and permissions, for every set of users, requests,      *)
(* tokens and instances, every list of core roles and core permissions and    *)
(* every token lifetime.                                                     *)
(***************************************************************************)
EXTENDS Access, WellFoundedInduction, TLAPS

\* A set of naturals that is not empty holds its minimum.
LEMMA MinOfNaturals ==
    ASSUME NEW S, S \subseteq Nat, S # {}
    PROVE  Min(S) \in S
  <1> DEFINE R == OpToRel(<, Nat)
  <1>1. IsWellFoundedOn(R, Nat) /\ \A x, y \in Nat : y < x => <<y, x>> \in R
    BY NatLessThanWellFounded DEF OpToRel
  <1> HIDE DEF R
  <1>2. PICK x \in S : \A y \in S : ~ (<<y, x>> \in R)
    BY <1>1, WFMin, Zenon
  <1>3. \A y \in S : ~ (y < x)
    BY <1>1, <1>2, Zenon
  <1>4. \A y \in S : x =< y
    BY <1>3
  <1> QED BY <1>4, Zenon DEF Min
-----------------------------------------------------------------------------
(* The invariant.                                                            *)

Texts == Names \cup Keys \cup {""}
Ops == {"", "CreateRole", "UpdateRole", "DeleteRole", "AssignPermissionToRole", "RemovePermissionFromRole",
        "CreatePermission", "UpdatePermission", "DeletePermission", "AssignRoleToUser", "RemoveRoleFromUser"}
Request == [pc : {"idle", "handler", "update"}, op : Ops,
            args : [role : Nat, perm : Nat, user : Users \cup {""}, text : Texts],
            stale : Nat]
Token == [state : {"none", "reading", "signed"}, user : Users \cup {""}, keys : SUBSET Keys, age : Nat]
SeedPCs == {"getperm", "createperm", "getrole", "createrole", "assign"}
InstanceRecord ==
    [pc : SeedPCs \cup {"down", "failed", "serving"}, n : Nat, m : Nat, permissionMap : Seq(Nat),
     roleID : Nat, starts : Nat, undone : BOOLEAN]

AccTypeOK ==
    /\ roles \in [RoleIDs -> Names \cup {Unborn, Gone}]
    /\ perms \in [PermissionIDs -> Keys \cup {Unborn, Gone}]
    /\ tokens \in [Tokens -> Token]
    /\ requests \in [Requests -> Request]
    /\ instances \in [Instances -> InstanceRecord]
    /\ lost \in [Users -> [Keys -> Nat]]

\* What a request writes has the kind of its column.
RequestInv(q) ==
    /\ requests[q].op \in {"CreateRole", "UpdateRole"} => Args(q).text \in Names
    /\ requests[q].op \in {"CreatePermission", "UpdatePermission"} => Args(q).text \in Keys
    /\ requests[q].pc # "idle" => requests[q].stale < AccessTokenDuration

\* A key that is held is not counted as lost; a key in a token has been lost for
\* no longer than the token is old, as long as the token is good.
LostInv == \A u \in Users : \A k \in GetUserPermissions(u) : lost[u][k] = 0

TokenInv(t) ==
    /\ tokens[t].state # "none" => tokens[t].user \in Users
    /\ tokens[t].state = "reading" => tokens[t].age = 0
    /\ tokens[t].state # "none" /\ tokens[t].age < AccessTokenDuration =>
          \A k \in tokens[t].keys : lost[tokens[t].user][k] =< tokens[t].age

\* Role r has the permission with this key.
Linked(r, key) == \E p \in With(perms, key) : <<r, p>> \in rolePerms

\* The n-th core role exists, with all its core permissions.
Granted(n) ==
    \E r \in With(roles, CoreRoles[n].name) :
        \A j \in DOMAIN CoreRoles[n].perms : Linked(r, CoreRoles[n].perms[j])

\* How far a seed is: the loop variables of SeedCoreRBAC.
Position(x) ==
    /\ x.pc \in {"getperm", "createperm"} =>
          x.n \in DOMAIN CorePermissions /\ Len(x.permissionMap) = x.n - 1
    /\ x.pc \in {"getrole", "createrole", "assign"} =>
          x.n \in DOMAIN CoreRoles /\ Len(x.permissionMap) = Len(CorePermissions)
    /\ x.pc = "assign" => x.m \in DOMAIN CoreRoles[x.n].perms

\* What a seed has achieved so far.
Achieved(x) ==
    /\ \A k \in DOMAIN x.permissionMap : x.permissionMap[k] \in With(perms, CorePermissions[k])
    /\ x.pc \in {"getrole", "createrole", "assign"} => \A n \in 1 .. x.n - 1 : Granted(n)
    /\ x.pc = "assign" =>
          /\ x.roleID \in With(roles, CoreRoles[x.n].name)
          /\ \A j \in 1 .. x.m - 1 : Linked(x.roleID, CoreRoles[x.n].perms[j])

\* The invariant of an instance: its achievements stand, unless someone undid them.
SeedInv(i) ==
    /\ Position(instances[i])
    /\ instances[i].pc \in SeedPCs => Achieved(instances[i]) \/ instances[i].undone = TRUE

IInv ==
    /\ AccTypeOK
    /\ LostInv
    /\ \A q \in Requests : RequestInv(q)
    /\ \A t \in Tokens : TokenInv(t)
    /\ \A i \in Instances : SeedInv(i)
-----------------------------------------------------------------------------
(* Tables.                                                                   *)

\* A table in which rows only appear.
GrowsTo(table, new) ==
    /\ DOMAIN new = DOMAIN table
    /\ \A id \in DOMAIN table : table[id] # Unborn => new[id] = table[id]

Grows == GrowsTo(roles, roles') /\ GrowsTo(perms, perms') /\ rolePerms \subseteq rolePerms'

\* The lists of the seed are sequences of names and keys that are not empty.
LEMMA CoreFacts ==
    /\ CorePermissions \in Seq(Keys) /\ Len(CorePermissions) \in Nat /\ 1 \in DOMAIN CorePermissions
    /\ DOMAIN CorePermissions = 1 .. Len(CorePermissions)
    /\ CoreRoles \in Seq([name : Names, perms : Seq(Keys) \ {<<>>}])
    /\ Len(CoreRoles) \in Nat /\ 1 \in DOMAIN CoreRoles /\ DOMAIN CoreRoles = 1 .. Len(CoreRoles)
    /\ \A n \in DOMAIN CoreRoles :
          /\ CoreRoles[n].name \in Names /\ CoreRoles[n].perms \in Seq(Keys)
          /\ 1 \in DOMAIN CoreRoles[n].perms
          /\ DOMAIN CoreRoles[n].perms = 1 .. Len(CoreRoles[n].perms)
          /\ Len(CoreRoles[n].perms) \in Nat
  <1>1. CorePermissions \in Seq(Keys) /\ CorePermissions # <<>>
    BY AccessAssumption
  <1>2. CoreRoles \in Seq([name : Names, perms : Seq(Keys) \ {<<>>}]) /\ CoreRoles # <<>>
    BY AccessAssumption
  <1>3. ASSUME NEW n \in DOMAIN CoreRoles
        PROVE  /\ CoreRoles[n].name \in Names /\ CoreRoles[n].perms \in Seq(Keys)
               /\ 1 \in DOMAIN CoreRoles[n].perms
               /\ DOMAIN CoreRoles[n].perms = 1 .. Len(CoreRoles[n].perms)
               /\ Len(CoreRoles[n].perms) \in Nat
    <2>1. CoreRoles[n] \in [name : Names, perms : Seq(Keys) \ {<<>>}]
      <3> DEFINE Roles == [name : Names, perms : Seq(Keys) \ {<<>>}]
      <3>1. CoreRoles \in Seq(Roles)
        BY <1>2
      <3> HIDE DEF Roles
      <3>2. CoreRoles[n] \in Roles
        BY <3>1
      <3> QED BY <3>2 DEF Roles
    <2>2. PICK s \in Seq(Keys) : s = CoreRoles[n].perms /\ s # <<>>
      BY <2>1
    <2>3. Len(s) \in Nat /\ DOMAIN s = 1 .. Len(s) /\ Len(s) # 0
      BY <2>2
    <2> QED BY <2>1, <2>2, <2>3
  <1>4. Len(CorePermissions) \in Nat \ {0} /\ DOMAIN CorePermissions = 1 .. Len(CorePermissions)
    BY <1>1
  <1>5. Len(CoreRoles) \in Nat \ {0} /\ DOMAIN CoreRoles = 1 .. Len(CoreRoles)
    BY <1>2
  <1> QED BY <1>1, <1>2, <1>3, <1>4, <1>5

\* The place after one that is not the last is a place of the same list.
LEMMA NextPlaces ==
    /\ \A n \in DOMAIN CoreRoles : n < Len(CoreRoles) => n + 1 \in DOMAIN CoreRoles
    /\ \A n \in DOMAIN CoreRoles : \A m \in DOMAIN CoreRoles[n].perms :
          IF m < Len(CoreRoles[n].perms) THEN m + 1 \in DOMAIN CoreRoles[n].perms
                                         ELSE m = Len(CoreRoles[n].perms)
  <1>1. \A len \in Nat : \A n \in 1 .. len : IF n < len THEN n + 1 \in 1 .. len ELSE n = len
    OBVIOUS
  <1>2. Len(CoreRoles) \in Nat /\ DOMAIN CoreRoles = 1 .. Len(CoreRoles)
    BY CoreFacts, Zenon
  <1>3. \A n \in DOMAIN CoreRoles : /\ Len(CoreRoles[n].perms) \in Nat
                                   /\ DOMAIN CoreRoles[n].perms = 1 .. Len(CoreRoles[n].perms)
    BY CoreFacts, Zenon
  <1> QED BY <1>1, <1>2, <1>3, Zenon

\* The id of a new row is one that no row had.
LEMMA NewIDUnborn ==
    ASSUME NEW N \in Nat, NEW table, DOMAIN table = 1 .. N, Fresh(table)
    PROVE  NewID(table) \in DOMAIN table /\ table[NewID(table)] = Unborn
  <1>1. With(table, Unborn) \subseteq Nat /\ With(table, Unborn) # {}
    BY DEF With, Fresh
  <1>2. NewID(table) \in With(table, Unborn)
    BY <1>1, MinOfNaturals DEF NewID
  <1> QED BY <1>2 DEF With

\* Rows that are there stay found under their name.
LEMMA WithGrows ==
    ASSUME NEW table, NEW new, GrowsTo(table, new), NEW value, value # Unborn
    PROVE  With(table, value) \subseteq With(new, value)
  BY DEF GrowsTo, With

\* While rows and links only grow a permission that is linked stays so.
LEMMA LinkedKept ==
    ASSUME Grows, NEW r, NEW key \in Keys, Linked(r, key)
    PROVE  Linked(r, key)'
  <1>1. key # Unborn
    BY AccessAssumption
  <1>2. With(perms, key) \subseteq With(perms', key)
    BY <1>1, WithGrows DEF Grows
  <1> QED BY <1>2 DEF Linked, Grows

\* While rows and links only grow a core role keeps its permissions.
LEMMA GrantedKept ==
    ASSUME Grows, NEW n \in DOMAIN CoreRoles, Granted(n)
    PROVE  Granted(n)'
  <1>1. PICK r \in With(roles, CoreRoles[n].name) :
            \A j \in DOMAIN CoreRoles[n].perms : Linked(r, CoreRoles[n].perms[j])
    BY DEF Granted
  <1>2. CoreRoles[n].name # Unborn
    BY CoreFacts, AccessAssumption
  <1>3. r \in With(roles', CoreRoles[n].name)
    BY <1>2, WithGrows DEF Grows
  <1>4. ASSUME NEW j \in DOMAIN CoreRoles[n].perms PROVE Linked(r, CoreRoles[n].perms[j])'
    <2>1. CoreRoles[n].perms[j] \in Keys
      BY CoreFacts
    <2> QED BY <1>1, <2>1, LinkedKept
  <1> QED BY <1>3, <1>4 DEF Granted

\* What a seed has achieved outlasts every step that only adds rows.
LEMMA AchievedKept ==
    ASSUME NEW x \in InstanceRecord, x.pc \in SeedPCs, Position(x), Achieved(x), Grows
    PROVE  Achieved(x)'
  <1>1. x.permissionMap \in Seq(Nat) /\ x.n \in Nat /\ x.m \in Nat
    BY DEF InstanceRecord
  <1>2. ASSUME NEW k \in DOMAIN x.permissionMap
        PROVE  x.permissionMap[k] \in With(perms', CorePermissions[k])
    <2>1. k \in DOMAIN CorePermissions
      <3>1. PICK pm \in Seq(Nat) : pm = x.permissionMap /\ DOMAIN pm = 1 .. Len(pm) /\ Len(pm) \in Nat
        BY <1>1
      <3>2. CASE x.pc \in {"getperm", "createperm"}
        <4>1. x.n \in DOMAIN CorePermissions /\ Len(pm) = x.n - 1
          BY <3>1, <3>2 DEF Position
        <4> QED BY <3>1, <4>1, CoreFacts
      <3>3. CASE x.pc \in {"getrole", "createrole", "assign"}
        BY <3>1, <3>3, CoreFacts DEF Position
      <3> QED BY <3>2, <3>3 DEF SeedPCs
    <2>2. CorePermissions[k] # Unborn
      BY <2>1, CoreFacts, AccessAssumption
    <2>3. x.permissionMap[k] \in With(perms, CorePermissions[k])
      BY DEF Achieved
    <2> QED BY <2>2, <2>3, WithGrows DEF Grows
  <1>3. ASSUME x.pc \in {"getrole", "createrole", "assign"}, NEW n \in 1 .. x.n - 1
        PROVE  Granted(n)'
    <2>1. n \in DOMAIN CoreRoles /\ Granted(n)
      BY <1>1, <1>3, CoreFacts DEF Achieved, Position
    <2> QED BY <2>1, GrantedKept
  <1>4. ASSUME x.pc = "assign"
        PROVE  x.roleID \in With(roles', CoreRoles[x.n].name)
    <2>1. x.n \in DOMAIN CoreRoles /\ x.roleID \in With(roles, CoreRoles[x.n].name)
      BY <1>4 DEF Achieved, Position
    <2>2. CoreRoles[x.n].name # Unborn
      BY <2>1, CoreFacts, AccessAssumption
    <2> QED BY <2>1, <2>2, WithGrows DEF Grows
  <1>5. ASSUME x.pc = "assign", NEW j \in 1 .. x.m - 1
        PROVE  Linked(x.roleID, CoreRoles[x.n].perms[j])'
    <2>1. /\ x.n \in DOMAIN CoreRoles /\ x.m \in DOMAIN CoreRoles[x.n].perms
          /\ Linked(x.roleID, CoreRoles[x.n].perms[j])
      BY <1>5 DEF Achieved, Position
    <2>2. CoreRoles[x.n].perms[j] \in Keys
      <3>1. PICK s \in Seq(Keys) : s = CoreRoles[x.n].perms /\ DOMAIN s = 1 .. Len(s) /\ Len(s) \in Nat
        BY <2>1, CoreFacts
      <3> QED BY <1>1, <2>1, <3>1
    <2> QED BY <2>1, <2>2, LinkedKept
  <1> QED BY <1>2, <1>3, <1>4, <1>5 DEF Achieved

\* While rows and links only grow an instance keeps what it has seeded.
LEMMA SeedKept ==
    ASSUME AccTypeOK, NEW i \in Instances, SeedInv(i), Grows, instances'[i] = instances[i]
    PROVE  SeedInv(i)'
  <1>1. PICK x \in InstanceRecord : x = instances[i]
    BY DEF AccTypeOK
  <1>2. x.pc \in SeedPCs /\ Achieved(x) => Achieved(x)'
    BY <1>1, AchievedKept DEF SeedInv
  <1> QED BY <1>1, <1>2 DEF SeedInv

\* A seed that was undone has nothing to keep.
LEMMA SeedUndone ==
    ASSUME AccTypeOK, NEW i \in Instances, SeedInv(i), Undo
    PROVE  SeedInv(i)' /\ instances'[i] \in InstanceRecord
  <1>1. PICK x \in InstanceRecord : x = instances[i]
    BY DEF AccTypeOK
  <1>2. PICK y : y = [x EXCEPT !.undone = TRUE]
    BY Zenon
  <1>3. /\ y \in InstanceRecord /\ y.pc = x.pc /\ y.n = x.n /\ y.m = x.m
        /\ y.permissionMap = x.permissionMap /\ y.undone = TRUE
    BY <1>2, Zenon DEF InstanceRecord
  <1>4. instances'[i] = IF Seeding(i) THEN y ELSE x
    BY <1>1, <1>2 DEF Undo
  <1>5. Position(x) /\ Position(y)
    BY <1>1, <1>3 DEF SeedInv, Position
  <1>6. ~ Seeding(i) => x.pc \notin SeedPCs
    BY <1>1 DEF Seeding, Instance, SeedPCs
  <1> QED BY <1>1, <1>3, <1>4, <1>5, <1>6 DEF SeedInv
-----------------------------------------------------------------------------
(* Lost permissions.                                                         *)

\* A user holds keys of permissions.
LEMMA HeldKeys ==
    ASSUME perms \in [PermissionIDs -> Keys \cup {Unborn, Gone}], NEW u
    PROVE  GetUserPermissions(u) \subseteq Keys
  BY DEF GetUserPermissions, Rows

\* A user holds keys of permissions after the step as well.
LEMMA HeldKeysNext ==
    ASSUME perms' \in [PermissionIDs -> Keys \cup {Unborn, Gone}], NEW u \in Users
    PROVE  GetUserPermissions(u)' \subseteq Keys
  BY DEF GetUserPermissions, Rows

\* Whatever a step does to the tables, the loss of a key in a good token stays
\* within the age of the token.
LEMMA LossKept ==
    ASSUME IInv, perms' \in [PermissionIDs -> Keys \cup {Unborn, Gone}], TrackLoss(0), UNCHANGED tokens
    PROVE  /\ lost' \in [Users -> [Keys -> Nat]]
           /\ LostInv'
           /\ \A t \in Tokens : TokenInv(t)'
  <1>1. lost \in [Users -> [Keys -> Nat]] /\ tokens \in [Tokens -> Token] /\ AccessTokenDuration \in Nat
    BY AccessAssumption DEF IInv, AccTypeOK
  <1>2. CASE UNCHANGED tables /\ UNCHANGED lost
    BY <1>1, <1>2 DEF IInv, LostInv, TokenInv, GetUserPermissions, tables
  <1>3. CASE lost' = [u \in Users |-> [k \in Keys |->
                IF k \in GetUserPermissions(u)' THEN 0
                ELSE IF lost[u][k] < AccessTokenDuration THEN lost[u][k] + 0
                ELSE AccessTokenDuration]]
    <2>1. \A u \in Users, k \in Keys :
             /\ lost'[u][k] = 0 \/ lost'[u][k] = lost[u][k] \/ lost[u][k] >= AccessTokenDuration
             /\ lost[u][k] \in Nat /\ lost'[u][k] \in Nat
             /\ k \in GetUserPermissions(u)' => lost'[u][k] = 0
      BY <1>1, <1>3
    <2>2. lost' \in [Users -> [Keys -> Nat]]
      BY <1>1, <1>3
    <2>3. LostInv'
      BY <2>1, HeldKeysNext DEF LostInv
    <2>4. ASSUME NEW t \in Tokens PROVE TokenInv(t)'
      <3>1. PICK x \in Token : x = tokens[t] /\ tokens'[t] = x
        BY <1>1
      <3>2. x.keys \subseteq Keys /\ x.age \in Nat /\ TokenInv(t)
        BY Zenon DEF Token, IInv
      <3> QED BY <1>1, <2>1, <3>1, <3>2 DEF TokenInv
    <2> QED BY <2>2, <2>3, <2>4
  <1> QED BY <1>2, <1>3 DEF TrackLoss
-----------------------------------------------------------------------------
(* Steps that leave the tables alone.                                        *)

\* A seed depends on its own instance and on the tables.
LEMMA SeedSame ==
    ASSUME IInv, NEW i \in Instances, UNCHANGED tables, instances'[i] = instances[i]
    PROVE  SeedInv(i)'
  <1>1. Grows
    BY DEF Grows, GrowsTo, tables
  <1> QED BY <1>1, SeedKept DEF IInv

\* A request that does not change stays in order.
LEMMA RequestSame ==
    ASSUME IInv, NEW q \in Requests, requests'[q] = requests[q]
    PROVE  RequestInv(q)'
  BY DEF IInv, RequestInv, Args

\* A token that does not change stays in order while nothing is lost.
LEMMA TokenSame ==
    ASSUME IInv, NEW t \in Tokens, tokens'[t] = tokens[t], UNCHANGED lost
    PROVE  TokenInv(t)'
  BY DEF IInv, TokenInv

\* A step that leaves the tables alone loses no permission.
LEMMA QuietLoss ==
    ASSUME IInv, UNCHANGED tables, TrackLoss(0)
    PROVE  UNCHANGED lost /\ LostInv'
  BY DEF TrackLoss, IInv, LostInv, GetUserPermissions, tables

\* A step on one token.
LEMMA StepToken ==
    ASSUME IInv, TrackLoss(0), NEW t \in Tokens,
           (\E u \in Users : ReadPermissions(t, u)) \/ GenerateAccessToken(t) \/ DropToken(t)
    PROVE  IInv'
  <1>1. UNCHANGED <<tables, requests, instances>>
    BY DEF ReadPermissions, GenerateAccessToken, DropToken
  <1>2. UNCHANGED lost /\ LostInv'
    BY <1>1, QuietLoss
  <1>3. tokens \in [Tokens -> Token]
    BY DEF IInv, AccTypeOK
  <1>4. PICK x \in Token :
           /\ tokens' = [tokens EXCEPT ![t] = x]
           /\ x.state # "none" => x.user \in Users
           /\ x.state = "reading" => x.age = 0
           /\ x.state # "none" /\ x.age < AccessTokenDuration => \A k \in x.keys : lost[x.user][k] =< x.age
    <2>1. CASE \E u \in Users : ReadPermissions(t, u)
      <3>0. PICK u \in Users : ReadPermissions(t, u)
        BY <2>1
      <3>1. PICK keys \in {GetUserPermissions(u), {}} :
              tokens' = [tokens EXCEPT ![t] = [state |-> "reading", user |-> u, keys |-> keys, age |-> 0]]
        BY <3>0 DEF ReadPermissions
      <3>2. keys \subseteq Keys /\ \A k \in keys : lost[u][k] =< 0
        BY HeldKeys DEF IInv, AccTypeOK, LostInv
      <3> DEFINE y == [state |-> "reading", user |-> u, keys |-> keys, age |-> 0]
      <3>3. y \in Token /\ y.user = u /\ y.age = 0 /\ y.keys = keys
        BY <3>2, Zenon DEF Token
      <3> HIDE DEF y
      <3> QED BY <3>1, <3>2, <3>3, Zenon DEF y
    <2>2. CASE GenerateAccessToken(t)
      <3>1. PICK z \in Token : z = tokens[t] /\ TokenInv(t)
        BY <1>3 DEF IInv
      <3> DEFINE y == [z EXCEPT !.state = "signed"]
      <3>2. y \in Token /\ y.user = z.user /\ y.age = z.age /\ y.keys = z.keys /\ y.state = "signed"
        BY Zenon DEF Token
      <3>3. tokens' = [tokens EXCEPT ![t] = y] /\ z.state = "reading"
        BY <1>3, <2>2, <3>1 DEF GenerateAccessToken
      <3> HIDE DEF y
      <3> QED BY <3>1, <3>2, <3>3, Zenon DEF TokenInv
    <2>3. CASE DropToken(t)
      <3>1. NoToken \in Token /\ NoToken.state = "none"
        BY DEF NoToken, Token
      <3> QED BY <2>3, <3>1, Zenon DEF DropToken
    <2> QED BY <2>1, <2>2, <2>3
  <1>5. tokens' \in [Tokens -> Token]
    BY <1>3, <1>4
  <1>6. AccTypeOK'
    BY <1>1, <1>2, <1>5 DEF IInv, AccTypeOK, tables
  <1>7. ASSUME NEW s \in Tokens PROVE TokenInv(s)'
    <2>1. CASE s = t
      BY <1>2, <1>3, <1>4, <2>1 DEF TokenInv
    <2>2. CASE s # t
      BY <1>2, <1>3, <1>4, <2>2, TokenSame
    <2> QED BY <2>1, <2>2
  <1> QED BY <1>1, <1>2, <1>6, <1>7, SeedSame, RequestSame DEF IInv

\* The order of the numbers of losses.
LEMMA Between == \A a, b, d \in Nat : a =< b /\ b < d => a < d
  OBVIOUS

\* Admitted requests act on a permission that was held a short while ago.
LEMMA Admitted ==
    ASSUME IInv, TrackLoss(0), NEW q \in Requests, NEW t \in Tokens, NEW op \in Ops, NEW key \in Keys,
           NEW args \in [role : Nat, perm : Nat, user : Users \cup {""}, text : Texts],
           op \in {"CreateRole", "UpdateRole"} => args.text \in Names,
           op \in {"CreatePermission", "UpdatePermission"} => args.text \in Keys,
           Admit(q, t, op, key, args)
    PROVE  IInv'
  <1>1. UNCHANGED <<tables, tokens, instances>>
    BY Zenon DEF Admit
  <1>2. UNCHANGED lost /\ LostInv'
    BY <1>1, QuietLoss, Zenon
  <1>3. PICK x \in Token : x = tokens[t] /\ TokenInv(t)
    BY Zenon DEF IInv, AccTypeOK
  <1>4. /\ x.state = "signed" /\ x.age < AccessTokenDuration /\ key \in x.keys
        /\ x.age \in Nat /\ x.user \in Users /\ AccessTokenDuration \in Nat
    BY <1>3, AccessAssumption, Zenon DEF Admit, ValidateAccessToken, RequirePermission, Token, TokenInv
  <1>5. lost[x.user][key] \in Nat /\ lost[x.user][key] < AccessTokenDuration
    <2>1. lost[x.user][key] \in Nat
      BY <1>4, Zenon DEF IInv, AccTypeOK
    <2>2. lost[x.user][key] =< x.age
      BY <1>3, <1>4, Zenon DEF TokenInv
    <2> QED BY <1>4, <2>1, <2>2, Between, Zenon
  <1> DEFINE y == [pc |-> "handler", op |-> op, args |-> args, stale |-> lost[x.user][key]]
  <1>6. /\ y \in Request /\ y.op = op /\ y.args = args /\ y.stale = lost[x.user][key]
    BY <1>5, Zenon DEF Request
  <1>7. requests' = [requests EXCEPT ![q] = y] /\ requests \in [Requests -> Request]
    BY <1>3, Zenon DEF Admit, IInv, AccTypeOK
  <1> HIDE DEF y
  <1>8. AccTypeOK'
    BY <1>1, <1>2, <1>6, <1>7, Zenon DEF IInv, AccTypeOK, tables
  <1>9. ASSUME NEW r \in Requests PROVE RequestInv(r)'
    <2>1. CASE r = q
      BY <1>5, <1>6, <1>7, <2>1, Zenon DEF RequestInv, Args
    <2>2. CASE r # q
      BY <1>7, <2>2, RequestSame, Zenon
    <2> QED BY <2>1, <2>2, Zenon
  <1> QED BY <1>1, <1>2, <1>8, <1>9, SeedSame, TokenSame, Zenon DEF IInv

\* A request is admitted with the claims of its token.
LEMMA StepAdmit ==
    ASSUME IInv, TrackLoss(0), NEW q \in Requests, NEW t \in Tokens, AdmitAny(q, t)
    PROVE  IInv'
  <1> DEFINE A == [role : Nat, perm : Nat, user : Users \cup {""}, text : Texts]
  <1>1. NoArgs \in A
    BY DEF NoArgs, Texts
  <1>2. Rows(roles) \subseteq Nat /\ Rows(perms) \subseteq Nat
    BY DEF Rows, IInv, AccTypeOK, RoleIDs, PermissionIDs
  <1>3. ASSUME NEW r \in Nat, NEW p \in Nat, NEW text \in Names \cup Keys
        PROVE  /\ [NoArgs EXCEPT !.text = text] \in A /\ [NoArgs EXCEPT !.text = text].text = text
               /\ [NoArgs EXCEPT !.role = r, !.text = text] \in A
               /\ [NoArgs EXCEPT !.role = r, !.text = text].text = text
               /\ [NoArgs EXCEPT !.perm = p, !.text = text] \in A
               /\ [NoArgs EXCEPT !.perm = p, !.text = text].text = text
    BY <1>1, Zenon DEF Texts
  <1>4. {RolesManage, PermissionsManage, UsersManage} \subseteq Keys
    BY AccessAssumption
  <1>5. ASSUME NEW op \in Ops, NEW key \in Keys, NEW args \in A,
               op \in {"CreateRole", "UpdateRole"} => args.text \in Names,
               op \in {"CreatePermission", "UpdatePermission"} => args.text \in Keys,
               Admit(q, t, op, key, args)
        PROVE  IInv'
    BY <1>5, Admitted, Zenon
  <1>6. ASSUME NEW r \in Nat, NEW p \in Nat
        PROVE  /\ [NoArgs EXCEPT !.role = r] \in A
               /\ [NoArgs EXCEPT !.perm = p] \in A
               /\ [NoArgs EXCEPT !.role = r, !.perm = p] \in A
               /\ \A u \in Users : [NoArgs EXCEPT !.role = r, !.user = u] \in A
    BY <1>1, Zenon
  <1> HIDE DEF A
  <1>7. ASSUME NEW name \in Names, NEW args, args = [NoArgs EXCEPT !.text = name],
               Admit(q, t, "CreateRole", RolesManage, args)
        PROVE  IInv'
    <2>1. args \in A /\ args.text = name
      BY <1>3, <1>7, Zenon
    <2> QED BY <1>4, <1>5, <1>7, <2>1, Zenon DEF Ops
  <1>8. ASSUME NEW name \in Names, NEW r \in Rows(roles), NEW args,
               args = [NoArgs EXCEPT !.role = r, !.text = name],
               Admit(q, t, "UpdateRole", RolesManage, args)
        PROVE  IInv'
    <2>1. args \in A /\ args.text = name
      BY <1>2, <1>3, <1>8, Zenon
    <2> QED BY <1>4, <1>5, <1>8, <2>1, Zenon DEF Ops
  <1>9. ASSUME NEW r \in Rows(roles), NEW args, args = [NoArgs EXCEPT !.role = r],
               Admit(q, t, "DeleteRole", RolesManage, args)
        PROVE  IInv'
    <2>1. args \in A
      BY <1>2, <1>6, <1>9, Zenon
    <2> QED BY <1>4, <1>5, <1>9, <2>1, Zenon DEF Ops
  <1>10. ASSUME NEW r \in Rows(roles), NEW p \in Rows(perms), NEW args,
                NEW op \in {"AssignPermissionToRole", "RemovePermissionFromRole"},
                args = [NoArgs EXCEPT !.role = r, !.perm = p], Admit(q, t, op, RolesManage, args)
        PROVE  IInv'
    <2>1. args \in A
      BY <1>2, <1>6, <1>10, Zenon
    <2> QED BY <1>4, <1>5, <1>10, <2>1, Zenon DEF Ops
  <1>11. ASSUME NEW r \in Rows(roles), NEW u \in Users, NEW args,
                NEW op \in {"AssignRoleToUser", "RemoveRoleFromUser"},
                args = [NoArgs EXCEPT !.role = r, !.user = u], Admit(q, t, op, UsersManage, args)
        PROVE  IInv'
    <2>1. args \in A
      BY <1>2, <1>6, <1>11, Zenon
    <2> QED BY <1>4, <1>5, <1>11, <2>1, Zenon DEF Ops
  <1>12. ASSUME NEW key \in Keys, NEW args, args = [NoArgs EXCEPT !.text = key],
                Admit(q, t, "CreatePermission", PermissionsManage, args)
        PROVE  IInv'
    <2>1. args \in A /\ args.text = key
      BY <1>3, <1>12, Zenon
    <2> QED BY <1>4, <1>5, <1>12, <2>1, Zenon DEF Ops
  <1>13. ASSUME NEW key \in Keys, NEW p \in Rows(perms), NEW args,
                args = [NoArgs EXCEPT !.perm = p, !.text = key],
                Admit(q, t, "UpdatePermission", PermissionsManage, args)
        PROVE  IInv'
    <2>1. args \in A /\ args.text = key
      BY <1>2, <1>3, <1>13, Zenon
    <2> QED BY <1>4, <1>5, <1>13, <2>1, Zenon DEF Ops
  <1>14. ASSUME NEW p \in Rows(perms), NEW args, args = [NoArgs EXCEPT !.perm = p],
                Admit(q, t, "DeletePermission", PermissionsManage, args)
        PROVE  IInv'
    <2>1. args \in A
      BY <1>2, <1>6, <1>14, Zenon
    <2> QED BY <1>4, <1>5, <1>14, <2>1, Zenon DEF Ops
  <1> QED BY <1>7, <1>8, <1>9, <1>10, <1>11, <1>12, <1>13, <1>14, Zenon DEF AdmitAny
-----------------------------------------------------------------------------
(* Steps that change the tables.                                             *)

TablesTyped ==
    /\ roles \in [RoleIDs -> Names \cup {Unborn, Gone}]
    /\ perms \in [PermissionIDs -> Keys \cup {Unborn, Gone}]

\* A role that is created adds a row and removes none.
LEMMA CreateRoleGrows ==
    ASSUME TablesTyped, NEW name \in Names, NEW err, Fresh(roles), repoCreateRole(name, err)
    PROVE  /\ TablesTyped' /\ Grows
           /\ err = "nil" => NewID(roles) \in With(roles', name) /\ NewID(roles) \in Nat
  <1>1. NewID(roles) \in RoleIDs /\ roles[NewID(roles)] = Unborn /\ NewID(roles) \in Nat
    BY NewIDUnborn, AccessAssumption DEF TablesTyped, RoleIDs
  <1>2. PICK id \in RoleIDs : id = NewID(roles) /\ roles[id] = Unborn
    BY <1>1
  <1>3. CASE roles' = [roles EXCEPT ![id] = name] /\ UNCHANGED <<perms, userRoles, rolePerms>>
    BY <1>1, <1>2, <1>3 DEF TablesTyped, Grows, GrowsTo, With
  <1>4. CASE UNCHANGED <<roles, perms, userRoles, rolePerms>> /\ err = "failed"
    BY <1>4 DEF TablesTyped, Grows, GrowsTo
  <1> QED BY <1>2, <1>3, <1>4 DEF repoCreateRole

\* A permission that is created adds a row and removes none.
LEMMA CreatePermissionGrows ==
    ASSUME TablesTyped, NEW key \in Keys, NEW err, Fresh(perms), repoCreatePermission(key, err)
    PROVE  /\ TablesTyped' /\ Grows
           /\ err = "nil" => NewID(perms) \in With(perms', key) /\ NewID(perms) \in Nat
  <1>1. NewID(perms) \in PermissionIDs /\ perms[NewID(perms)] = Unborn /\ NewID(perms) \in Nat
    BY NewIDUnborn, AccessAssumption DEF TablesTyped, PermissionIDs
  <1>2. PICK id \in PermissionIDs : id = NewID(perms) /\ perms[id] = Unborn
    BY <1>1
  <1>3. CASE perms' = [perms EXCEPT ![id] = key] /\ UNCHANGED <<roles, userRoles, rolePerms>>
    BY <1>1, <1>2, <1>3 DEF TablesTyped, Grows, GrowsTo, With
  <1>4. CASE UNCHANGED <<perms, roles, userRoles, rolePerms>> /\ err = "failed"
    BY <1>4 DEF TablesTyped, Grows, GrowsTo
  <1> QED BY <1>2, <1>3, <1>4 DEF repoCreatePermission

\* The statements that only add links, or only touch the roles of users.
LEMMA LinkGrows ==
    ASSUME TablesTyped, NEW err,
           \/ \E r, p : repoAssignPermissionToRole(r, p, err)
           \/ \E u, r : repoAssignRoleToUser(u, r, err) \/ repoRemoveRoleFromUser(u, r, err)
    PROVE  TablesTyped' /\ Grows
  BY DEF TablesTyped, Grows, GrowsTo, repoAssignPermissionToRole, repoAssignRoleToUser,
         repoRemoveRoleFromUser

\* The statements that may take something away leave typed tables.
LEMMA UpdateTyped ==
    ASSUME TablesTyped, NEW err, NEW id, NEW name \in Names, NEW key \in Keys,
           \/ repoUpdateRole(id, name, err) \/ repoDeleteRole(id, err)
           \/ repoUpdatePermission(id, key, err) \/ repoDeletePermission(id, err)
           \/ \E r, p : repoRemovePermissionFromRole(r, p, err)
    PROVE  TablesTyped'
  BY DEF TablesTyped, repoUpdateRole, repoDeleteRole, repoUpdatePermission, repoDeletePermission,
         repoRemovePermissionFromRole, Rows

\* The answer to a request ends it.
LEMMA Answered ==
    ASSUME IInv, NEW q \in Requests, Answer(q)
    PROVE  requests' \in [Requests -> Request] /\ \A r \in Requests : RequestInv(r)'
  <1>1. /\ NoRequest \in Request /\ NoRequest.op = "" /\ NoRequest.pc = "idle"
    BY DEF NoRequest, NoArgs, Request, Ops, Texts
  <1>2. requests \in [Requests -> Request] /\ requests' = [requests EXCEPT ![q] = NoRequest]
    BY DEF IInv, AccTypeOK, Answer
  <1>3. requests' \in [Requests -> Request] /\ requests'[q] = NoRequest
    BY <1>1, <1>2, Zenon
  <1>4. ASSUME NEW r \in Requests PROVE RequestInv(r)'
    <2>1. CASE r = q
      BY <1>1, <1>3, <2>1, Zenon DEF RequestInv, Args
    <2>2. CASE r # q
      BY <1>2, <2>2, RequestSame
    <2> QED BY <2>1, <2>2
  <1> QED BY <1>3, <1>4

\* A step of a request, or by hand: the seeds keep what they have or are undone.
LEMMA TableStepKeeps ==
    ASSUME IInv, TrackLoss(0), TablesTyped', UNCHANGED tokens,
           requests' \in [Requests -> Request], \A r \in Requests : RequestInv(r)',
           (Grows /\ UNCHANGED instances) \/ Undo
    PROVE  IInv'
  <1>1. /\ lost' \in [Users -> [Keys -> Nat]] /\ LostInv'
        /\ \A t \in Tokens : TokenInv(t)'
    BY LossKept DEF TablesTyped
  <1>2. \A i \in Instances : SeedInv(i)'
    <2>1. CASE Grows /\ UNCHANGED instances
      BY <2>1, SeedKept DEF IInv
    <2>2. CASE Undo
      BY <2>2, SeedUndone DEF IInv
    <2> QED BY <2>1, <2>2
  <1>3. instances' \in [Instances -> InstanceRecord]
    <2>1. CASE Grows /\ UNCHANGED instances
      BY <2>1 DEF IInv, AccTypeOK
    <2>2. CASE Undo
      <3>1. \A i \in Instances : instances'[i] \in InstanceRecord
        BY <2>2, SeedUndone DEF IInv
      <3> QED BY <2>2, <3>1 DEF Undo
    <2> QED BY <2>1, <2>2
  <1>4. AccTypeOK'
    BY <1>1, <1>3 DEF IInv, AccTypeOK, TablesTyped
  <1> QED BY <1>1, <1>2, <1>4 DEF IInv

\* The update handlers read the row first.
LEMMA StepGet ==
    ASSUME IInv, TrackLoss(0), NEW q \in Requests, UpdateRoleGet(q) \/ UpdatePermissionGet(q)
    PROVE  IInv'
  <1>1. UNCHANGED tables /\ UNCHANGED instances /\ UNCHANGED tokens
    BY DEF UpdateRoleGet, UpdatePermissionGet, rest
  <1>2. TablesTyped' /\ Grows
    BY <1>1 DEF IInv, AccTypeOK, TablesTyped, Grows, GrowsTo, tables
  <1>3. requests' \in [Requests -> Request] /\ \A r \in Requests : RequestInv(r)'
    <2>1. CASE Answer(q)
      BY <2>1, Answered
    <2>2. CASE /\ requests' = [requests EXCEPT ![q].pc = "update"]
               /\ requests[q].pc = "handler"
      <3>1. requests \in [Requests -> Request]
        BY DEF IInv, AccTypeOK
      <3>2. PICK x \in Request : x = requests[q]
        BY <3>1
      <3>3. PICK y : y = [x EXCEPT !.pc = "update"]
        BY Zenon
      <3>4. y \in Request /\ y.op = x.op /\ y.args = x.args /\ y.stale = x.stale
        BY <3>3, Zenon DEF Request
      <3>5. requests' = [requests EXCEPT ![q] = y]
        BY <2>2, <3>2, <3>3
      <3>6. requests' \in [Requests -> Request]
        BY <3>1, <3>4, <3>5
      <3>7. ASSUME NEW r \in Requests PROVE RequestInv(r)'
        <4>1. CASE r = q
          <5>1. RequestInv(q)
            BY DEF IInv
          <5> QED BY <2>2, <3>1, <3>2, <3>4, <3>5, <4>1, <5>1 DEF RequestInv, Args
        <4>2. CASE r # q
          BY <3>5, <4>2, RequestSame
        <4> QED BY <4>1, <4>2
      <3> QED BY <3>6, <3>7
    <2> QED BY <2>1, <2>2 DEF UpdateRoleGet, UpdatePermissionGet, At
  <1> QED BY <1>1, <1>2, <1>3, TableStepKeeps

\* A handler does its change and its request ends.
LEMMA StepHandler ==
    ASSUME IInv, TrackLoss(0), NEW q \in Requests, Handler(q)
    PROVE  IInv'
  <1>1. TablesTyped /\ RequestInv(q)
    BY DEF IInv, AccTypeOK, TablesTyped
  <1>2. PICK name \in Names, key \in Keys : TRUE
    BY CoreFacts, AccessAssumption
  <1>3. CASE UpdateRoleGet(q) \/ UpdatePermissionGet(q)
    BY <1>3, StepGet
  <1>4. ASSUME TablesTyped', UNCHANGED rest, Answer(q), (Grows /\ UNCHANGED instances) \/ Undo
        PROVE  IInv'
    BY <1>4, Answered, TableStepKeeps DEF rest
  <1>5. CASE CreateRole(q)
    <2>1. PICK err \in Errors : repoCreateRole(Args(q).text, err) /\ Answer(q)
      BY <1>5 DEF CreateRole
    <2>2. Args(q).text \in Names /\ Fresh(roles) /\ UNCHANGED <<instances, rest>>
      BY <1>1, <1>5 DEF CreateRole, At, RequestInv
    <2> QED BY <1>1, <1>4, <2>1, <2>2, CreateRoleGrows
  <1>6. CASE CreatePermission(q)
    <2>1. PICK err \in Errors : repoCreatePermission(Args(q).text, err) /\ Answer(q)
      BY <1>6 DEF CreatePermission
    <2>2. Args(q).text \in Keys /\ Fresh(perms) /\ UNCHANGED <<instances, rest>>
      BY <1>1, <1>6 DEF CreatePermission, At, RequestInv
    <2> QED BY <1>1, <1>4, <2>1, <2>2, CreatePermissionGrows
  <1>7. CASE AssignPermissionToRole(q) \/ AssignRoleToUser(q) \/ RemoveRoleFromUser(q)
    <2>1. PICK err \in Errors :
              /\ Answer(q)
              /\ \/ \E r, p : repoAssignPermissionToRole(r, p, err)
                 \/ \E u, r : repoAssignRoleToUser(u, r, err) \/ repoRemoveRoleFromUser(u, r, err)
      BY <1>7 DEF AssignPermissionToRole, AssignRoleToUser, RemoveRoleFromUser
    <2>2. UNCHANGED <<instances, rest>>
      BY <1>7 DEF AssignPermissionToRole, AssignRoleToUser, RemoveRoleFromUser
    <2>3. TablesTyped' /\ Grows
      BY <1>1, <2>1, LinkGrows
    <2> QED BY <1>4, <2>1, <2>2, <2>3
  <1>8. CASE UpdateRole(q)
    <2>1. PICK err \in Errors : repoUpdateRole(Args(q).role, Args(q).text, err) /\ Answer(q)
      BY <1>8 DEF UpdateRole
    <2>2. Args(q).text \in Names /\ Undo /\ UNCHANGED rest
      BY <1>1, <1>8 DEF UpdateRole, At, RequestInv
    <2>3. TablesTyped'
      BY <1>1, <1>2, <2>1, <2>2, UpdateTyped
    <2> QED BY <1>4, <2>1, <2>2, <2>3
  <1>9. CASE UpdatePermission(q)
    <2>1. PICK err \in Errors : repoUpdatePermission(Args(q).perm, Args(q).text, err) /\ Answer(q)
      BY <1>9 DEF UpdatePermission
    <2>2. Args(q).text \in Keys /\ Undo /\ UNCHANGED rest
      BY <1>1, <1>9 DEF UpdatePermission, At, RequestInv
    <2>3. TablesTyped'
      BY <1>1, <1>2, <2>1, <2>2, UpdateTyped, Zenon
    <2> QED BY <1>4, <2>1, <2>2, <2>3
  <1>10. CASE DeleteRole(q) \/ DeletePermission(q) \/ RemovePermissionFromRole(q)
    <2>1. PICK err \in Errors, id \in {Args(q).role, Args(q).perm} :
              /\ Answer(q)
              /\ \/ repoDeleteRole(id, err) \/ repoDeletePermission(id, err)
                 \/ \E r, p : repoRemovePermissionFromRole(r, p, err)
      BY <1>10 DEF DeleteRole, DeletePermission, RemovePermissionFromRole
    <2>2. Undo /\ UNCHANGED rest
      BY <1>10 DEF DeleteRole, DeletePermission, RemovePermissionFromRole
    <2>3. TablesTyped'
      BY <1>1, <1>2, <2>1, UpdateTyped, Zenon
    <2> QED BY <1>4, <2>1, <2>2, <2>3
  <1> QED BY <1>3, <1>5, <1>6, <1>7, <1>8, <1>9, <1>10 DEF Handler

\* The first administrator is made by hand.
LEMMA StepGrantFirstAdmin ==
    ASSUME IInv, TrackLoss(0), NEW u \in Users, GrantFirstAdmin(u)
    PROVE  IInv'
  <1>1. TablesTyped
    BY DEF IInv, AccTypeOK, TablesTyped
  <1>2. PICK err \in Errors : \E r : repoAssignRoleToUser(u, r, err)
    BY DEF GrantFirstAdmin
  <1>3. TablesTyped' /\ Grows
    BY <1>1, <1>2, LinkGrows
  <1>4. UNCHANGED <<instances, requests, tokens>>
    BY DEF GrantFirstAdmin, rest
  <1>5. requests' \in [Requests -> Request] /\ \A q \in Requests : RequestInv(q)'
    BY <1>4, RequestSame DEF IInv, AccTypeOK
  <1> QED BY <1>3, <1>4, <1>5, TableStepKeeps
-----------------------------------------------------------------------------
(* The steps of a seed.                                                      *)

\* A step of one instance: the others keep what they have achieved.
LEMMA SeedStepKeeps ==
    ASSUME IInv, TrackLoss(0), NEW i \in Instances, TablesTyped', Grows, UNCHANGED <<tokens, requests>>,
           NEW x \in InstanceRecord, instances' = [instances EXCEPT ![i] = x], SeedInv(i)'
    PROVE  IInv'
  <1>1. /\ lost' \in [Users -> [Keys -> Nat]] /\ LostInv'
        /\ \A t \in Tokens : TokenInv(t)'
    BY LossKept DEF TablesTyped
  <1>2. instances \in [Instances -> InstanceRecord]
    BY DEF IInv, AccTypeOK
  <1>3. ASSUME NEW j \in Instances PROVE SeedInv(j)'
    <2>1. CASE j # i
      BY <1>2, <2>1, SeedKept DEF IInv
    <2> QED BY <2>1
  <1>4. AccTypeOK'
    BY <1>1, <1>2 DEF IInv, AccTypeOK, TablesTyped
  <1> QED BY <1>1, <1>3, <1>4, RequestSame DEF IInv

\* The records of an instance that starts, fails, or serves.
LEMMA InstanceRecords ==
    ASSUME NEW x \in InstanceRecord, NEW starts \in Nat
    PROVE  /\ NotStarted \in InstanceRecord
           /\ [NotStarted EXCEPT !.pc = "getperm", !.starts = starts] \in InstanceRecord
           /\ [NotStarted EXCEPT !.pc = "getperm", !.starts = starts].pc = "getperm"
           /\ [NotStarted EXCEPT !.pc = "getperm", !.starts = starts].n = 1
           /\ [NotStarted EXCEPT !.pc = "getperm", !.starts = starts].permissionMap = <<>>
           /\ [NotStarted EXCEPT !.pc = "serving", !.starts = starts] \in InstanceRecord
           /\ [NotStarted EXCEPT !.pc = "serving", !.starts = starts].pc = "serving"
           /\ [x EXCEPT !.pc = "failed"] \in InstanceRecord
           /\ [x EXCEPT !.pc = "failed"].pc = "failed"
  <1>1. NotStarted \in InstanceRecord /\ NotStarted.n = 1 /\ NotStarted.permissionMap = <<>>
    BY DEF NotStarted, InstanceRecord, SeedPCs
  <1> QED BY <1>1, Zenon DEF InstanceRecord, SeedPCs

\* An instance that is not seeding has nothing to keep.
LEMMA NotSeedingKeeps ==
    ASSUME NEW i \in Instances, instances'[i].pc \in {"down", "failed", "serving"}
    PROVE  SeedInv(i)'
  BY DEF SeedInv, Position, SeedPCs

\* The tables of a step that changes none of them.
LEMMA TablesSame ==
    ASSUME IInv, UNCHANGED tables
    PROVE  TablesTyped' /\ Grows
  BY DEF IInv, AccTypeOK, TablesTyped, Grows, GrowsTo, tables

\* An instance starts, starts again or fails.
LEMMA StepStart ==
    ASSUME IInv, TrackLoss(0), NEW i \in Instances, Start(i) \/ Restart(i) \/ Fail(i)
    PROVE  IInv'
  <1>1. UNCHANGED tables /\ UNCHANGED <<tokens, requests>>
    BY DEF Start, Restart, Fail, others
  <1>2. instances \in [Instances -> InstanceRecord]
    BY DEF IInv, AccTypeOK
  <1>3. PICK x \in InstanceRecord : x = instances[i]
    BY <1>2
  <1>4. CASE Start(i) \/ Restart(i)
    <2>1. PICK starts \in Nat :
              instances' = [instances EXCEPT ![i] = [NotStarted EXCEPT !.pc = "getperm", !.starts = starts]]
      <3>1. x.starts \in Nat /\ x.starts + 1 \in Nat
        BY DEF InstanceRecord
      <3>2. CASE Start(i)
        BY <1>3, <3>1, <3>2, Zenon DEF Start, Instance
      <3>3. CASE Restart(i)
        BY <1>3, <3>1, <3>3, Zenon DEF Restart, Instance
      <3> QED BY <1>4, <3>2, <3>3, Zenon
    <2>2. PICK y \in InstanceRecord : /\ y = [NotStarted EXCEPT !.pc = "getperm", !.starts = starts]
                                      /\ y.pc = "getperm" /\ y.n = 1 /\ y.permissionMap = <<>>
      BY InstanceRecords, Zenon
    <2>3. instances' = [instances EXCEPT ![i] = y] /\ instances'[i] = y
      BY <1>2, <2>1, <2>2
    <2>4. SeedInv(i)'
      <3>1. Len(y.permissionMap) = 0 /\ DOMAIN y.permissionMap = {}
        BY <2>2
      <3>2. Position(y)
        BY <2>2, <3>1, CoreFacts DEF Position
      <3>3. Achieved(y)'
        BY <2>2, <3>1 DEF Achieved
      <3> QED BY <2>3, <3>2, <3>3 DEF SeedInv
    <2> QED BY <1>1, <2>3, <2>4, TablesSame, SeedStepKeeps, Zenon
  <1>5. CASE Fail(i)
    <2>1. PICK y \in InstanceRecord : y = [x EXCEPT !.pc = "failed"] /\ y.pc = "failed"
      <3>1. 0 \in Nat
        OBVIOUS
      <3> QED BY <3>1, InstanceRecords, Zenon
    <2>2. instances' = [instances EXCEPT ![i] = y] /\ instances'[i] = y
      BY <1>2, <1>3, <1>5, <2>1 DEF Fail
    <2> QED BY <1>1, <2>1, <2>2, NotSeedingKeeps, TablesSame, SeedStepKeeps, Zenon
  <1> QED BY <1>4, <1>5

\* A step of a seed that fails, or goes from a query to the insert behind it.
LEMMA SeedMovesOn ==
    ASSUME IInv, TrackLoss(0), NEW i \in Instances, TablesTyped', Grows, UNCHANGED <<tokens, requests>>,
           NEW pc, instances' = [instances EXCEPT ![i].pc = pc],
           \/ pc = "failed"
           \/ pc = "createperm" /\ InstanceAt(i, "getperm")
           \/ pc = "createrole" /\ InstanceAt(i, "getrole")
    PROVE  IInv'
  <1>1. instances \in [Instances -> InstanceRecord]
    BY DEF IInv, AccTypeOK
  <1>2. PICK x \in InstanceRecord : x = instances[i]
    BY <1>1
  <1>3. PICK y : y = [x EXCEPT !.pc = pc]
    BY Zenon
  <1>4. /\ y \in InstanceRecord /\ y.pc = pc /\ y.n = x.n /\ y.m = x.m /\ y.roleID = x.roleID
        /\ y.permissionMap = x.permissionMap /\ y.undone = x.undone
    BY <1>3, Zenon DEF InstanceRecord, SeedPCs
  <1>5. instances' = [instances EXCEPT ![i] = y] /\ instances'[i] = y
    BY <1>1, <1>2, <1>3
  <1>6. CASE pc = "failed"
    BY <1>4, <1>5, <1>6, NotSeedingKeeps, SeedStepKeeps, Zenon
  <1>7. CASE pc # "failed"
    <2>1. SeedInv(i)
      BY DEF IInv
    <2>2. Position(x) /\ Position(y) /\ x.pc \in SeedPCs /\ x.pc # "assign" /\ y.pc # "assign"
      BY <1>2, <1>4, <1>7, <2>1 DEF SeedInv, Position, InstanceAt, Instance, SeedPCs
    <2>3. ASSUME Achieved(x) PROVE Achieved(y)'
      <3>1. Achieved(x)'
        BY <2>2, <2>3, AchievedKept
      <3> QED BY <1>2, <1>4, <1>7, <2>2, <3>1 DEF Achieved, InstanceAt, Instance
    <2>4. SeedInv(i)'
      BY <1>2, <1>4, <1>5, <2>1, <2>2, <2>3 DEF SeedInv
    <2> QED BY <1>4, <1>5, <2>4, SeedStepKeeps, Zenon
  <1> QED BY <1>6, <1>7

\* A core permission is found, or inserted: the seed goes to the next, or on to
\* the roles.
LEMMA PermissionFound ==
    ASSUME IInv, TrackLoss(0), NEW i \in Instances, TablesTyped', Grows, UNCHANGED <<tokens, requests>>,
           instances[i].pc \in {"getperm", "createperm"}, NEW id \in Nat,
           id \in With(perms', CorePermissions[instances[i].n]), Found(i, id)
    PROVE  IInv'
  <1>1. instances \in [Instances -> InstanceRecord]
    BY DEF IInv, AccTypeOK
  <1>2. PICK x \in InstanceRecord : x = instances[i]
    BY <1>1
  <1>3. /\ x.permissionMap \in Seq(Nat) /\ x.n \in DOMAIN CorePermissions /\ x.n \in Nat
        /\ Len(x.permissionMap) = x.n - 1 /\ SeedInv(i) /\ Position(x) /\ x.pc \in SeedPCs
    BY <1>2, CoreFacts DEF InstanceRecord, IInv, SeedInv, Position, SeedPCs
  <1>4. PICK pm \in Seq(Nat) : /\ pm = Append(x.permissionMap, id) /\ Len(pm) = x.n
                               /\ DOMAIN pm = 1 .. x.n /\ pm[x.n] = id
                               /\ \A k \in 1 .. x.n - 1 : pm[k] = x.permissionMap[k]
    <2>1. PICK s \in Seq(Nat) : s = x.permissionMap
      BY <1>3
    <2>2. /\ Append(s, id) \in Seq(Nat) /\ Len(Append(s, id)) = Len(s) + 1
          /\ Append(s, id)[Len(s) + 1] = id
          /\ \A k \in 1 .. Len(s) : Append(s, id)[k] = s[k]
      OBVIOUS
    <2>3. Len(s) + 1 = x.n
      BY <1>3, <2>1
    <2>4. DOMAIN Append(s, id) = 1 .. x.n
      BY <2>2, <2>3
    <2> QED BY <1>3, <2>1, <2>2, <2>3, <2>4, Zenon
  <1>5. PICK n \in Nat, pc \in {"getperm", "getrole"} :
            /\ n = IF x.n < Len(CorePermissions) THEN x.n + 1 ELSE 1
            /\ pc = IF x.n < Len(CorePermissions) THEN "getperm" ELSE "getrole"
    BY <1>3
  <1>6. PICK y : y = [x EXCEPT !.permissionMap = pm, !.n = n, !.pc = pc]
    OBVIOUS
  <1>7. /\ y \in InstanceRecord /\ y.pc = pc /\ y.n = n /\ y.permissionMap = pm /\ y.undone = x.undone
    BY <1>6, Zenon DEF InstanceRecord, SeedPCs
  <1>8. instances' = [instances EXCEPT ![i] = y] /\ instances'[i] = y
    BY <1>1, <1>2, <1>4, <1>5, <1>6 DEF Found, Instance
  <1>9. Position(y)
    <2>1. CASE x.n < Len(CorePermissions)
      <3>1. n \in DOMAIN CorePermissions /\ Len(pm) = n - 1 /\ pc = "getperm"
        BY <1>3, <1>4, <1>5, <2>1, CoreFacts
      <3> QED BY <1>7, <3>1 DEF Position
    <2>2. CASE ~ (x.n < Len(CorePermissions))
      <3>1. n = 1 /\ Len(pm) = Len(CorePermissions) /\ pc = "getrole"
        BY <1>3, <1>4, <1>5, <2>2, CoreFacts
      <3> QED BY <1>7, <3>1, CoreFacts DEF Position
    <2> QED BY <2>1, <2>2
  <1>10. ASSUME Achieved(x) PROVE Achieved(y)'
    <2>1. Achieved(x)'
      BY <1>3, <1>10, AchievedKept
    <2>2. ASSUME NEW k \in DOMAIN pm PROVE pm[k] \in With(perms', CorePermissions[k])
      <3>1. CASE k = x.n
        BY <1>2, <1>4, <3>1
      <3>2. CASE k # x.n
        <4>1. k \in 1 .. x.n - 1 /\ k \in DOMAIN x.permissionMap
          BY <1>3, <1>4, <2>2, <3>2
        <4> QED BY <1>4, <2>1, <4>1 DEF Achieved
      <3> QED BY <3>1, <3>2
    <2>3. pc = "getrole" => n = 1
      BY <1>5
    <2> QED BY <1>7, <2>2, <2>3 DEF Achieved
  <1>11. SeedInv(i)'
    BY <1>2, <1>3, <1>7, <1>8, <1>9, <1>10 DEF SeedInv
  <1> QED BY <1>7, <1>8, <1>11, SeedStepKeeps, Zenon

\* The seed looks a core permission up and creates it when it is missing.
LEMMA StepSeedPermission ==
    ASSUME IInv, TrackLoss(0), NEW i \in Instances, SeedGetPermission(i) \/ SeedCreatePermission(i)
    PROVE  IInv'
  <1>1. /\ instances[i].pc \in {"getperm", "createperm"} /\ UNCHANGED <<tokens, requests>>
    BY DEF SeedGetPermission, SeedCreatePermission, InstanceAt, Instance, others
  <1>2. TablesTyped /\ CorePermissions[instances[i].n] \in Keys
    <2>1. TablesTyped
      BY DEF IInv, AccTypeOK, TablesTyped
    <2>2. instances[i].n \in DOMAIN CorePermissions
      BY <1>1 DEF IInv, SeedInv, Position
    <2>3. \A n \in DOMAIN CorePermissions : CorePermissions[n] \in Keys
      BY CoreFacts
    <2> QED BY <2>1, <2>2, <2>3
  <1>3. PICK key \in Keys : key = CorePermissions[instances[i].n]
    BY <1>2
  <1>4. CASE SeedGetPermission(i)
    <2>1. TablesTyped' /\ Grows /\ UNCHANGED perms /\ InstanceAt(i, "getperm")
      BY <1>4, TablesSame DEF SeedGetPermission, tables
    <2>2. CASE \E id \in With(perms, key) : Found(i, id)
      <3>1. PICK id \in With(perms, key) : Found(i, id)
        BY <2>2
      <3>2. id \in Nat /\ id \in With(perms', key)
        <4>1. id \in With(perms', key)
          BY <2>1
        <4>2. id \in PermissionIDs
          BY <1>2 DEF With, TablesTyped
        <4> QED BY <4>1, <4>2 DEF PermissionIDs
      <3> QED BY <1>1, <1>3, <2>1, <3>1, <3>2, PermissionFound, Zenon
    <2>3. CASE instances' = [instances EXCEPT ![i].pc = "createperm"]
      BY <1>1, <2>1, <2>3, SeedMovesOn, Zenon
    <2> QED BY <1>3, <1>4, <2>2, <2>3 DEF SeedGetPermission, Instance
  <1>5. CASE SeedCreatePermission(i)
    <2>1. PICK err \in Errors :
              /\ repoCreatePermission(key, err)
              /\ IF err = "nil" THEN Found(i, NewID(perms))
                                ELSE instances' = [instances EXCEPT ![i].pc = "failed"]
      BY <1>3, <1>5 DEF SeedCreatePermission, Instance
    <2>2. /\ TablesTyped' /\ Grows
          /\ err = "nil" => NewID(perms) \in With(perms', key) /\ NewID(perms) \in Nat
      BY <1>2, <1>5, <2>1, CreatePermissionGrows DEF SeedCreatePermission
    <2>3. CASE err = "nil"
      BY <1>1, <1>3, <2>1, <2>2, <2>3, PermissionFound
    <2>4. CASE err # "nil"
      BY <1>1, <2>1, <2>2, <2>4, SeedMovesOn
    <2> QED BY <2>3, <2>4
  <1> QED BY <1>4, <1>5

\* A core role is found, or inserted: the seed goes on to its permissions.
LEMMA CoreRoleFound ==
    ASSUME IInv, TrackLoss(0), NEW i \in Instances, TablesTyped', Grows, UNCHANGED <<tokens, requests>>,
           instances[i].pc \in {"getrole", "createrole"}, NEW id \in Nat,
           id \in With(roles', CoreRoles[instances[i].n].name), RoleFound(i, id)
    PROVE  IInv'
  <1>1. instances \in [Instances -> InstanceRecord]
    BY DEF IInv, AccTypeOK
  <1>2. PICK x \in InstanceRecord : x = instances[i]
    BY <1>1
  <1>3. SeedInv(i) /\ Position(x) /\ x.pc \in SeedPCs
    BY <1>2 DEF IInv, SeedInv, SeedPCs
  <1>4. PICK y : y = [x EXCEPT !.roleID = id, !.m = 1, !.pc = "assign"]
    OBVIOUS
  <1>5. /\ y \in InstanceRecord /\ y.pc = "assign" /\ y.n = x.n /\ y.permissionMap = x.permissionMap
        /\ y.undone = x.undone /\ y.m = 1 /\ y.roleID = id
    BY <1>4, Zenon DEF InstanceRecord, SeedPCs
  <1>6. instances' = [instances EXCEPT ![i] = y] /\ instances'[i] = y
    BY <1>1, <1>2, <1>4 DEF RoleFound
  <1>7. Position(y)
    BY <1>2, <1>3, <1>5, CoreFacts DEF Position
  <1>8. ASSUME Achieved(x) PROVE Achieved(y)'
    <2>1. Achieved(x)'
      BY <1>3, <1>8, AchievedKept
    <2> QED BY <1>2, <1>5, <2>1 DEF Achieved
  <1>9. SeedInv(i)'
    BY <1>2, <1>3, <1>5, <1>6, <1>7, <1>8 DEF SeedInv
  <1> QED BY <1>5, <1>6, <1>9, SeedStepKeeps, Zenon

\* The seed looks a core role up and creates it when it is missing.
LEMMA StepSeedRole ==
    ASSUME IInv, TrackLoss(0), NEW i \in Instances, SeedGetRole(i) \/ SeedCreateRole(i)
    PROVE  IInv'
  <1>1. /\ instances[i].pc \in {"getrole", "createrole"} /\ UNCHANGED <<tokens, requests>>
    BY DEF SeedGetRole, SeedCreateRole, InstanceAt, Instance, others
  <1>2. TablesTyped /\ CoreRoles[instances[i].n].name \in Names
    BY <1>1, CoreFacts DEF IInv, AccTypeOK, TablesTyped, SeedInv, Position
  <1>3. PICK name \in Names : name = CoreRoles[instances[i].n].name
    BY <1>2
  <1>4. CASE SeedGetRole(i)
    <2>1. TablesTyped' /\ Grows /\ UNCHANGED roles /\ InstanceAt(i, "getrole")
      BY <1>4, TablesSame DEF SeedGetRole, tables
    <2>2. CASE \E id \in With(roles, name) : RoleFound(i, id)
      <3>1. PICK id \in With(roles, name) : RoleFound(i, id)
        BY <2>2
      <3>2. id \in Nat /\ id \in With(roles', name)
        BY <1>2, <2>1 DEF With, TablesTyped, RoleIDs
      <3> QED BY <1>1, <1>3, <2>1, <3>1, <3>2, CoreRoleFound
    <2>3. CASE instances' = [instances EXCEPT ![i].pc = "createrole"]
      BY <1>1, <2>1, <2>3, SeedMovesOn, Zenon
    <2> QED BY <1>3, <1>4, <2>2, <2>3 DEF SeedGetRole, Instance
  <1>5. CASE SeedCreateRole(i)
    <2>1. PICK err \in Errors :
              /\ repoCreateRole(name, err)
              /\ IF err = "nil" THEN RoleFound(i, NewID(roles))
                                ELSE instances' = [instances EXCEPT ![i].pc = "failed"]
      BY <1>3, <1>5 DEF SeedCreateRole, Instance
    <2>2. /\ TablesTyped' /\ Grows
          /\ err = "nil" => NewID(roles) \in With(roles', name) /\ NewID(roles) \in Nat
      BY <1>2, <1>5, <2>1, CreateRoleGrows DEF SeedCreateRole
    <2>3. CASE err = "nil"
      BY <1>1, <1>3, <2>1, <2>2, <2>3, CoreRoleFound
    <2>4. CASE err # "nil"
      BY <1>1, <2>1, <2>2, <2>4, SeedMovesOn
    <2> QED BY <2>3, <2>4
  <1> QED BY <1>4, <1>5

\* The permission the next link is for.
AssignKey(x) == CoreRoles[x.n].perms[x.m]
AssignPermID(x) ==
    x.permissionMap[CHOOSE k \in DOMAIN CorePermissions : CorePermissions[k] = AssignKey(x)]

\* A link of a core role that is inserted, or was there, stands; with the last of
\* its links the role is granted.
LEMMA AssignLinks ==
    ASSUME NEW x \in InstanceRecord, x.pc = "assign", Position(x), Achieved(x), TablesTyped, Grows,
           repoAssignPermissionToRole(x.roleID, AssignPermID(x), "nil")
    PROVE  /\ Achieved(x)' /\ Linked(x.roleID, AssignKey(x))'
           /\ x.m = Len(CoreRoles[x.n].perms) => Granted(x.n)'
  <1>1. Achieved(x)'
    BY AchievedKept DEF SeedPCs
  <1>2. x.n \in DOMAIN CoreRoles /\ x.m \in DOMAIN CoreRoles[x.n].perms
        /\ Len(x.permissionMap) = Len(CorePermissions) /\ x.permissionMap \in Seq(Nat)
    BY DEF Position, InstanceRecord
  <1>3. PICK k \in DOMAIN CorePermissions :
            k = CHOOSE h \in DOMAIN CorePermissions : CorePermissions[h] = AssignKey(x)
    <2>1. \E h \in DOMAIN CorePermissions : CorePermissions[h] = AssignKey(x)
      BY <1>2, AccessAssumption, Zenon DEF AssignKey
    <2> QED BY <2>1
  <1>4. CorePermissions[k] = AssignKey(x)
    <2>1. \E h \in DOMAIN CorePermissions : CorePermissions[h] = AssignKey(x)
      BY <1>2, AccessAssumption DEF AssignKey
    <2> QED BY <1>3, <2>1
  <1>5. AssignPermID(x) \in With(perms', AssignKey(x))
    <2>1. k \in DOMAIN x.permissionMap
      <3>1. PICK pm \in Seq(Nat) : pm = x.permissionMap
        BY <1>2
      <3> QED BY <1>2, <3>1, CoreFacts
    <2> QED BY <1>1, <1>3, <1>4, <2>1, Zenon DEF Achieved, AssignPermID
  <1>6. <<x.roleID, AssignPermID(x)>> \in rolePerms'
    BY DEF repoAssignPermissionToRole
  <1>7. Linked(x.roleID, AssignKey(x))'
    BY <1>5, <1>6 DEF Linked
  <1>8. ASSUME x.m = Len(CoreRoles[x.n].perms) PROVE Granted(x.n)'
    <2>1. x.roleID \in With(roles', CoreRoles[x.n].name)
      BY <1>1 DEF Achieved
    <2>2. ASSUME NEW j \in DOMAIN CoreRoles[x.n].perms PROVE Linked(x.roleID, CoreRoles[x.n].perms[j])'
      <3>1. CASE j = x.m
        BY <1>7, <3>1 DEF AssignKey
      <3>2. CASE j # x.m
        <4>1. j \in 1 .. x.m - 1
          <5>1. x.m \in Nat /\ j \in 1 .. x.m
            BY <1>2, <1>8, <2>2, CoreFacts
          <5> QED BY <3>2, <5>1
        <4> QED BY <1>1, <4>1 DEF Achieved
      <3> QED BY <3>1, <3>2
    <2> QED BY <2>1, <2>2 DEF Granted
  <1> QED BY <1>1, <1>7, <1>8

\* The seed links a permission to a role; after the last link every core role
\* has its permissions, unless something was removed since the seed began.
LEMMA StepSeedAssign ==
    ASSUME IInv, TrackLoss(0), NEW i \in Instances, SeedAssign(i)
    PROVE  /\ IInv'
           /\ instances'[i].pc = "serving" => CoreGrants' \/ instances[i].undone = TRUE
  <1>1. instances \in [Instances -> InstanceRecord] /\ TablesTyped
    BY DEF IInv, AccTypeOK, TablesTyped
  <1>2. PICK x \in InstanceRecord : x = instances[i]
    BY <1>1
  <1>3. /\ x.pc = "assign" /\ SeedInv(i) /\ Position(x) /\ UNCHANGED <<tokens, requests>>
        /\ x.n \in Nat /\ x.m \in Nat /\ x.starts \in Nat
        /\ x.n \in DOMAIN CoreRoles /\ x.m \in DOMAIN CoreRoles[x.n].perms
    BY <1>2, Zenon DEF SeedAssign, InstanceAt, Instance, IInv, SeedInv, Position, others, InstanceRecord
  <1>4. PICK err \in Errors :
            /\ repoAssignPermissionToRole(x.roleID, AssignPermID(x), err)
            /\ IF err # "nil" THEN instances' = [instances EXCEPT ![i].pc = "failed"]
               ELSE IF x.m < Len(CoreRoles[x.n].perms) THEN instances' = [instances EXCEPT ![i].m = x.m + 1]
               ELSE NextRole(i)
    BY <1>2, Zenon DEF SeedAssign, Instance, AssignPermID, AssignKey
  <1>5. TablesTyped' /\ Grows
    BY <1>1, <1>4, LinkGrows
  <1>6. CASE err # "nil"
    <2>1. instances'[i].pc = "failed"
      BY <1>1, <1>2, <1>4, <1>6 DEF InstanceRecord
    <2> QED BY <1>3, <1>4, <1>5, <1>6, <2>1, SeedMovesOn
  <1>7. CASE err = "nil" /\ x.m < Len(CoreRoles[x.n].perms)
    <2>1. PICK y : y = [x EXCEPT !.m = x.m + 1]
      BY Zenon
    <2>2. /\ y \in InstanceRecord /\ y.pc = "assign" /\ y.n = x.n /\ y.permissionMap = x.permissionMap
          /\ y.undone = x.undone /\ y.m = x.m + 1 /\ y.roleID = x.roleID
      <3>1. PICK m \in Nat : m = x.m + 1
        BY <1>3
      <3> QED BY <1>3, <2>1, <3>1, Zenon DEF InstanceRecord
    <2>3. instances' = [instances EXCEPT ![i] = y] /\ instances'[i] = y
      BY <1>1, <1>2, <1>4, <1>7, <2>1
    <2>4. Position(y)
      <3>1. x.m + 1 \in DOMAIN CoreRoles[x.n].perms
        BY <1>3, <1>7, NextPlaces, Zenon
      <3> QED BY <1>3, <2>2, <3>1 DEF Position
    <2>5. ASSUME Achieved(x) PROVE Achieved(y)'
      <3>1. Achieved(x)' /\ Linked(x.roleID, AssignKey(x))'
        BY <1>1, <1>3, <1>4, <1>5, <1>7, <2>5, AssignLinks
      <3>2. ASSUME NEW j \in 1 .. x.m PROVE Linked(x.roleID, CoreRoles[x.n].perms[j])'
        <4>1. CASE j = x.m
          BY <3>1, <4>1 DEF AssignKey
        <4>2. CASE j # x.m
          <5>1. j \in 1 .. x.m - 1
            BY <1>3, <4>2
          <5> QED BY <1>3, <3>1, <5>1 DEF Achieved
        <4> QED BY <4>1, <4>2
      <3>3. y.m - 1 = x.m
        BY <1>3, <2>2
      <3> QED BY <1>3, <2>2, <3>1, <3>2, <3>3, Zenon DEF Achieved
    <2>6. SeedInv(i)'
      BY <1>2, <1>3, <2>2, <2>3, <2>4, <2>5 DEF SeedInv, SeedPCs
    <2> QED BY <1>3, <1>5, <2>2, <2>3, <2>6, SeedStepKeeps, Zenon
  <1>8. CASE err = "nil" /\ ~ (x.m < Len(CoreRoles[x.n].perms))
    <2>1. x.m = Len(CoreRoles[x.n].perms) /\ NextRole(i)
      BY <1>3, <1>4, <1>8, NextPlaces, Zenon
    <2>2. Achieved(x) => Achieved(x)' /\ Granted(x.n)'
      BY <1>1, <1>3, <1>4, <1>5, <1>8, <2>1, AssignLinks
    <2>3. CASE x.n < Len(CoreRoles)
      <3>1. PICK y : y = [x EXCEPT !.n = x.n + 1, !.pc = "getrole"]
        OBVIOUS
      <3>2. /\ y \in InstanceRecord /\ y.pc = "getrole" /\ y.n = x.n + 1 /\ y.permissionMap = x.permissionMap
            /\ y.undone = x.undone
        <4>1. PICK n \in Nat : n = x.n + 1
          BY <1>3
        <4> QED BY <3>1, <4>1, Zenon DEF InstanceRecord, SeedPCs
      <3>3. instances' = [instances EXCEPT ![i] = y] /\ instances'[i] = y
        BY <1>1, <1>2, <2>1, <2>3, <3>1 DEF NextRole, Instance
      <3>4. Position(y)
        <4>1. x.n + 1 \in DOMAIN CoreRoles
          BY <1>3, <2>3, NextPlaces, Zenon
        <4> QED BY <1>3, <3>2, <4>1 DEF Position
      <3>5. ASSUME Achieved(x) PROVE Achieved(y)'
        <4>1. ASSUME NEW n \in 1 .. x.n PROVE Granted(n)'
          <5>1. CASE n = x.n
            BY <2>2, <3>5, <5>1
          <5>2. CASE n # x.n
            <6>1. n \in 1 .. x.n - 1
              BY <1>3, <5>2
            <6> QED BY <1>3, <2>2, <3>5, <6>1 DEF Achieved
          <5> QED BY <5>1, <5>2
        <4>2. y.n - 1 = x.n
          BY <1>3, <3>2
        <4> QED BY <2>2, <3>2, <3>5, <4>1, <4>2, Zenon DEF Achieved
      <3>6. SeedInv(i)'
        BY <1>2, <1>3, <3>2, <3>3, <3>4, <3>5 DEF SeedInv, SeedPCs
      <3> QED BY <1>3, <1>5, <3>2, <3>3, <3>6, SeedStepKeeps, Zenon
    <2>4. CASE ~ (x.n < Len(CoreRoles))
      <3>1. PICK y \in InstanceRecord :
                y = [NotStarted EXCEPT !.pc = "serving", !.starts = x.starts] /\ y.pc = "serving"
        BY <1>3, InstanceRecords, Zenon
      <3>2. instances' = [instances EXCEPT ![i] = y] /\ instances'[i] = y
        BY <1>1, <1>2, <2>1, <2>4, <3>1 DEF NextRole, Instance
      <3>3. IInv'
        BY <1>3, <1>5, <3>1, <3>2, NotSeedingKeeps, SeedStepKeeps, Zenon
      <3>4. Achieved(x) => CoreGrants'
        <4>1. ASSUME Achieved(x), NEW n \in DOMAIN CoreRoles PROVE Granted(n)'
          <5>1. n = x.n \/ n \in 1 .. x.n - 1
            <6>1. n \in 1 .. Len(CoreRoles) /\ x.n \in 1 .. Len(CoreRoles) /\ Len(CoreRoles) \in Nat
              BY <1>3, CoreFacts, Zenon
            <6> QED BY <2>4, <6>1
          <5> QED BY <1>3, <2>2, <4>1, <5>1 DEF Achieved
        <4> QED BY <4>1, Zenon DEF CoreGrants, Granted, Linked
      <3> QED BY <1>2, <1>3, <3>3, <3>4 DEF SeedInv, SeedPCs
    <2> QED BY <2>3, <2>4, Zenon
  <1> QED BY <1>6, <1>7, <1>8, Zenon
-----------------------------------------------------------------------------
(* Time.                                                                     *)

\* A tick ages the good tokens and the losses by the same amount.
LEMMA StepTick ==
    ASSUME IInv, Tick, TrackLoss(1)
    PROVE  IInv'
  <1>1. UNCHANGED tables /\ UNCHANGED <<requests, instances>>
    BY DEF Tick
  <1>2. /\ lost \in [Users -> [Keys -> Nat]] /\ tokens \in [Tokens -> Token]
        /\ perms \in [PermissionIDs -> Keys \cup {Unborn, Gone}] /\ AccessTokenDuration \in Nat
    BY AccessAssumption DEF IInv, AccTypeOK
  <1>3. lost' = [u \in Users |-> [k \in Keys |->
                    IF k \in GetUserPermissions(u)' THEN 0
                    ELSE IF lost[u][k] < AccessTokenDuration THEN lost[u][k] + 1
                    ELSE AccessTokenDuration]]
    BY DEF TrackLoss
  <1>4. \A u \in Users, k \in Keys :
           /\ lost'[u][k] = 0 \/ lost'[u][k] = lost[u][k] + 1 \/ lost[u][k] >= AccessTokenDuration
           /\ lost[u][k] \in Nat /\ lost'[u][k] \in Nat
           /\ k \in GetUserPermissions(u)' => lost'[u][k] = 0
    BY <1>2, <1>3
  <1>5. lost' \in [Users -> [Keys -> Nat]]
    BY <1>2, <1>3
  <1>6. LostInv'
    BY <1>1, <1>2, <1>4, HeldKeysNext DEF LostInv, tables
  <1>7. ASSUME NEW t \in Tokens PROVE TokenInv(t)' /\ tokens'[t] \in Token
    <2>1. PICK x \in Token : x = tokens[t]
      BY <1>2
    <2>2. /\ x.age \in Nat /\ x.keys \subseteq Keys /\ TokenInv(t) /\ x.state # "reading"
          /\ x.state \in {"none", "signed"}
      BY <2>1, Zenon DEF Token, IInv, Tick
    <2>3. CASE x.state = "signed" /\ x.age < AccessTokenDuration
      <3>1. PICK y : y = [x EXCEPT !.age = x.age + 1]
        BY Zenon
      <3>2. /\ y \in Token /\ y.age = x.age + 1 /\ y.keys = x.keys /\ y.user = x.user /\ y.state = x.state
        <4>1. PICK a \in Nat : a = x.age + 1
          BY <2>2
        <4> QED BY <3>1, <4>1, Zenon DEF Token
      <3>3. tokens'[t] = y
        BY <2>1, <2>3, <3>1 DEF Tick
      <3>4. x.user \in Users
        BY <2>1, <2>2, <2>3 DEF TokenInv
      <3>5. ASSUME NEW k \in x.keys PROVE lost'[x.user][k] =< x.age + 1
        <4>1. PICK a \in Nat : a = lost[x.user][k] /\ a =< x.age
          BY <1>2, <2>1, <2>2, <2>3, <3>4 DEF TokenInv
        <4>2. PICK b \in Nat : /\ b = lost'[x.user][k]
                               /\ b = 0 \/ b = a + 1 \/ a >= AccessTokenDuration
          BY <1>4, <2>2, <3>4, <4>1
        <4> QED BY <1>2, <2>2, <2>3, <4>1, <4>2
      <3> QED BY <2>2, <3>2, <3>3, <3>4, <3>5 DEF TokenInv
    <2>4. CASE ~ (x.state = "signed" /\ x.age < AccessTokenDuration)
      <3>1. tokens'[t] = x
        BY <2>1, <2>4 DEF Tick
      <3> QED BY <2>1, <2>2, <2>4, <3>1 DEF TokenInv
    <2> QED BY <2>3, <2>4
  <1>8. tokens' \in [Tokens -> Token]
    BY <1>7, Zenon DEF Tick
  <1>9. AccTypeOK'
    BY <1>1, <1>5, <1>8 DEF IInv, AccTypeOK, tables
  <1> QED BY <1>1, <1>6, <1>7, <1>9, SeedSame, RequestSame DEF IInv
-----------------------------------------------------------------------------
(* Theorems.                                                                 *)

\* The invariant holds before the first instance starts.
LEMMA InitIInv == Init => IInv
  <1> SUFFICES ASSUME Init PROVE IInv
    OBVIOUS
  <1> USE DEF Init
  <1>1. AccTypeOK
    <2>1. NoToken \in Token
      BY Zenon DEF NoToken, Token
    <2>2. NoRequest \in Request
      BY Zenon DEF NoRequest, NoArgs, Request, Ops, Texts
    <2>3. NotStarted \in InstanceRecord
      BY DEF NotStarted, InstanceRecord, SeedPCs
    <2> QED BY <2>1, <2>2, <2>3, AccessAssumption DEF AccTypeOK
  <1>2. LostInv
    BY DEF LostInv, GetUserPermissions, Rows
  <1>3. ASSUME NEW q \in Requests PROVE RequestInv(q)
    BY Zenon DEF RequestInv, NoRequest
  <1>4. ASSUME NEW t \in Tokens PROVE TokenInv(t)
    BY Zenon DEF TokenInv, NoToken
  <1>5. ASSUME NEW i \in Instances PROVE SeedInv(i)
    BY DEF SeedInv, Position, NotStarted, SeedPCs
  <1> QED BY <1>1, <1>2, <1>3, <1>4, <1>5 DEF IInv

\* No step leaves the invariant.
LEMMA NextIInv == IInv /\ [Next]_vars => IInv'
  <1> SUFFICES ASSUME IInv, [Next]_vars PROVE IInv'
    OBVIOUS
  <1>1. ASSUME TrackLoss(0), NEW i \in Instances, Seed(i) PROVE IInv'
    BY <1>1, StepSeedPermission, StepSeedRole, StepSeedAssign, Zenon DEF Seed
  <1>2. CASE Step /\ TrackLoss(0)
    BY <1>1, <1>2, StepToken, StepAdmit, StepHandler, StepGrantFirstAdmin, StepStart DEF Step
  <1>3. CASE Tick /\ TrackLoss(1)
    BY <1>3, StepTick
  <1>4. CASE UNCHANGED vars
    <2>1. UNCHANGED tables /\ UNCHANGED <<tokens, requests, instances, lost>>
      BY <1>4 DEF vars
    <2>2. AccTypeOK' /\ LostInv'
      BY <2>1 DEF IInv, AccTypeOK, LostInv, GetUserPermissions, tables
    <2> QED BY <2>1, <2>2, SeedSame, RequestSame, TokenSame DEF IInv
  <1> QED BY <1>2, <1>3, <1>4 DEF Next

\* IInv is an inductive invariant of roles, tokens and seeds.
THEOREM AccessInvariant == Spec => []IInv
  BY InitIInv, NextIInv, PTL DEF Spec

\* ClaimsFresh: the middleware trusts the keys in a token, yet whoever is let
\* through held the key less than one token lifetime ago.
THEOREM ClaimsAreFresh == Spec => []ClaimsFresh
  <1>1. IInv => ClaimsFresh
    BY DEF IInv, RequestInv, ClaimsFresh
  <1> QED BY <1>1, AccessInvariant, PTL

\* Of the steps that are not SeedAssign none takes an instance to serving.
LEMMA QuietInstance ==
    ASSUME IInv, NEW i \in Instances, instances[i].pc # "serving",
           \/ UNCHANGED instances \/ Undo
           \/ \E j \in Instances : \/ Start(j) \/ Restart(j) \/ Fail(j) \/ SeedGetPermission(j)
                                   \/ SeedCreatePermission(j) \/ SeedGetRole(j) \/ SeedCreateRole(j)
    PROVE  instances'[i].pc # "serving"
  <1>1. instances \in [Instances -> InstanceRecord] /\ instances[i] \in InstanceRecord
    BY DEF IInv, AccTypeOK
  <1>2. CASE UNCHANGED instances
    BY <1>2
  <1>3. CASE Undo
    <2>1. instances'[i] \in {instances[i], [instances[i] EXCEPT !.undone = TRUE]}
      BY <1>3 DEF Undo
    <2> QED BY <1>1, <2>1 DEF InstanceRecord
  <1>4. ASSUME NEW j \in Instances,
               \/ Start(j) \/ Restart(j) \/ Fail(j) \/ SeedGetPermission(j)
               \/ SeedCreatePermission(j) \/ SeedGetRole(j) \/ SeedCreateRole(j)
        PROVE  instances'[i].pc # "serving"
    <2>0. instances[j] \in InstanceRecord
      BY <1>1
    <2>1. PICK y : instances' = [instances EXCEPT ![j] = y] /\ y.pc # "serving"
      <3>1. CASE Start(j) \/ Restart(j)
        <4>1. PICK starts : instances' = [instances EXCEPT ![j] = [NotStarted EXCEPT !.pc = "getperm", !.starts = starts]]
          BY <3>1, Zenon DEF Start, Restart
        <4>2. [NotStarted EXCEPT !.pc = "getperm", !.starts = starts].pc = "getperm"
          BY DEF NotStarted
        <4> QED BY <4>1, <4>2, Zenon
      <3>2. ASSUME NEW pc \in {"failed", "createperm", "createrole"}, instances' = [instances EXCEPT ![j].pc = pc]
            PROVE  \E y : instances' = [instances EXCEPT ![j] = y] /\ y.pc # "serving"
        <4>1. PICK y : y = [instances[j] EXCEPT !.pc = pc]
          BY Zenon
        <4>2. y.pc = pc
          BY <2>0, <4>1 DEF InstanceRecord
        <4> QED BY <1>1, <3>2, <4>1, <4>2, Zenon
      <3>3. ASSUME NEW id, Found(j, id)
            PROVE  \E y : instances' = [instances EXCEPT ![j] = y] /\ y.pc # "serving"
        <4>1. PICK pc \in {"getperm", "getrole"} :
                  \E pm, n : instances' = [instances EXCEPT ![j] = [instances[j] EXCEPT
                                              !.permissionMap = pm, !.n = n, !.pc = pc]]
          <5>1. CASE instances[j].n < Len(CorePermissions)
            BY <3>3, <5>1, Zenon DEF Found, Instance
          <5>2. CASE ~ (instances[j].n < Len(CorePermissions))
            BY <3>3, <5>2, Zenon DEF Found, Instance
          <5> QED BY <5>1, <5>2, Zenon
        <4>2. PICK pm, n : instances' = [instances EXCEPT ![j] = [instances[j] EXCEPT
                                            !.permissionMap = pm, !.n = n, !.pc = pc]]
          BY <4>1, Zenon
        <4>3. PICK y : y = [instances[j] EXCEPT !.permissionMap = pm, !.n = n, !.pc = pc]
          OBVIOUS
        <4>4. y.pc = pc
          BY <2>0, <4>3 DEF InstanceRecord
        <4> QED BY <4>2, <4>3, <4>4, Zenon
      <3>4. ASSUME NEW id, RoleFound(j, id)
            PROVE  \E y : instances' = [instances EXCEPT ![j] = y] /\ y.pc # "serving"
        <4>1. PICK y : y = [instances[j] EXCEPT !.roleID = id, !.m = 1, !.pc = "assign"]
          OBVIOUS
        <4>2. y.pc = "assign"
          BY <2>0, <4>1 DEF InstanceRecord
        <4> QED BY <1>1, <3>4, <4>1, <4>2, Zenon DEF RoleFound
      <3> QED BY <1>4, <3>1, <3>2, <3>3, <3>4
              DEF Fail, SeedGetPermission, SeedCreatePermission, SeedGetRole, SeedCreateRole
    <2> QED BY <1>1, <2>1
  <1> QED BY <1>2, <1>3, <1>4

\* Nothing but the last link of the last core role takes an instance to serving.
LEMMA NextServesSeeded == IInv /\ Next => ServesSeeded
  <1> SUFFICES ASSUME IInv, Next, NEW i \in Instances, instances'[i].pc = "serving",
                      instances[i].pc # "serving"
               PROVE  CoreGrants' \/ instances[i].undone
    BY DEF ServesSeeded, InstanceAt, Instance
  <1>1. ASSUME NEW q \in Requests, Handler(q) PROVE UNCHANGED instances \/ Undo
    BY <1>1 DEF Handler, CreateRole, UpdateRoleGet, UpdateRole, DeleteRole, AssignPermissionToRole,
       RemovePermissionFromRole, CreatePermission, UpdatePermissionGet, UpdatePermission, DeletePermission,
       AssignRoleToUser, RemoveRoleFromUser
  <1>2. ASSUME NEW q \in Requests, NEW t \in Tokens, AdmitAny(q, t) PROVE UNCHANGED instances
    BY <1>2, Zenon DEF AdmitAny, Admit
  <1>3. PICK j \in Instances : SeedAssign(j) /\ TrackLoss(0)
    BY <1>1, <1>2, QuietInstance DEF Next, Step, Tick, ReadPermissions, GenerateAccessToken, DropToken,
       GrantFirstAdmin, Seed
  <1>4. CASE j = i
    BY <1>3, <1>4, StepSeedAssign, Zenon
  <1>5. CASE j # i
    <2>1. instances'[i] = instances[i]
      BY <1>3, <1>5 DEF SeedAssign, NextRole, IInv, AccTypeOK
    <2> QED BY <2>1
  <1> QED BY <1>4, <1>5

\* SeedEffective: an instance starts to serve only once every core role has all
\* its core permissions, for every list of core roles and however many instances
\* seed at the same time, unless an administrator undid some of it meanwhile.
THEOREM SeedIsEffective == Spec => SeedEffective
  <1>1. IInv /\ [Next]_vars => [ServesSeeded]_vars
    BY NextServesSeeded DEF vars
  <1> QED BY <1>1, AccessInvariant, PTL DEF Spec, SeedEffective
=============================================================================
