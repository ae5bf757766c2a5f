--------------------------- MODULE AccountsProofs ---------------------------
(***************************************************************************)
(* Proofs about accounts and sessions, for every set of addresses, handles,  *)
(* tokens and requests.                                                     *)
(***************************************************************************)
EXTENDS Accounts, FiniteSetTheorems, TLAPS

PCs == {"idle", "reg_handle", "reg_user", "reg_identity", "create_token", "publish",
        "verify_expired", "verify_user", "verify_used", "verify_consume", "verify_update",
        "login_user", "login_create", "refresh_user", "refresh_create", "refresh_revoke", "logout"}
User == [handle : Handles, verified : BOOLEAN, banned : BOOLEAN]
VToken == [state : {"unissued", "live", "deleted"}, email : Emails \cup {NoEmail}, expired : BOOLEAN]
RToken == [email : Emails \cup {NoEmail}, family : RTokens, revoked : BOOLEAN, expired : BOOLEAN]
Request == [pc : PCs, email : Emails \cup {NoEmail}, handle : Handles \cup {NoHandle},
            token : VTokens \cup RTokens \cup {NoToken}, user : User \cup {NoUser}]

\* Tables and requests hold values of their types, and a link or an identity
\* belongs to a user (the foreign keys).
AccTypeOK ==
    /\ DOMAIN users \subseteq Emails
    /\ users \in [DOMAIN users -> User]
    /\ identities \subseteq DOMAIN users
    /\ vtokens \in [VTokens -> VToken]
    /\ \A t \in VTokens : vtokens[t].state # "unissued" => vtokens[t].email \in DOMAIN users
    /\ DOMAIN rtokens \subseteq RTokens
    /\ rtokens \in [DOMAIN rtokens -> RToken]
    /\ requests \in [Requests -> Request]

\* What a request in progress remembers is about rows that exist.
Remembers(r) ==
    LET q == requests[r] IN
    /\ q.pc \in {"reg_handle", "reg_user"} => q.email \in Emails /\ q.handle \in Handles
    /\ q.pc \in {"reg_identity", "create_token", "verify_expired", "verify_user", "verify_used",
                 "verify_consume", "verify_update"} => q.email \in DOMAIN users
    /\ q.pc \in {"verify_expired", "verify_user", "verify_used", "verify_consume"} =>
          /\ q.token \in VTokens
          /\ vtokens[q.token].state # "unissued" /\ vtokens[q.token].email = q.email
    /\ q.pc \in {"verify_consume", "verify_update"} =>
          q.user \in User /\ q.user.handle = users[q.email].handle
    /\ q.pc \in {"refresh_user", "refresh_create", "refresh_revoke", "logout"} =>
          q.token \in DOMAIN rtokens

AccInv == AccTypeOK /\ \A r \in Requests : Remembers(r)

\* Rows are added and never renamed or removed (a used link is only marked).
Grows ==
    /\ \A e \in DOMAIN users : e \in DOMAIN users' /\ users'[e].handle = users[e].handle
    /\ \A t \in VTokens : vtokens[t].state # "unissued" =>
          vtokens'[t].state # "unissued" /\ vtokens'[t].email = vtokens[t].email
    /\ DOMAIN rtokens \subseteq DOMAIN rtokens'

-----------------------------------------------------------------------------
\* A request that a step leaves alone remembers what it did.
LEMMA OthersKept ==
    ASSUME AccTypeOK, Grows, NEW r \in Requests, Remembers(r), requests'[r] = requests[r]
    PROVE  Remembers(r)'
  BY DEF AccTypeOK, Grows, Remembers

\* Steps that leave the requests alone.
LEMMA RequestsUntouched ==
    ASSUME AccInv, Grows, AccTypeOK', UNCHANGED requests
    PROVE  AccInv'
  BY OthersKept DEF AccInv

\* Steps of one request.
LEMMA OneRequest ==
    ASSUME AccInv, Grows, AccTypeOK', NEW r \in Requests, Remembers(r)',
           \A s \in Requests \ {r} : requests'[s] = requests[s]
    PROVE  AccInv'
  BY OthersKept DEF AccInv

\* Idle requests remember nothing.
LEMMA IdleRemembers ==
    ASSUME NEW r \in Requests, requests'[r].pc \in {"idle", "publish", "login_user", "login_create"}
    PROVE  Remembers(r)'
  BY DEF Remembers

\* A request moves on.
LEMMA GotoMoves ==
    ASSUME requests \in [Requests -> Request], NEW r \in Requests, NEW pc \in PCs, Goto(r, pc)
    PROVE  /\ requests' \in [Requests -> Request]
           /\ requests'[r].pc = pc
           /\ pc # "idle" => /\ requests'[r].email = requests[r].email
                             /\ requests'[r].handle = requests[r].handle
                             /\ requests'[r].token = requests[r].token
                             /\ requests'[r].user = requests[r].user
           /\ \A s \in Requests \ {r} : requests'[s] = requests[s]
  <1>1. Idle \in Request /\ Idle.pc = "idle"
    BY DEF Idle, Request, PCs
  <1>2. CASE pc = "idle"
    BY <1>1, <1>2 DEF Goto
  <1>3. CASE pc # "idle"
    BY <1>3 DEF Goto, Request
  <1> QED BY <1>2, <1>3

\* A request begins.
LEMMA BeginMoves ==
    ASSUME requests \in [Requests -> Request], NEW r \in Requests, NEW pc \in PCs,
           NEW e \in Emails \cup {NoEmail}, NEW h \in Handles \cup {NoHandle},
           NEW t \in VTokens \cup RTokens \cup {NoToken}, Begin(r, pc, e, h, t)
    PROVE  /\ requests' \in [Requests -> Request]
           /\ requests[r].pc = "idle" /\ requests'[r].pc = pc
           /\ requests'[r].email = e /\ requests'[r].handle = h /\ requests'[r].token = t
           /\ \A s \in Requests \ {r} : requests'[s] = requests[s]
  <1> DEFINE q == [Idle EXCEPT !.pc = pc, !.email = e, !.handle = h, !.token = t]
  <1>1. PICK idle \in Request : idle = Idle
    BY DEF Idle, Request, PCs
  <1>2. q \in Request /\ q.pc = pc /\ q.email = e /\ q.handle = h /\ q.token = t
    BY <1>1 DEF Request
  <1>3. requests' = [requests EXCEPT ![r] = q] /\ requests[r].pc = "idle"
    BY DEF Begin, At
  <1> HIDE DEF q
  <1> QED BY <1>2, <1>3
-----------------------------------------------------------------------------
(* Every step keeps AccInv and only adds rows.                               *)

\* Register, up to the row of the user.
LEMMA RegisteringInv ==
    ASSUME AccInv, NEW r \in Requests, Registering(r)
    PROVE  AccInv' /\ Grows
  <1> USE DEF AccInv
  <1>0. requests \in [Requests -> Request] /\ requests[r] \in Request /\ Remembers(r)
    BY DEF AccTypeOK
  <1>1. ASSUME NEW e \in Emails, NEW h \in Handles, Register(r, e, h)
        PROVE  AccInv' /\ Grows
    <2>1. /\ requests' \in [Requests -> Request]
          /\ requests'[r].pc = "reg_handle" /\ requests'[r].email = e /\ requests'[r].handle = h
          /\ \A s \in Requests \ {r} : requests'[s] = requests[s]
      BY <1>0, <1>1, BeginMoves DEF Register, PCs
    <2>2. AccTypeOK' /\ Grows
      BY <1>1, <2>1 DEF Register, AccTypeOK, Grows
    <2>3. Remembers(r)'
      BY <2>1 DEF Remembers
    <2> QED BY <2>1, <2>2, <2>3, OneRequest
  <1>2. CASE RegisterHandle(r)
    <2>1. PICK pc \in {"idle", "reg_user"} : Goto(r, pc)
      BY <1>2 DEF RegisterHandle
    <2>2. /\ requests' \in [Requests -> Request] /\ requests'[r].pc = pc
          /\ pc # "idle" => /\ requests'[r].email = requests[r].email
                            /\ requests'[r].handle = requests[r].handle
          /\ \A s \in Requests \ {r} : requests'[s] = requests[s]
      BY <1>0, <2>1, GotoMoves DEF PCs
    <2>3. AccTypeOK' /\ Grows
      BY <1>2, <2>2 DEF RegisterHandle, AccTypeOK, Grows
    <2>4. Remembers(r)'
      BY <1>0, <1>2, <2>2 DEF RegisterHandle, Remembers, At
    <2> QED BY <2>2, <2>3, <2>4, OneRequest
  <1>3. CASE CreateUser(r)
    <2>1. CASE Goto(r, "idle") /\ UNCHANGED users
      <3>1. /\ requests' \in [Requests -> Request] /\ requests'[r].pc = "idle"
            /\ \A s \in Requests \ {r} : requests'[s] = requests[s]
        BY <1>0, <2>1, GotoMoves DEF PCs
      <3>2. AccTypeOK' /\ Grows
        BY <1>3, <2>1, <3>1 DEF CreateUser, AccTypeOK, Grows
      <3> QED BY <3>1, <3>2, OneRequest, IdleRemembers
    <2>2. CASE requests[r].email \notin DOMAIN users /\ Inserted(r) /\ Goto(r, "reg_identity")
      <3>1. /\ requests' \in [Requests -> Request] /\ requests'[r].pc = "reg_identity"
            /\ requests'[r].email = requests[r].email
            /\ \A s \in Requests \ {r} : requests'[s] = requests[s]
        BY <1>0, <2>2, GotoMoves DEF PCs
      <3>2. requests[r].email \in Emails /\ requests[r].handle \in Handles
        BY <1>0, <1>3 DEF CreateUser, Remembers, At
      <3>3. /\ DOMAIN users' = DOMAIN users \cup {requests[r].email}
            /\ users' \in [DOMAIN users' -> User]
            /\ \A e \in DOMAIN users : users'[e] = users[e]
        BY <2>2, <3>2 DEF Inserted, User, AccTypeOK
      <3>4. AccTypeOK' /\ Grows
        BY <1>3, <3>1, <3>2, <3>3 DEF CreateUser, AccTypeOK, Grows
      <3>5. Remembers(r)'
        BY <3>1, <3>3 DEF Remembers
      <3> QED BY <3>1, <3>4, <3>5, OneRequest
    <2> QED BY <1>3, <2>1, <2>2 DEF CreateUser
  <1>4. CASE CreateIdentity(r)
    <2>1. /\ requests' \in [Requests -> Request] /\ requests'[r].pc = "create_token"
          /\ requests'[r].email = requests[r].email
          /\ \A s \in Requests \ {r} : requests'[s] = requests[s]
      BY <1>0, <1>4, GotoMoves DEF CreateIdentity, PCs
    <2>2. requests[r].email \in DOMAIN users
      BY <1>0, <1>4 DEF CreateIdentity, Remembers, At
    <2>3. AccTypeOK' /\ Grows
      BY <1>4, <2>1, <2>2 DEF CreateIdentity, AccTypeOK, Grows
    <2>4. Remembers(r)'
      BY <1>4, <2>1, <2>2 DEF CreateIdentity, Remembers
    <2> QED BY <2>1, <2>3, <2>4, OneRequest
  <1>5. CASE CreateEmailVerificationToken(r)
    <2>1. PICK t \in VTokens :
            /\ vtokens[t].state = "unissued"
            /\ vtokens' = [vtokens EXCEPT ![t] =
                             [state |-> "live", email |-> requests[r].email, expired |-> FALSE]]
            /\ requests' = [requests EXCEPT ![r].pc = "publish", ![r].token = t]
      BY <1>5 DEF CreateEmailVerificationToken
    <2>2. /\ requests' \in [Requests -> Request] /\ requests'[r].pc = "publish"
          /\ \A s \in Requests \ {r} : requests'[s] = requests[s]
      BY <1>0, <2>1 DEF Request, PCs
    <2>3. requests[r].email \in DOMAIN users /\ requests[r].email \in Emails
      BY <1>0, <1>5 DEF CreateEmailVerificationToken, Remembers, At, AccTypeOK
    <2>4. /\ vtokens' \in [VTokens -> VToken]
          /\ vtokens'[t].email = requests[r].email
          /\ \A u \in VTokens \ {t} : vtokens'[u] = vtokens[u]
      BY <2>1, <2>3 DEF AccTypeOK, VToken
    <2>5. AccTypeOK' /\ Grows
      BY <1>5, <2>1, <2>2, <2>3, <2>4 DEF CreateEmailVerificationToken, AccTypeOK, Grows
    <2> QED BY <2>2, <2>5, OneRequest, IdleRemembers
  <1>6. CASE PublishEmailVerification(r)
    <2>1. /\ requests' \in [Requests -> Request] /\ requests'[r].pc = "idle"
          /\ \A s \in Requests \ {r} : requests'[s] = requests[s]
      BY <1>0, <1>6, GotoMoves DEF PublishEmailVerification, PCs
    <2>2. AccTypeOK' /\ Grows
      BY <1>6, <2>1 DEF PublishEmailVerification, AccTypeOK, Grows
    <2> QED BY <2>1, <2>2, OneRequest, IdleRemembers
  <1> QED BY <1>1, <1>2, <1>3, <1>4, <1>5, <1>6 DEF Registering

\* A link is deleted, or found deleted.
LEMMA DeleteByIDInv ==
    ASSUME AccInv, NEW r \in Requests, NEW pc \in {"idle", "create_token", "verify_update"},
           requests[r].pc \in {"verify_expired", "verify_used", "verify_consume"},
           pc = "verify_update" => requests[r].pc = "verify_consume",
           DeleteByID(r, pc), UNCHANGED <<users, identities, rtokens>>
    PROVE  AccInv' /\ Grows
  <1> USE DEF AccInv
  <1>0. /\ requests \in [Requests -> Request] /\ requests[r] \in Request /\ Remembers(r)
        /\ requests[r].token \in VTokens /\ requests[r].email \in DOMAIN users
    BY DEF AccTypeOK, Remembers
  <1>1. PICK to \in {pc, "idle"} : Goto(r, to)
    BY DEF DeleteByID
  <1>2. /\ requests' \in [Requests -> Request] /\ requests'[r].pc = to
        /\ to # "idle" => requests'[r].email = requests[r].email /\ requests'[r].user = requests[r].user
        /\ \A s \in Requests \ {r} : requests'[s] = requests[s]
    BY <1>0, <1>1, GotoMoves DEF PCs
  <1>3. /\ vtokens' \in [VTokens -> VToken]
        /\ \A t \in VTokens : /\ vtokens'[t].email = vtokens[t].email
                              /\ vtokens'[t].state = "unissued" <=> vtokens[t].state = "unissued"
    BY <1>0 DEF DeleteByID, AccTypeOK, VToken
  <1>4. AccTypeOK' /\ Grows
    BY <1>2, <1>3 DEF AccTypeOK, Grows
  <1>5. Remembers(r)'
    BY <1>0, <1>2 DEF Remembers
  <1> QED BY <1>2, <1>4, <1>5, OneRequest

\* VerifyEmail.
LEMMA VerifyingInv ==
    ASSUME AccInv, NEW r \in Requests, Verifying(r)
    PROVE  AccInv' /\ Grows
  <1> USE DEF AccInv
  <1>0. requests \in [Requests -> Request] /\ requests[r] \in Request /\ Remembers(r)
    BY DEF AccTypeOK
  <1>1. ASSUME NEW t \in VTokens, VerifyEmail(r, t)
        PROVE  AccInv' /\ Grows
    <2>1. vtokens[t].state # "unissued" /\ vtokens[t].email \in DOMAIN users /\ vtokens[t].email \in Emails
      BY <1>1 DEF VerifyEmail, AccTypeOK
    <2>2. PICK pc \in {"verify_expired", "verify_user"}, e \in Emails :
             e = vtokens[t].email /\ Begin(r, pc, e, NoHandle, t)
      BY <1>1, <2>1 DEF VerifyEmail
    <2>3. /\ requests' \in [Requests -> Request]
          /\ requests'[r].pc = pc /\ requests'[r].email = vtokens[t].email /\ requests'[r].token = t
          /\ \A s \in Requests \ {r} : requests'[s] = requests[s]
      <3>1. pc \in PCs /\ Begin(r, pc, e, NoHandle, t)
        BY <2>2 DEF PCs
      <3>2. /\ requests' \in [Requests -> Request]
            /\ requests'[r].pc = pc /\ requests'[r].email = e /\ requests'[r].token = t
            /\ \A s \in Requests \ {r} : requests'[s] = requests[s]
        BY <1>0, <3>1, BeginMoves
      <3> QED BY <2>2, <3>2
    <2>4. AccTypeOK' /\ Grows
      BY <1>1, <2>3 DEF VerifyEmail, AccTypeOK, Grows
    <2>5. Remembers(r)'
      BY <1>1, <2>1, <2>3 DEF VerifyEmail, Remembers
    <2> QED BY <2>3, <2>4, <2>5, OneRequest
  <1>2. CASE VerifyExpired(r)
    BY <1>2, DeleteByIDInv DEF VerifyExpired, At
  <1>3. CASE VerifyGetUser(r)
    <2> DEFINE u == users[requests[r].email]
    <2>1. u \in User /\ requests[r].email \in DOMAIN users
      BY <1>0, <1>3 DEF VerifyGetUser, Remembers, At, AccTypeOK
    <2>2. PICK pc \in {"verify_used", "verify_consume"} :
             requests' = [requests EXCEPT ![r].user = u, ![r].pc = pc]
      BY <1>3 DEF VerifyGetUser
    <2> HIDE DEF u
    <2>3. /\ requests' \in [Requests -> Request] /\ requests'[r].pc = pc /\ requests'[r].user = u
          /\ requests'[r].email = requests[r].email /\ requests'[r].token = requests[r].token
          /\ \A s \in Requests \ {r} : requests'[s] = requests[s]
      BY <1>0, <2>1, <2>2 DEF Request, PCs
    <2>4. AccTypeOK' /\ Grows
      BY <1>3, <2>3 DEF VerifyGetUser, AccTypeOK, Grows
    <2>5. Remembers(r)'
      BY <1>0, <1>3, <2>1, <2>3 DEF VerifyGetUser, Remembers, At, u
    <2> QED BY <2>3, <2>4, <2>5, OneRequest
  <1>4. CASE VerifyUsed(r)
    BY <1>4, DeleteByIDInv DEF VerifyUsed, At
  <1>5. CASE VerifyConsume(r)
    BY <1>5, DeleteByIDInv DEF VerifyConsume, At
  <1>6. CASE VerifyUpdate(r)
    <2>1. /\ requests' \in [Requests -> Request] /\ requests'[r].pc = "idle"
          /\ \A s \in Requests \ {r} : requests'[s] = requests[s]
      BY <1>0, <1>6, GotoMoves DEF VerifyUpdate, PCs
    <2>2. /\ requests[r].email \in DOMAIN users /\ requests[r].user \in User
          /\ requests[r].user.handle = users[requests[r].email].handle
      BY <1>0, <1>6 DEF VerifyUpdate, Remembers, At
    <2>3. /\ DOMAIN users' = DOMAIN users /\ users' \in [DOMAIN users -> User]
          /\ \A e \in DOMAIN users : users'[e].handle = users[e].handle
      BY <1>6, <2>2 DEF VerifyUpdate, User, AccTypeOK
    <2>4. AccTypeOK' /\ Grows
      BY <1>6, <2>1, <2>3 DEF VerifyUpdate, AccTypeOK, Grows
    <2> QED BY <2>1, <2>4, OneRequest, IdleRemembers
  <1> QED BY <1>1, <1>2, <1>3, <1>4, <1>5, <1>6 DEF Verifying

\* A refresh token is stored: nothing else changes.
LEMMA Issued ==
    ASSUME AccTypeOK, NEW t \in Unissued, NEW e \in Emails \cup {NoEmail}, NEW f \in RTokens,
           Issue(t, e, f)
    PROVE  /\ t \notin DOMAIN rtokens /\ t \in RTokens
           /\ DOMAIN rtokens' = DOMAIN rtokens \cup {t}
           /\ rtokens' \in [DOMAIN rtokens' -> RToken]
           /\ rtokens'[t].family = f /\ ~ rtokens'[t].revoked
           /\ \A u \in DOMAIN rtokens : rtokens'[u] = rtokens[u]
  BY DEF AccTypeOK, Unissued, Issue, RToken

\* A refresh token is revoked: nothing else changes.
LEMMA Revoked ==
    ASSUME AccTypeOK, NEW t \in DOMAIN rtokens, rtokens' = [rtokens EXCEPT ![t].revoked = TRUE]
    PROVE  /\ DOMAIN rtokens' = DOMAIN rtokens
           /\ rtokens' \in [DOMAIN rtokens -> RToken]
           /\ rtokens'[t].revoked /\ rtokens'[t].family = rtokens[t].family
           /\ \A u \in DOMAIN rtokens : u # t => rtokens'[u] = rtokens[u]
  BY DEF AccTypeOK, RToken

\* Login, RefreshToken and Logout.
LEMMA SessionStepInv ==
    ASSUME AccInv, NEW r \in Requests, Session(r)
    PROVE  AccInv' /\ Grows
  <1> USE DEF AccInv
  <1>0. requests \in [Requests -> Request] /\ requests[r] \in Request /\ Remembers(r)
    BY DEF AccTypeOK
  <1>1. ASSUME NEW e \in Emails, Login(r, e)
        PROVE  AccInv' /\ Grows
    <2>1. /\ requests' \in [Requests -> Request] /\ requests'[r].pc = "login_user"
          /\ \A s \in Requests \ {r} : requests'[s] = requests[s]
      BY <1>0, <1>1, BeginMoves DEF Login, PCs
    <2>2. AccTypeOK' /\ Grows
      BY <1>1, <2>1 DEF Login, AccTypeOK, Grows
    <2> QED BY <2>1, <2>2, OneRequest, IdleRemembers
  <1>2. CASE LoginUser(r)
    <2>1. PICK pc \in {"login_create", "idle"} : Goto(r, pc)
      BY <1>2 DEF LoginUser
    <2>2. /\ requests' \in [Requests -> Request] /\ requests'[r].pc = pc
          /\ \A s \in Requests \ {r} : requests'[s] = requests[s]
      BY <1>0, <2>1, GotoMoves DEF PCs
    <2>3. AccTypeOK' /\ Grows
      BY <1>2, <2>2 DEF LoginUser, AccTypeOK, Grows
    <2> QED BY <2>2, <2>3, OneRequest, IdleRemembers
  <1>3. CASE GenerateAuthResponse(r)
    <2>1. /\ requests' \in [Requests -> Request] /\ requests'[r].pc = "idle"
          /\ \A s \in Requests \ {r} : requests'[s] = requests[s]
      BY <1>0, <1>3, GotoMoves DEF GenerateAuthResponse, PCs
    <2>2. PICK t \in Unissued : Issue(t, requests[r].email, t)
      BY <1>3 DEF GenerateAuthResponse
    <2>3. PICK e \in Emails \cup {NoEmail} : e = requests[r].email
      BY <1>0 DEF Request
    <2>4. /\ DOMAIN rtokens' = DOMAIN rtokens \cup {t} /\ t \in RTokens
          /\ rtokens' \in [DOMAIN rtokens' -> RToken]
      BY <2>2, <2>3, Issued DEF Unissued
    <2>5. AccTypeOK' /\ Grows
      BY <1>3, <2>1, <2>4 DEF GenerateAuthResponse, AccTypeOK, Grows
    <2> QED BY <2>1, <2>5, OneRequest, IdleRemembers
  <1>4. ASSUME NEW t \in DOMAIN rtokens, RefreshToken(r, t) \/ Logout(r, t)
        PROVE  AccInv' /\ Grows
    <2>1. PICK pc \in {"refresh_user", "logout"}, e \in Emails \cup {NoEmail} :
             Begin(r, pc, e, NoHandle, t)
      BY <1>4 DEF RefreshToken, Logout, AccTypeOK, RToken
    <2>2. /\ requests' \in [Requests -> Request] /\ requests'[r].pc = pc /\ requests'[r].token = t
          /\ \A s \in Requests \ {r} : requests'[s] = requests[s]
      <3>1. pc \in PCs /\ t \in RTokens
        BY DEF PCs, AccTypeOK
      <3> QED BY <1>0, <2>1, <3>1, BeginMoves
    <2>3. AccTypeOK' /\ Grows
      BY <1>4, <2>2 DEF RefreshToken, Logout, AccTypeOK, Grows
    <2>4. Remembers(r)'
      BY <1>4, <2>2 DEF RefreshToken, Logout, Remembers
    <2> QED BY <2>2, <2>3, <2>4, OneRequest
  <1>5. CASE RefreshUser(r)
    <2>1. PICK pc \in {"refresh_create", "idle"} : Goto(r, pc)
      BY <1>5 DEF RefreshUser
    <2>2. /\ requests' \in [Requests -> Request] /\ requests'[r].pc = pc
          /\ pc # "idle" => requests'[r].token = requests[r].token
          /\ \A s \in Requests \ {r} : requests'[s] = requests[s]
      BY <1>0, <2>1, GotoMoves DEF PCs
    <2>3. AccTypeOK' /\ Grows
      BY <1>5, <2>2 DEF RefreshUser, AccTypeOK, Grows
    <2>4. Remembers(r)'
      BY <1>0, <1>5, <2>2 DEF RefreshUser, Remembers, At
    <2> QED BY <2>2, <2>3, <2>4, OneRequest
  <1>6. CASE RefreshCreate(r)
    <2>1. /\ requests' \in [Requests -> Request] /\ requests'[r].pc = "refresh_revoke"
          /\ requests'[r].token = requests[r].token
          /\ \A s \in Requests \ {r} : requests'[s] = requests[s]
      BY <1>0, <1>6, GotoMoves DEF RefreshCreate, PCs
    <2>2. requests[r].token \in DOMAIN rtokens
      BY <1>0, <1>6 DEF RefreshCreate, Remembers, At
    <2>3. PICK t \in Unissued, f \in RTokens, e \in Emails \cup {NoEmail} : Issue(t, e, f)
      BY <1>0, <1>6, <2>2 DEF RefreshCreate, AccTypeOK, RToken, Request
    <2>4. /\ DOMAIN rtokens' = DOMAIN rtokens \cup {t} /\ t \in RTokens
          /\ rtokens' \in [DOMAIN rtokens' -> RToken]
      BY <2>3, Issued
    <2>5. AccTypeOK' /\ Grows
      BY <1>6, <2>1, <2>4 DEF RefreshCreate, AccTypeOK, Grows
    <2>6. Remembers(r)'
      BY <2>1, <2>2, <2>4 DEF Remembers
    <2> QED BY <2>1, <2>5, <2>6, OneRequest
  <1>7. CASE RefreshRevoke(r) \/ LogoutRevoke(r)
    <2>1. /\ requests' \in [Requests -> Request] /\ requests'[r].pc = "idle"
          /\ \A s \in Requests \ {r} : requests'[s] = requests[s]
      BY <1>0, <1>7, GotoMoves DEF RefreshRevoke, LogoutRevoke, PCs
    <2>2. PICK t \in DOMAIN rtokens : rtokens' = [rtokens EXCEPT ![t].revoked = TRUE]
      BY <1>0, <1>7 DEF RefreshRevoke, LogoutRevoke, Remembers, At
    <2>3. DOMAIN rtokens' = DOMAIN rtokens /\ rtokens' \in [DOMAIN rtokens -> RToken]
      BY <2>2, Revoked
    <2>4. AccTypeOK' /\ Grows
      BY <1>7, <2>1, <2>3 DEF RefreshRevoke, LogoutRevoke, AccTypeOK, Grows
    <2> QED BY <2>1, <2>4, OneRequest, IdleRemembers
  <1> QED BY <1>1, <1>2, <1>3, <1>4, <1>5, <1>6, <1>7 DEF Session

\* Requests that are cut off, the e-mail worker, bans and time.
LEMMA EnvironmentInv ==
    ASSUME AccInv, Environment \/ \E r \in Requests : Fail(r)
    PROVE  AccInv' /\ Grows
  <1> USE DEF AccInv
  <1>1. ASSUME NEW r \in Requests, Fail(r)
        PROVE  AccInv' /\ Grows
    <2>1. /\ requests' \in [Requests -> Request] /\ requests'[r].pc = "idle"
          /\ \A s \in Requests \ {r} : requests'[s] = requests[s]
      BY <1>1, GotoMoves DEF Fail, PCs, AccTypeOK
    <2>2. AccTypeOK' /\ Grows
      BY <1>1, <2>1 DEF Fail, AccTypeOK, Grows
    <2> QED BY <2>1, <2>2, OneRequest, IdleRemembers
  <1>2. ASSUME NEW t \in VTokens, SendVerificationEmail(t)
        PROVE  AccInv' /\ Grows
    <2>1. AccTypeOK' /\ Grows
      BY <1>2 DEF SendVerificationEmail, AccTypeOK, Grows
    <2> QED BY <1>2, <2>1, RequestsUntouched DEF SendVerificationEmail
  <1>3. ASSUME NEW t \in VTokens, ExpireLink(t)
        PROVE  AccInv' /\ Grows
    <2>1. /\ vtokens' \in [VTokens -> VToken]
          /\ \A u \in VTokens : vtokens'[u].state = vtokens[u].state /\ vtokens'[u].email = vtokens[u].email
      BY <1>3 DEF ExpireLink, AccTypeOK, VToken
    <2>2. AccTypeOK' /\ Grows
      BY <1>3, <2>1 DEF ExpireLink, AccTypeOK, Grows
    <2> QED BY <1>3, <2>2, RequestsUntouched DEF ExpireLink
  <1>4. ASSUME NEW t \in DOMAIN rtokens, ExpireSession(t)
        PROVE  AccInv' /\ Grows
    <2>1. DOMAIN rtokens' = DOMAIN rtokens /\ rtokens' \in [DOMAIN rtokens -> RToken]
      BY <1>4 DEF ExpireSession, AccTypeOK, RToken
    <2>2. AccTypeOK' /\ Grows
      BY <1>4, <2>1 DEF ExpireSession, AccTypeOK, Grows
    <2> QED BY <1>4, <2>2, RequestsUntouched DEF ExpireSession
  <1>5. ASSUME NEW e \in Emails, Ban(e)
        PROVE  AccInv' /\ Grows
    <2>1. /\ DOMAIN users' = DOMAIN users /\ users' \in [DOMAIN users -> User]
          /\ \A f \in DOMAIN users : users'[f].handle = users[f].handle
      BY <1>5 DEF Ban, AccTypeOK, User
    <2>2. AccTypeOK' /\ Grows
      BY <1>5, <2>1 DEF Ban, AccTypeOK, Grows
    <2> QED BY <1>5, <2>2, RequestsUntouched DEF Ban
  <1> QED BY <1>1, <1>2, <1>3, <1>4, <1>5 DEF Environment

\* Every step.
LEMMA AccNextInv ==
    ASSUME AccInv, [Next]_vars
    PROVE  AccInv' /\ Grows
  <1>1. CASE UNCHANGED vars
    <2>1. AccTypeOK' /\ Grows /\ UNCHANGED requests
      BY <1>1 DEF vars, AccInv, AccTypeOK, Grows
    <2> QED BY <2>1, RequestsUntouched
  <1> QED BY <1>1, RegisteringInv, VerifyingInv, SessionStepInv, EnvironmentInv DEF Next

\* The empty tables.
LEMMA AccInitInv == Init => AccInv
  <1> SUFFICES ASSUME Init PROVE AccInv
    OBVIOUS
  <1>1. AccTypeOK
    BY DEF Init, AccTypeOK, VToken, Request, PCs, Idle
  <1>2. \A r \in Requests : Remembers(r)
    BY DEF Init, Remembers, Idle
  <1> QED BY <1>1, <1>2 DEF AccInv
-----------------------------------------------------------------------------
\* A step of a request leaves the other requests alone, and the places where a
\* request holds something are reached in one way each.
Arrives(r) ==
    /\ \A s \in Requests \ {r} : requests'[s] = requests[s]
    /\ requests'[r].pc = "reg_identity" => CreateUser(r)
    /\ requests'[r].pc = "create_token" => CreateIdentity(r) \/ VerifyExpired(r)
    /\ requests'[r].pc = "verify_used" => VerifyGetUser(r)
    /\ requests'[r].pc = "verify_update" => VerifyConsume(r)
    /\ requests'[r].pc = "refresh_user" => \E t \in DOMAIN rtokens : RefreshToken(r, t)
    /\ requests'[r].pc = "refresh_create" => RefreshUser(r)
    /\ requests'[r].pc = "refresh_revoke" => RefreshCreate(r)

\* Every step of a request, by its action.
LEMMA Arrivals ==
    ASSUME AccInv, NEW r \in Requests, Registering(r) \/ Verifying(r) \/ Session(r) \/ Fail(r)
    PROVE  Arrives(r)
  <1>0. requests \in [Requests -> Request] /\ requests[r] \in Request
    BY DEF AccInv, AccTypeOK
  <1>1. CASE Registering(r)
    <2>1. ASSUME NEW e \in Emails, NEW h \in Handles, Register(r, e, h) PROVE Arrives(r)
      BY <1>0, <2>1 DEF Register, Begin, Arrives, Request, Idle
    <2>2. CASE RegisterHandle(r)
      BY <1>0, <2>2 DEF RegisterHandle, Goto, Arrives, Request, Idle
    <2>3. CASE CreateUser(r)
      BY <1>0, <2>3 DEF CreateUser, Goto, Arrives, Request, Idle
    <2>4. CASE CreateIdentity(r)
      BY <1>0, <2>4 DEF CreateIdentity, Goto, Arrives, Request, Idle
    <2>5. CASE CreateEmailVerificationToken(r)
      BY <1>0, <2>5 DEF CreateEmailVerificationToken, Arrives, Request
    <2>6. CASE PublishEmailVerification(r)
      BY <1>0, <2>6 DEF PublishEmailVerification, Goto, Arrives, Request, Idle
    <2> QED BY <1>1, <2>1, <2>2, <2>3, <2>4, <2>5, <2>6 DEF Registering
  <1>2. CASE Verifying(r)
    <2>1. ASSUME NEW t \in VTokens, VerifyEmail(r, t) PROVE Arrives(r)
      BY <1>0, <2>1 DEF VerifyEmail, Begin, Arrives, Request, Idle
    <2>2. CASE VerifyExpired(r)
      BY <1>0, <2>2 DEF VerifyExpired, DeleteByID, Goto, Arrives, Request, Idle
    <2>3. CASE VerifyGetUser(r)
      BY <1>0, <2>3 DEF VerifyGetUser, Arrives, Request
    <2>4. CASE VerifyUsed(r)
      BY <1>0, <2>4 DEF VerifyUsed, DeleteByID, Goto, Arrives, Request, Idle
    <2>5. CASE VerifyConsume(r)
      BY <1>0, <2>5 DEF VerifyConsume, DeleteByID, Goto, Arrives, Request, Idle
    <2>6. CASE VerifyUpdate(r)
      BY <1>0, <2>6 DEF VerifyUpdate, Goto, Arrives, Request, Idle
    <2> QED BY <1>2, <2>1, <2>2, <2>3, <2>4, <2>5, <2>6 DEF Verifying
  <1>3. CASE Session(r)
    <2>1. ASSUME NEW e \in Emails, Login(r, e) PROVE Arrives(r)
      BY <1>0, <2>1 DEF Login, Begin, Arrives, Request, Idle
    <2>2. CASE LoginUser(r)
      BY <1>0, <2>2 DEF LoginUser, Goto, Arrives, Request, Idle
    <2>3. CASE GenerateAuthResponse(r)
      BY <1>0, <2>3 DEF GenerateAuthResponse, Goto, Arrives, Request, Idle
    <2>4. ASSUME NEW t \in DOMAIN rtokens, RefreshToken(r, t) PROVE Arrives(r)
      <3>1. PICK e : Begin(r, "refresh_user", e, NoHandle, t)
        BY <2>4 DEF RefreshToken
      <3>2. requests'[r].pc = "refresh_user" /\ \A s \in Requests \ {r} : requests'[s] = requests[s]
        BY <1>0, <3>1 DEF Begin, Idle
      <3> QED BY <2>4, <3>2 DEF Arrives
    <2>5. ASSUME NEW t \in DOMAIN rtokens, Logout(r, t) PROVE Arrives(r)
      BY <1>0, <2>5 DEF Logout, Begin, Arrives, Request, Idle
    <2>6. CASE RefreshUser(r)
      BY <1>0, <2>6 DEF RefreshUser, Goto, Arrives, Request, Idle
    <2>7. CASE RefreshCreate(r)
      BY <1>0, <2>7 DEF RefreshCreate, Goto, Arrives, Request, Idle
    <2>8. CASE RefreshRevoke(r)
      BY <1>0, <2>8 DEF RefreshRevoke, Goto, Arrives, Request, Idle
    <2>9. CASE LogoutRevoke(r)
      BY <1>0, <2>9 DEF LogoutRevoke, Goto, Arrives, Request, Idle
    <2> QED BY <1>3, <2>1, <2>2, <2>3, <2>4, <2>5, <2>6, <2>7, <2>8, <2>9 DEF Session
  <1>4. CASE Fail(r)
    BY <1>0, <1>4 DEF Fail, Goto, Arrives, Request, Idle
  <1> QED BY <1>1, <1>2, <1>3, <1>4
-----------------------------------------------------------------------------
(* Sessions.                                                                 *)

\* A family is named by one of its tokens, and one that nobody logged out of has
\* a token that is not revoked and that no rotation is about to revoke.
Settled(u) == /\ ~ rtokens[u].revoked
              /\ \A r \in Requests : At(r, "refresh_revoke") => requests[r].token # u
FamilyInv == \A t \in DOMAIN rtokens :
    /\ rtokens[t].family \in DOMAIN rtokens
    /\ \/ rtokens[t].family \in loggedOut
       \/ \E u \in DOMAIN rtokens : rtokens[u].family = rtokens[t].family /\ Settled(u)

\* Steps that change no refresh token but its expiry and start no revocation.
LEMMA FamilyQuiet ==
    ASSUME AccInv, FamilyInv, loggedOut' = loggedOut, DOMAIN rtokens' = DOMAIN rtokens,
           \A t \in DOMAIN rtokens : /\ rtokens'[t].family = rtokens[t].family
                                     /\ rtokens'[t].revoked = rtokens[t].revoked,
           \A s \in Requests : requests'[s] = requests[s] \/ requests'[s].pc # "refresh_revoke"
    PROVE  FamilyInv'
  <1>1. \A u \in DOMAIN rtokens : Settled(u) => Settled(u)'
    BY DEF Settled, At
  <1> QED BY <1>1 DEF FamilyInv

\* The steps that write no refresh token.
LEMMA RTokensKept ==
    ASSUME NEW r \in Requests,
           \/ Registering(r) \/ Verifying(r) \/ Fail(r) \/ LoginUser(r) \/ RefreshUser(r)
           \/ \E e \in Emails : Login(r, e)
           \/ \E t \in DOMAIN rtokens : RefreshToken(r, t) \/ Logout(r, t)
    PROVE  UNCHANGED <<rtokens, loggedOut>>
  BY DEF Registering, Register, RegisterHandle, CreateUser, CreateIdentity,
         CreateEmailVerificationToken, PublishEmailVerification, Verifying, VerifyEmail,
         VerifyExpired, VerifyGetUser, VerifyUsed, VerifyConsume, VerifyUpdate, Fail, LoginUser,
         RefreshUser, Login, RefreshToken, Logout, history

\* Every step keeps FamilyInv: a rotation stores the new settled token of its
\* family before it revokes the old one.
LEMMA FamilyStep ==
    ASSUME AccInv, FamilyInv, [Next]_vars
    PROVE  FamilyInv'
  <1>0. AccTypeOK /\ requests \in [Requests -> Request]
    BY DEF AccInv, AccTypeOK
  <1>1. ASSUME NEW r \in Requests, UNCHANGED <<rtokens, loggedOut>>, Arrives(r), ~ RefreshCreate(r)
        PROVE  FamilyInv'
    BY <1>1, FamilyQuiet DEF Arrives
  <1>2. ASSUME NEW r \in Requests, GenerateAuthResponse(r)
        PROVE  FamilyInv'
    <2>1. PICK t \in Unissued, e \in Emails \cup {NoEmail} : Issue(t, e, t)
      BY <1>0, <1>2 DEF GenerateAuthResponse, Request
    <2>2. /\ t \notin DOMAIN rtokens /\ DOMAIN rtokens' = DOMAIN rtokens \cup {t}
          /\ rtokens'[t].family = t /\ ~ rtokens'[t].revoked
          /\ \A u \in DOMAIN rtokens : rtokens'[u] = rtokens[u]
      BY <1>0, <2>1, Issued DEF Unissued
    <2>3. \A s \in Requests : At(s, "refresh_revoke")' =>
             requests'[s] = requests[s] /\ requests[s].token \in DOMAIN rtokens
      BY <1>0, <1>2, GotoMoves DEF GenerateAuthResponse, PCs, At, AccInv, Remembers
    <2>4. loggedOut' = loggedOut
      BY <1>2 DEF GenerateAuthResponse, history
    <2>5. Settled(t)' /\ \A u \in DOMAIN rtokens : Settled(u) => Settled(u)'
      BY <2>2, <2>3 DEF Settled, At
    <2> QED BY <2>2, <2>4, <2>5 DEF FamilyInv
  <1>3. ASSUME NEW r \in Requests, RefreshCreate(r)
        PROVE  FamilyInv'
    <2>1. PICK o \in DOMAIN rtokens : o = requests[r].token
      BY <1>3 DEF RefreshCreate, At, AccInv, Remembers
    <2>2. PICK t \in Unissued, e \in Emails \cup {NoEmail}, f \in RTokens :
             f = rtokens[o].family /\ Issue(t, e, f)
      BY <1>0, <1>3, <2>1 DEF RefreshCreate, Request, AccTypeOK, RToken
    <2>3. /\ t \notin DOMAIN rtokens /\ DOMAIN rtokens' = DOMAIN rtokens \cup {t}
          /\ rtokens'[t].family = f /\ ~ rtokens'[t].revoked
          /\ \A u \in DOMAIN rtokens : rtokens'[u] = rtokens[u]
      BY <1>0, <2>2, Issued
    <2>4. requests'[r].token = o /\ \A s \in Requests \ {r} : requests'[s] = requests[s]
      BY <1>0, <1>3, <2>1, GotoMoves DEF RefreshCreate, PCs
    <2>5. \A s \in Requests : At(s, "refresh_revoke") => requests[s].token \in DOMAIN rtokens
      BY DEF AccInv, Remembers, At
    <2>6. Settled(t)' /\ \A u \in DOMAIN rtokens : u # o /\ Settled(u) => Settled(u)'
      BY <2>3, <2>4, <2>5 DEF Settled, At
    <2>7. loggedOut' = loggedOut
      BY <1>3 DEF RefreshCreate, history
    <2> QED BY <2>2, <2>3, <2>6, <2>7 DEF FamilyInv
  <1>4. ASSUME NEW r \in Requests, RefreshRevoke(r) \/ LogoutRevoke(r)
        PROVE  FamilyInv'
    <2>1. PICK o \in DOMAIN rtokens : o = requests[r].token
      BY <1>4 DEF RefreshRevoke, LogoutRevoke, At, AccInv, Remembers
    <2>2. rtokens' = [rtokens EXCEPT ![o].revoked = TRUE]
      BY <1>4, <2>1 DEF RefreshRevoke, LogoutRevoke
    <2>3. /\ DOMAIN rtokens' = DOMAIN rtokens /\ rtokens'[o].family = rtokens[o].family
          /\ \A u \in DOMAIN rtokens : u # o => rtokens'[u] = rtokens[u]
      BY <1>0, <2>2, Revoked
    <2>4. requests'[r].pc = "idle" /\ \A s \in Requests \ {r} : requests'[s] = requests[s]
      BY <1>0, <1>4, GotoMoves DEF RefreshRevoke, LogoutRevoke, PCs
    <2>5. \A u \in DOMAIN rtokens : u # o /\ Settled(u) => Settled(u)'
      BY <2>3, <2>4 DEF Settled, At
    <2>6. CASE RefreshRevoke(r)
      <3>1. ~ Settled(o) /\ loggedOut' = loggedOut
        BY <2>1, <2>6 DEF RefreshRevoke, Settled, history
      <3> QED BY <2>3, <2>5, <3>1 DEF FamilyInv
    <2>7. CASE LogoutRevoke(r)
      <3>1. loggedOut' = loggedOut \cup {rtokens[o].family}
        BY <2>1, <2>7 DEF LogoutRevoke
      <3> QED BY <2>3, <2>5, <3>1 DEF FamilyInv
    <2> QED BY <1>4, <2>6, <2>7
  <1>5. CASE Environment
    <2>1. UNCHANGED <<requests, loggedOut>>
      BY <1>5 DEF Environment, SendVerificationEmail, ExpireLink, ExpireSession, Ban, history
    <2>2. /\ DOMAIN rtokens' = DOMAIN rtokens
          /\ \A t \in DOMAIN rtokens : /\ rtokens'[t].family = rtokens[t].family
                                       /\ rtokens'[t].revoked = rtokens[t].revoked
      BY <1>0, <1>5 DEF Environment, SendVerificationEmail, ExpireLink, ExpireSession, Ban,
                        AccTypeOK, RToken
    <2> QED BY <2>1, <2>2, FamilyQuiet
  <1>6. CASE UNCHANGED vars
    BY <1>6, FamilyQuiet DEF vars
  <1> QED BY <1>1, <1>2, <1>3, <1>4, <1>5, <1>6, Arrivals, RTokensKept DEF Next, Session

\* What a refresh under way or a stored token says about its family.
LEMMA DeadMeans ==
    ASSUME NEW f, Dead(f)
    PROVE  /\ \A t \in DOMAIN rtokens : rtokens[t].family = f => rtokens[t].revoked
           /\ \A r \in Requests : requests[r].pc \in {"refresh_user", "refresh_create"} =>
                rtokens[requests[r].token].family # f
  BY DEF Dead, Refreshing

\* Steps that bring no valid token of a family and no refresh of one.
LEMMA DeadQuiet ==
    ASSUME AccInv, NEW f, Dead(f), DOMAIN rtokens \subseteq DOMAIN rtokens',
           \A t \in DOMAIN rtokens : /\ rtokens'[t].family = rtokens[t].family
                                     /\ rtokens[t].revoked => rtokens'[t].revoked,
           \A t \in DOMAIN rtokens' \ DOMAIN rtokens : rtokens'[t].family # f,
           \A s \in Requests :
              \/ requests'[s] = requests[s]
              \/ requests'[s].pc \notin {"refresh_user", "refresh_create"}
              \/ requests'[s].token \in DOMAIN rtokens /\ rtokens[requests'[s].token].family # f
    PROVE  Dead(f)'
  <1>1. ASSUME NEW s \in Requests, requests'[s].pc \in {"refresh_user", "refresh_create"}
        PROVE  rtokens'[requests'[s].token].family # f
    <2>1. PICK o \in DOMAIN rtokens : o = requests'[s].token /\ rtokens[o].family # f
      BY <1>1, DeadMeans, SMTT(30) DEF AccInv, Remembers
    <2> QED BY <2>1
  <1>2. ~ Refreshing(f)'
    BY <1>1 DEF Refreshing
  <1>3. \A t \in DOMAIN rtokens' : rtokens'[t].family = f => rtokens'[t].revoked
    BY DeadMeans
  <1> QED BY <1>2, <1>3 DEF Dead

\* No step revives an ended session.
LEMMA DeadStep ==
    ASSUME AccInv, FamilyInv, [Next]_vars
    PROVE  DeadStayDead
  <1> SUFFICES ASSUME NEW f \in DOMAIN rtokens, Dead(f)
               PROVE  Dead(f)'
    BY DEF DeadStayDead, FamilyInv
  <1>0. AccTypeOK /\ requests \in [Requests -> Request]
    BY DEF AccInv, AccTypeOK
  <1>1. ASSUME NEW r \in Requests, UNCHANGED rtokens, Arrives(r), ~ RefreshUser(r),
               \A t \in DOMAIN rtokens : ~ RefreshToken(r, t)
        PROVE  Dead(f)'
    BY <1>1, DeadQuiet DEF Arrives
  <1>2. ASSUME NEW r \in Requests, RefreshUser(r)
        PROVE  Dead(f)'
    <2>1. PICK pc \in {"refresh_create", "idle"} : Goto(r, pc)
      BY <1>2 DEF RefreshUser
    <2>2. /\ requests'[r].pc = pc
          /\ pc # "idle" => requests'[r].token = requests[r].token
          /\ \A s \in Requests \ {r} : requests'[s] = requests[s]
      BY <1>0, <2>1, GotoMoves DEF PCs
    <2>3. /\ requests[r].token \in DOMAIN rtokens /\ rtokens[requests[r].token].family # f
          /\ UNCHANGED rtokens
      BY <1>2, DeadMeans DEF RefreshUser, At, AccInv, Remembers
    <2>4. \A s \in Requests :
             \/ requests'[s] = requests[s]
             \/ requests'[s].pc \notin {"refresh_user", "refresh_create"}
             \/ requests'[s].token \in DOMAIN rtokens /\ rtokens[requests'[s].token].family # f
      BY <2>2, <2>3
    <2> QED BY <2>3, <2>4, DeadQuiet
  <1>3. ASSUME NEW r \in Requests, NEW t \in DOMAIN rtokens, RefreshToken(r, t)
        PROVE  Dead(f)'
    <2>1. rtokens[t].family # f /\ UNCHANGED rtokens
      BY <1>3, DeadMeans DEF RefreshToken, Refreshable
    <2>2. PICK e : Begin(r, "refresh_user", e, NoHandle, t)
      BY <1>3 DEF RefreshToken
    <2>3. requests'[r].token = t /\ \A s \in Requests \ {r} : requests'[s] = requests[s]
      BY <1>0, <2>2 DEF Begin, Idle
    <2> QED BY <2>1, <2>3, DeadQuiet
  <1>4. ASSUME NEW r \in Requests, GenerateAuthResponse(r) \/ RefreshCreate(r)
        PROVE  Dead(f)'
    <2>1. PICK t \in Unissued, e \in Emails \cup {NoEmail}, h \in RTokens : h # f /\ Issue(t, e, h)
      <3>1. CASE GenerateAuthResponse(r)
        BY <1>0, <3>1 DEF GenerateAuthResponse, Request, Unissued
      <3>2. CASE RefreshCreate(r)
        <4>1. PICK o \in DOMAIN rtokens : o = requests[r].token /\ rtokens[o].family # f
          BY <3>2, DeadMeans DEF RefreshCreate, At, AccInv, Remembers
        <4> QED BY <1>0, <3>2, <4>1 DEF RefreshCreate, Request, AccTypeOK, RToken
      <3> QED BY <1>4, <3>1, <3>2
    <2>2. /\ DOMAIN rtokens' = DOMAIN rtokens \cup {t} /\ rtokens'[t].family = h
          /\ \A u \in DOMAIN rtokens : rtokens'[u] = rtokens[u]
      BY <1>0, <2>1, Issued
    <2>3. PICK pc \in {"idle", "refresh_revoke"} : Goto(r, pc)
      BY <1>4 DEF GenerateAuthResponse, RefreshCreate
    <2>4. requests'[r].pc = pc /\ \A s \in Requests \ {r} : requests'[s] = requests[s]
      BY <1>0, <2>3, GotoMoves DEF PCs
    <2> QED BY <2>1, <2>2, <2>4, DeadQuiet
  <1>5. ASSUME NEW r \in Requests, RefreshRevoke(r) \/ LogoutRevoke(r)
        PROVE  Dead(f)'
    <2>1. PICK o \in DOMAIN rtokens : rtokens' = [rtokens EXCEPT ![o].revoked = TRUE]
      BY <1>5 DEF RefreshRevoke, LogoutRevoke, At, AccInv, Remembers
    <2>2. /\ DOMAIN rtokens' = DOMAIN rtokens
          /\ rtokens'[o].family = rtokens[o].family /\ rtokens'[o].revoked
          /\ \A u \in DOMAIN rtokens : u # o => rtokens'[u] = rtokens[u]
      BY <1>0, <2>1, Revoked
    <2>3. requests'[r].pc = "idle" /\ \A s \in Requests \ {r} : requests'[s] = requests[s]
      BY <1>0, <1>5, GotoMoves DEF RefreshRevoke, LogoutRevoke, PCs
    <2> QED BY <2>2, <2>3, DeadQuiet
  <1>6. CASE Environment
    <2>1. UNCHANGED requests
      BY <1>6 DEF Environment, SendVerificationEmail, ExpireLink, ExpireSession, Ban
    <2>2. /\ DOMAIN rtokens' = DOMAIN rtokens
          /\ \A t \in DOMAIN rtokens : /\ rtokens'[t].family = rtokens[t].family
                                       /\ rtokens'[t].revoked = rtokens[t].revoked
      BY <1>0, <1>6 DEF Environment, SendVerificationEmail, ExpireLink, ExpireSession, Ban,
                        AccTypeOK, RToken
    <2> QED BY <2>1, <2>2, DeadQuiet
  <1>7. CASE UNCHANGED vars
    BY <1>7, DeadQuiet DEF vars
  <1> QED BY <1>1, <1>2, <1>3, <1>4, <1>5, <1>6, <1>7, Arrivals, RTokensKept DEF Next, Session

\* The inductive invariant of the sessions.
LEMMA FamilyCorrect == Spec => [](AccInv /\ FamilyInv)
  <1>1. Init => AccInv /\ FamilyInv
    BY AccInitInv DEF Init, FamilyInv
  <1>2. AccInv /\ FamilyInv /\ [Next]_vars => (AccInv /\ FamilyInv)'
    BY AccNextInv, FamilyStep
  <1> QED BY <1>1, <1>2, PTL DEF Spec

\* SessionSurvives: however many requests rotate one token at once, and wherever
\* they are interrupted, a family that nobody logged out of keeps a token that is
\* not revoked, because the successor is stored before the old token is revoked.
THEOREM SessionSurvivesAlways == Spec => []SessionSurvives
  <1>1. FamilyInv => SessionSurvives
    BY DEF FamilyInv, SessionSurvives, Settled
  <1> QED BY <1>1, FamilyCorrect, PTL

\* EndedSessionsStayEnded: once every token of a family is revoked and no refresh
\* that read one of them before is under way, no step issues a token of it again.
THEOREM EndedSessionsStayEndedAlways == Spec => EndedSessionsStayEnded
  <1>1. AccInv /\ FamilyInv /\ [Next]_vars => [DeadStayDead]_vars
    BY DeadStep
  <1> QED BY <1>1, FamilyCorrect, PTL DEF Spec, EndedSessionsStayEnded
-----------------------------------------------------------------------------
(* Registration.                                                             *)

\* Steps that register nobody.
LEMMA RegQuiet ==
    ASSUME AccInv, Grows, RegistrationExclusive, UNCHANGED identities, DOMAIN users' = DOMAIN users,
           \A s \in Requests : requests'[s] = requests[s] \/ requests'[s].pc # "reg_identity"
    PROVE  RegistrationExclusive'
  <1>1. \A e, f \in DOMAIN users' : users'[e].handle = users'[f].handle => e = f
    BY DEF RegistrationExclusive, Grows
  <1> QED BY <1>1 DEF RegistrationExclusive, At

\* The steps that add neither a user nor an identity.
LEMMA UsersKept ==
    ASSUME [Next]_vars, \A r \in Requests : ~ CreateUser(r) /\ ~ CreateIdentity(r)
    PROVE  UNCHANGED identities /\ DOMAIN users' = DOMAIN users
  <1>1. ASSUME NEW r \in Requests, Registering(r) PROVE UNCHANGED <<users, identities>>
    BY <1>1 DEF Registering, Register, RegisterHandle, CreateEmailVerificationToken,
                PublishEmailVerification
  <1>2. ASSUME NEW r \in Requests, Verifying(r)
        PROVE  UNCHANGED identities /\ DOMAIN users' = DOMAIN users
    BY <1>2 DEF Verifying, VerifyEmail, VerifyExpired, VerifyGetUser, VerifyUsed, VerifyConsume,
                VerifyUpdate
  <1>3. ASSUME NEW r \in Requests, Session(r) \/ Fail(r) PROVE UNCHANGED <<users, identities>>
    BY <1>3 DEF Session, Login, LoginUser, GenerateAuthResponse, RefreshToken, Logout, RefreshUser,
                RefreshCreate, RefreshRevoke, LogoutRevoke, Fail
  <1>4. CASE Environment
    BY <1>4 DEF Environment, SendVerificationEmail, ExpireLink, ExpireSession, Ban
  <1> QED BY <1>1, <1>2, <1>3, <1>4 DEF Next, vars

\* Every step keeps RegistrationExclusive: what CreateUser lets through is new.
LEMMA RegStep ==
    ASSUME AccInv, RegistrationExclusive, [Next]_vars
    PROVE  RegistrationExclusive'
  <1>0. AccTypeOK /\ requests \in [Requests -> Request] /\ Grows
    BY AccNextInv DEF AccInv, AccTypeOK
  <1>1. ASSUME NEW r \in Requests, CreateUser(r)
        PROVE  RegistrationExclusive'
    <2>1. Arrives(r)
      BY <1>1, Arrivals DEF Registering
    <2>2. CASE UNCHANGED users
      <3>1. requests'[r].pc = "idle" /\ UNCHANGED identities
        <4>1. requests[r].email \in Emails /\ requests[r].handle \in Handles
          BY <1>1 DEF CreateUser, At, AccInv, Remembers
        <4>2. ~ Inserted(r) \/ requests[r].email \in DOMAIN users
          BY <2>2, <4>1 DEF Inserted
        <4>3. Goto(r, "idle") /\ UNCHANGED identities
          BY <1>1, <4>2 DEF CreateUser
        <4> QED BY <1>0, <4>3, GotoMoves DEF PCs
      <3> QED BY <1>0, <2>1, <2>2, <3>1, RegQuiet DEF Arrives
    <2>3. CASE ~ UNCHANGED users
      <3>1. PICK e \in Emails, h \in Handles : e = requests[r].email /\ h = requests[r].handle
        BY <1>1 DEF CreateUser, At, AccInv, Remembers
      <3>2. /\ e \notin DOMAIN users /\ ~ HandleTaken(h) /\ Inserted(r) /\ Goto(r, "reg_identity")
            /\ UNCHANGED identities
        BY <1>1, <2>3, <3>1 DEF CreateUser
      <3>3. /\ DOMAIN users' = DOMAIN users \cup {e} /\ users'[e].handle = h
            /\ \A f \in DOMAIN users : users'[f] = users[f]
        BY <3>1, <3>2 DEF Inserted
      <3>4. requests'[r].email = e
        BY <1>0, <3>1, <3>2, GotoMoves DEF PCs
      <3>5. \A s \in Requests : At(s, "reg_identity") => requests[s].email \in DOMAIN users
        BY DEF AccInv, Remembers, At
      <3>6. e \notin identities
        BY <1>0, <3>2 DEF AccTypeOK
      <3>7. \A f, g \in DOMAIN users' : users'[f].handle = users'[g].handle => f = g
        BY <3>2, <3>3 DEF RegistrationExclusive, HandleTaken
      <3>8. \A s \in Requests \ {r} : At(s, "reg_identity")' => requests'[s].email # e
        BY <2>1, <3>2, <3>5 DEF Arrives, At
      <3> QED BY <2>1, <3>2, <3>4, <3>6, <3>7, <3>8 DEF RegistrationExclusive, Arrives, At
    <2> QED BY <2>2, <2>3
  <1>2. ASSUME NEW r \in Requests, CreateIdentity(r)
        PROVE  RegistrationExclusive'
    <2>1. requests'[r].pc = "create_token" /\ \A s \in Requests \ {r} : requests'[s] = requests[s]
      BY <1>0, <1>2, GotoMoves DEF CreateIdentity, PCs
    <2>2. At(r, "reg_identity") /\ identities' = identities \cup {requests[r].email} /\ UNCHANGED users
      BY <1>2 DEF CreateIdentity
    <2> QED BY <2>1, <2>2 DEF RegistrationExclusive, At
  <1>3. CASE \A r \in Requests : ~ CreateUser(r) /\ ~ CreateIdentity(r)
    <2>1. \A s \in Requests : requests'[s] = requests[s] \/ requests'[s].pc # "reg_identity"
      <3>1. CASE \E r \in Requests : Registering(r) \/ Verifying(r) \/ Session(r) \/ Fail(r)
        BY <1>3, <3>1, Arrivals DEF Arrives
      <3>2. CASE Environment \/ UNCHANGED vars
        BY <3>2 DEF Environment, SendVerificationEmail, ExpireLink, ExpireSession, Ban, vars
      <3> QED BY <3>1, <3>2 DEF Next
    <2> QED BY <1>0, <1>3, <2>1, UsersKept, RegQuiet
  <1> QED BY <1>1, <1>2, <1>3

\* RegistrationExclusive: of any number of registrations that have passed both
\* lookups, the UNIQUE columns let one through for an address and for a handle.
THEOREM RegistrationExclusiveAlways == Spec => []RegistrationExclusive
  <1>1. Init => AccInv /\ RegistrationExclusive
    BY AccInitInv, SMTT(30) DEF Init, RegistrationExclusive, Idle, At
  <1>2. AccInv /\ RegistrationExclusive /\ [Next]_vars => (AccInv /\ RegistrationExclusive)'
    BY AccNextInv, RegStep
  <1> QED BY <1>1, <1>2, PTL DEF Spec
-----------------------------------------------------------------------------
(* The right to be verified.                                                 *)

Holding == {"reg_identity", "create_token", "verify_update"}
Holds(r, e) == requests[r].email = e /\ requests[r].pc \in Holding

\* Where the right of e is: spent, in a link, held by a request, or lost.
RightInv(e) ==
    \/ users[e].verified /\ LinksOf(e) = {} /\ HoldersOf(e) = {}
    \/ ~ users[e].verified /\ HoldersOf(e) = {} /\ \E t \in VTokens : LinksOf(e) = {t}
    \/ ~ users[e].verified /\ LinksOf(e) = {} /\ \E r \in Requests : HoldersOf(e) = {r}
    \/ ~ users[e].verified /\ LinksOf(e) = {} /\ HoldersOf(e) = {} /\ e \in interrupted

\* A request that takes the address for verified is right.
UsedInv == \A r \in Requests : At(r, "verify_used") => users[requests[r].email].verified
VerificationInv == UsedInv /\ \A e \in DOMAIN users : RightInv(e)

\* Steps that leave the right of e where it is.
LEMMA RightKept ==
    ASSUME NEW e, RightInv(e), users'[e].verified = users[e].verified, LinksOf(e)' = LinksOf(e),
           HoldersOf(e)' = HoldersOf(e), interrupted \subseteq interrupted'
    PROVE  RightInv(e)'
  BY DEF RightInv

\* The requests that hold a right, after a step of r.
LEMMA HoldersAfter ==
    ASSUME NEW r \in Requests, \A s \in Requests \ {r} : requests'[s] = requests[s], NEW e
    PROVE  /\ (Holds(r, e) <=> Holds(r, e)') => HoldersOf(e)' = HoldersOf(e)
           /\ HoldersOf(e) \in {{}, {r}} =>
                HoldersOf(e)' = IF Holds(r, e)' THEN {r} ELSE {}
  <1>1. HoldersOf(e) = {s \in Requests : Holds(s, e)} /\ HoldersOf(e)' = {s \in Requests : Holds(s, e)'}
    BY DEF HoldersOf, Holds, Holding
  <1>2. \A s \in Requests \ {r} : Holds(s, e) <=> Holds(s, e)'
    BY DEF Holds
  <1>3. ASSUME Holds(r, e) <=> Holds(r, e)'
        PROVE  HoldersOf(e)' = HoldersOf(e)
    BY <1>1, <1>2, <1>3
  <1>4. ASSUME HoldersOf(e) \in {{}, {r}}
        PROVE  HoldersOf(e)' = IF Holds(r, e)' THEN {r} ELSE {}
    <2>1. \A s \in Requests \ {r} : ~ Holds(s, e)'
      BY <1>1, <1>2, <1>4
    <2> QED BY <1>1, <2>1
  <1> QED BY <1>3, <1>4

\* A request that holds the right of e is the only one, and there is no link.
LEMMA HolderAlone ==
    ASSUME NEW e, RightInv(e), NEW r \in Requests, Holds(r, e)
    PROVE  ~ users[e].verified /\ LinksOf(e) = {} /\ HoldersOf(e) = {r}
  <1>1. r \in HoldersOf(e)
    BY DEF HoldersOf, Holds, Holding
  <1> QED BY <1>1 DEF RightInv

\* A link that is stored is the only one, and nothing else holds the right.
LEMMA LinkAlone ==
    ASSUME NEW e, RightInv(e), NEW t \in LinksOf(e)
    PROVE  ~ users[e].verified /\ LinksOf(e) = {t} /\ HoldersOf(e) = {}
  BY DEF RightInv

\* An address, once verified, stays so; the step that verifies it is UpdateUser.
LEMMA VerifiedKept ==
    ASSUME AccInv, [Next]_vars, NEW e \in DOMAIN users
    PROVE  /\ users[e].verified => users'[e].verified
           /\ users'[e].verified = users[e].verified \/ \E r \in Requests : VerifyUpdate(r)
  <1>0. AccTypeOK /\ users[e] \in User
    BY DEF AccInv, AccTypeOK
  <1>1. ASSUME NEW r \in Requests, Registering(r) PROVE users'[e] = users[e]
    BY <1>1 DEF Registering, Register, RegisterHandle, CreateUser, Inserted, CreateIdentity,
                CreateEmailVerificationToken, PublishEmailVerification
  <1>2. ASSUME NEW r \in Requests, Verifying(r), ~ VerifyUpdate(r) PROVE users'[e] = users[e]
    BY <1>2 DEF Verifying, VerifyEmail, VerifyExpired, VerifyGetUser, VerifyUsed, VerifyConsume
  <1>3. ASSUME NEW r \in Requests, Session(r) \/ Fail(r) PROVE users'[e] = users[e]
    BY <1>3 DEF Session, Login, LoginUser, GenerateAuthResponse, RefreshToken, Logout, RefreshUser,
                RefreshCreate, RefreshRevoke, LogoutRevoke, Fail
  <1>4. CASE Environment
    <2>1. users'[e].verified = users[e].verified
      BY <1>0, <1>4 DEF Environment, SendVerificationEmail, ExpireLink, ExpireSession, Ban, User
    <2> QED BY <2>1
  <1>5. ASSUME NEW r \in Requests, VerifyUpdate(r) PROVE users[e].verified => users'[e].verified
    <2>1. requests[r].user \in User
      BY <1>5 DEF VerifyUpdate, At, AccInv, Remembers
    <2> QED BY <1>5, <2>1 DEF VerifyUpdate, User
  <1>6. CASE UNCHANGED vars
    BY <1>6 DEF vars
  <1> QED BY <1>1, <1>2, <1>3, <1>4, <1>5, <1>6 DEF Next

\* Every step keeps UsedInv: no step takes a verification back.
LEMMA UsedStep ==
    ASSUME AccInv, UsedInv, [Next]_vars
    PROVE  UsedInv'
  <1> SUFFICES ASSUME NEW s \in Requests, At(s, "verify_used")'
               PROVE  users'[requests'[s].email].verified
    BY DEF UsedInv, At
  <1>1. CASE requests'[s] = requests[s]
    <2>1. PICK e \in DOMAIN users : e = requests[s].email /\ users[e].verified
      BY <1>1 DEF UsedInv, At, AccInv, Remembers
    <2> QED BY <1>1, <2>1, VerifiedKept
  <1>2. CASE VerifyGetUser(s)
    <2>1. requests[s] \in Request /\ requests \in [Requests -> Request]
      BY DEF AccInv, AccTypeOK
    <2> QED BY <1>2, <2>1 DEF VerifyGetUser, At, Request
  <1>3. requests'[s] = requests[s] \/ VerifyGetUser(s)
    <2>1. CASE \E r \in Requests : Registering(r) \/ Verifying(r) \/ Session(r) \/ Fail(r)
      BY <2>1, Arrivals DEF Arrives, At
    <2>2. CASE Environment \/ UNCHANGED vars
      BY <2>2 DEF Environment, SendVerificationEmail, ExpireLink, ExpireSession, Ban, vars
    <2> QED BY <2>1, <2>2 DEF Next
  <1> QED BY <1>1, <1>2, <1>3

\* The steps that move a right.
MovesRight(r) == \/ CreateUser(r) \/ CreateIdentity(r) \/ CreateEmailVerificationToken(r)
                 \/ VerifyExpired(r) \/ VerifyConsume(r) \/ VerifyUpdate(r)

\* Steps of a request that move no right; deleting the link of a verified
\* address finds no row.
LEMMA QuietRequest ==
    ASSUME AccInv, VerificationInv, [Next]_vars, NEW r \in Requests,
           Registering(r) \/ Verifying(r) \/ Session(r), ~ MovesRight(r), NEW e \in DOMAIN users
    PROVE  RightInv(e)'
  <1>1. requests[r].pc \notin Holding
    BY DEF Registering, Register, RegisterHandle, PublishEmailVerification, Verifying, VerifyEmail,
           VerifyGetUser, VerifyUsed, Session, Login, LoginUser, GenerateAuthResponse, RefreshToken,
           Logout, RefreshUser, RefreshCreate, RefreshRevoke, LogoutRevoke, MovesRight, Begin, At, Holding
  <1>2. requests'[r].pc \notin Holding /\ \A s \in Requests \ {r} : requests'[s] = requests[s]
    BY Arrivals DEF Arrives, MovesRight, Holding
  <1>3. HoldersOf(e)' = HoldersOf(e)
    BY <1>1, <1>2, HoldersAfter DEF Holds
  <1>4. UNCHANGED <<users, vtokens, interrupted>>
    <2>1. CASE VerifyUsed(r)
      <3>1. PICK t \in VTokens, f \in DOMAIN users :
               /\ t = requests[r].token /\ vtokens[t].email = f /\ users[f].verified
        BY <2>1, SMTT(30) DEF VerifyUsed, At, AccInv, Remembers, VerificationInv, UsedInv
      <3>2. vtokens[t].state # "live"
        BY <3>1, LinkAlone DEF VerificationInv, LinksOf
      <3> QED BY <2>1, <3>1, <3>2 DEF VerifyUsed, DeleteByID, history
    <2>2. CASE ~ VerifyUsed(r)
      BY <2>2 DEF Registering, Register, RegisterHandle, PublishEmailVerification, Verifying,
           VerifyEmail, VerifyGetUser, Session, Login, LoginUser, GenerateAuthResponse, RefreshToken,
           Logout, RefreshUser, RefreshCreate, RefreshRevoke, LogoutRevoke, MovesRight, history
    <2> QED BY <2>1, <2>2
  <1>5. LinksOf(e)' = LinksOf(e)
    BY <1>4 DEF LinksOf
  <1> QED BY <1>3, <1>4, <1>5, RightKept DEF VerificationInv

\* Mail, time and bans move no right.
LEMMA QuietEnvironment ==
    ASSUME AccInv, VerificationInv, [Next]_vars, Environment \/ UNCHANGED vars, NEW e \in DOMAIN users
    PROVE  RightInv(e)'
  <1>1. UNCHANGED <<requests, interrupted>>
    BY DEF Environment, SendVerificationEmail, ExpireLink, ExpireSession, Ban, vars, history
  <1>2. users'[e].verified = users[e].verified
    BY DEF Environment, SendVerificationEmail, ExpireLink, ExpireSession, Ban, vars,
           AccInv, AccTypeOK, User
  <1>3. \A t \in VTokens : vtokens'[t].state = vtokens[t].state /\ vtokens'[t].email = vtokens[t].email
    BY DEF Environment, SendVerificationEmail, ExpireLink, ExpireSession, Ban, vars,
           AccInv, AccTypeOK, VToken
  <1>4. LinksOf(e)' = LinksOf(e) /\ HoldersOf(e)' = HoldersOf(e)
    BY <1>1, <1>3 DEF LinksOf, HoldersOf
  <1> QED BY <1>1, <1>2, <1>4, RightKept DEF VerificationInv

\* A request that is cut off loses the right it holds.
LEMMA FailRight ==
    ASSUME AccInv, VerificationInv, NEW r \in Requests, Fail(r), NEW e \in DOMAIN users
    PROVE  RightInv(e)'
  <1>1. requests'[r].pc = "idle" /\ \A s \in Requests \ {r} : requests'[s] = requests[s]
    BY GotoMoves DEF Fail, PCs, AccInv, AccTypeOK
  <1>2. UNCHANGED <<users, vtokens>> /\ interrupted \subseteq interrupted'
    BY DEF Fail
  <1>3. LinksOf(e)' = LinksOf(e) /\ ~ Holds(r, e)'
    BY <1>1, <1>2 DEF LinksOf, Holds, Holding
  <1>4. CASE Holds(r, e)
    <2>1. ~ users[e].verified /\ LinksOf(e) = {} /\ HoldersOf(e) = {r}
      BY <1>4, HolderAlone DEF VerificationInv
    <2>2. HoldersOf(e)' = {}
      BY <1>1, <1>3, <2>1, HoldersAfter
    <2>3. e \in interrupted'
      BY <1>4 DEF Fail, Holds, Holding
    <2> QED BY <1>2, <1>3, <2>1, <2>2, <2>3 DEF RightInv
  <1>5. CASE ~ Holds(r, e)
    BY <1>1, <1>2, <1>3, <1>5, HoldersAfter, RightKept DEF VerificationInv
  <1> QED BY <1>4, <1>5

\* Register: the request that inserts the user holds the right of the account.
LEMMA RegisterRight ==
    ASSUME AccInv, VerificationInv, [Next]_vars, NEW r \in Requests, CreateUser(r) \/ CreateIdentity(r),
           NEW e \in DOMAIN users'
    PROVE  RightInv(e)'
  <1>0. requests \in [Requests -> Request] /\ AccTypeOK
    BY DEF AccInv, AccTypeOK
  <1>1. UNCHANGED <<vtokens, interrupted>> /\ LinksOf(e)' = LinksOf(e)
    BY DEF CreateUser, CreateIdentity, history, LinksOf
  <1>2. CASE CreateIdentity(r)
    <2>1. /\ requests'[r].pc = "create_token" /\ requests'[r].email = requests[r].email
          /\ \A s \in Requests \ {r} : requests'[s] = requests[s]
      BY <1>0, <1>2, GotoMoves DEF CreateIdentity, PCs
    <2>2. requests[r].pc = "reg_identity" /\ UNCHANGED users
      BY <1>2 DEF CreateIdentity, At
    <2>3. HoldersOf(e)' = HoldersOf(e)
      BY <2>1, <2>2, HoldersAfter DEF Holds, Holding
    <2> QED BY <1>1, <2>2, <2>3, RightKept DEF VerificationInv
  <1> DEFINE Taken == requests[r].email \in DOMAIN users \/ HandleTaken(requests[r].handle)
  <1>3. CASE CreateUser(r) /\ Taken
    <2>1. Goto(r, "idle") /\ UNCHANGED users /\ requests[r].pc = "reg_user"
      BY <1>3 DEF CreateUser, At
    <2>2. requests'[r].pc = "idle" /\ \A s \in Requests \ {r} : requests'[s] = requests[s]
      BY <1>0, <2>1, GotoMoves DEF PCs
    <2>3. HoldersOf(e)' = HoldersOf(e)
      BY <2>1, <2>2, HoldersAfter DEF Holds, Holding
    <2> QED BY <1>1, <2>1, <2>3, RightKept DEF VerificationInv
  <1>4. CASE CreateUser(r) /\ ~ Taken
    <2>1. PICK f \in Emails : f = requests[r].email
      BY <1>4 DEF CreateUser, At, AccInv, Remembers
    <2>2. f \notin DOMAIN users /\ Inserted(r) /\ Goto(r, "reg_identity") /\ requests[r].pc = "reg_user"
      BY <1>4, <2>1 DEF CreateUser, At
    <2>3. /\ DOMAIN users' = DOMAIN users \cup {f} /\ users'[f].verified = FALSE
          /\ \A g \in DOMAIN users : users'[g] = users[g]
      BY <2>1, <2>2 DEF Inserted
    <2>4. /\ requests'[r].pc = "reg_identity" /\ requests'[r].email = f
          /\ \A s \in Requests \ {r} : requests'[s] = requests[s]
      BY <1>0, <2>1, <2>2, GotoMoves DEF PCs
    <2>5. CASE e = f
      <3>1. LinksOf(e) = {}
        BY <1>0, <2>2, <2>5 DEF LinksOf, AccTypeOK
      <3>2. HoldersOf(e) = {}
        BY <2>2, <2>5 DEF HoldersOf, AccInv, Remembers
      <3>3. HoldersOf(e)' = {r}
        BY <2>4, <2>5, <3>2, HoldersAfter DEF Holds, Holding
      <3> QED BY <1>1, <2>3, <2>5, <3>1, <3>3 DEF RightInv
    <2>6. CASE e # f
      <3>1. HoldersOf(e)' = HoldersOf(e)
        BY <2>1, <2>4, <2>6, HoldersAfter DEF Holds
      <3>2. e \in DOMAIN users /\ users'[e] = users[e]
        BY <2>3, <2>6
      <3> QED BY <1>1, <3>1, <3>2, RightKept DEF VerificationInv
    <2> QED BY <2>5, <2>6
  <1> QED BY <1>2, <1>3, <1>4

\* A new link: the right goes from the request into it.
LEMMA CreateTokenRight ==
    ASSUME AccInv, VerificationInv, NEW r \in Requests, CreateEmailVerificationToken(r),
           NEW e \in DOMAIN users
    PROVE  RightInv(e)'
  <1>0. requests \in [Requests -> Request] /\ requests[r] \in Request /\ vtokens \in [VTokens -> VToken]
    BY DEF AccInv, AccTypeOK
  <1>1. PICK f \in DOMAIN users : f = requests[r].email
    BY DEF CreateEmailVerificationToken, At, AccInv, Remembers
  <1>2. PICK t \in VTokens :
           /\ vtokens[t].state = "unissued"
           /\ vtokens' = [vtokens EXCEPT ![t] = [state |-> "live", email |-> f, expired |-> FALSE]]
           /\ requests' = [requests EXCEPT ![r].pc = "publish", ![r].token = t]
    BY <1>1 DEF CreateEmailVerificationToken
  <1>3. requests'[r].pc = "publish" /\ \A s \in Requests \ {r} : requests'[s] = requests[s]
    BY <1>0, <1>2 DEF Request
  <1>4. UNCHANGED <<users, interrupted>> /\ requests[r].pc = "create_token"
    BY DEF CreateEmailVerificationToken, At, history
  <1>5. /\ vtokens'[t].state = "live" /\ vtokens'[t].email = f
        /\ \A u \in VTokens \ {t} : vtokens'[u] = vtokens[u]
    BY <1>0, <1>2
  <1>6. CASE e = f
    <2>1. ~ users[e].verified /\ LinksOf(e) = {} /\ HoldersOf(e) = {r}
      BY <1>1, <1>4, <1>6, HolderAlone DEF Holds, Holding, VerificationInv
    <2>2. HoldersOf(e)' = {}
      BY <1>3, <2>1, HoldersAfter DEF Holds, Holding
    <2>3. LinksOf(e)' = {t}
      BY <1>5, <1>6, <2>1 DEF LinksOf
    <2> QED BY <1>4, <2>1, <2>2, <2>3 DEF RightInv
  <1>7. CASE e # f
    <2>1. HoldersOf(e)' = HoldersOf(e)
      BY <1>1, <1>3, <1>7, HoldersAfter DEF Holds, Holding
    <2>2. LinksOf(e)' = LinksOf(e)
      BY <1>2, <1>5, <1>7 DEF LinksOf
    <2> QED BY <1>4, <2>1, <2>2, RightKept DEF VerificationInv
  <1> QED BY <1>6, <1>7

\* A link that is followed: the right goes from it to the one request whose
\* DELETE finds the row.
LEMMA DeleteRight ==
    ASSUME AccInv, VerificationInv, NEW r \in Requests, VerifyExpired(r) \/ VerifyConsume(r),
           NEW e \in DOMAIN users
    PROVE  RightInv(e)'
  <1>0. requests \in [Requests -> Request] /\ vtokens \in [VTokens -> VToken]
    BY DEF AccInv, AccTypeOK
  <1>1. PICK t \in VTokens, f \in DOMAIN users :
           t = requests[r].token /\ f = requests[r].email /\ vtokens[t].email = f
    BY DEF VerifyExpired, VerifyConsume, At, AccInv, Remembers
  <1>2. PICK to \in {"create_token", "verify_update"} : DeleteByID(r, to)
    BY DEF VerifyExpired, VerifyConsume
  <1>3. UNCHANGED <<users, interrupted>> /\ requests[r].pc \notin Holding
    BY DEF VerifyExpired, VerifyConsume, At, history, Holding
  <1>4. CASE vtokens[t].state = "live"
    <2>1. Goto(r, to) /\ vtokens' = [vtokens EXCEPT ![t].state = "deleted"]
      BY <1>1, <1>2, <1>4 DEF DeleteByID
    <2>2. /\ requests'[r].pc = to /\ requests'[r].email = f
          /\ \A s \in Requests \ {r} : requests'[s] = requests[s]
      BY <1>0, <1>1, <2>1, GotoMoves DEF PCs
    <2>3. vtokens'[t].state = "deleted" /\ \A u \in VTokens \ {t} : vtokens'[u] = vtokens[u]
      BY <1>0, <2>1 DEF VToken
    <2>4. CASE e = f
      <3>1. ~ users[e].verified /\ LinksOf(e) = {t} /\ HoldersOf(e) = {}
        BY <1>1, <1>4, <2>4, LinkAlone, SMTT(30) DEF LinksOf, VerificationInv
      <3>2. HoldersOf(e)' = {r}
        BY <2>2, <2>4, <3>1, HoldersAfter DEF Holds, Holding
      <3>3. LinksOf(e)' = {}
        BY <2>3, <3>1 DEF LinksOf
      <3> QED BY <1>3, <3>1, <3>2, <3>3 DEF RightInv
    <2>5. CASE e # f
      <3>1. HoldersOf(e)' = HoldersOf(e)
        BY <1>1, <2>2, <2>5, HoldersAfter DEF Holds
      <3>2. LinksOf(e)' = LinksOf(e)
        BY <1>1, <2>3, <2>5 DEF LinksOf
      <3> QED BY <1>3, <3>1, <3>2, RightKept DEF VerificationInv
    <2> QED BY <2>4, <2>5
  <1>5. CASE vtokens[t].state # "live"
    <2>1. Goto(r, "idle") /\ UNCHANGED vtokens
      BY <1>1, <1>2, <1>5 DEF DeleteByID
    <2>2. requests'[r].pc = "idle" /\ \A s \in Requests \ {r} : requests'[s] = requests[s]
      BY <1>0, <2>1, GotoMoves DEF PCs
    <2>3. HoldersOf(e)' = HoldersOf(e) /\ LinksOf(e)' = LinksOf(e)
      BY <1>3, <2>1, <2>2, HoldersAfter DEF Holds, Holding, LinksOf
    <2> QED BY <1>3, <2>3, RightKept DEF VerificationInv
  <1> QED BY <1>4, <1>5

\* UpdateUser: the right is spent.
LEMMA UpdateRight ==
    ASSUME AccInv, VerificationInv, NEW r \in Requests, VerifyUpdate(r), NEW e \in DOMAIN users
    PROVE  RightInv(e)'
  <1>0. requests \in [Requests -> Request] /\ users \in [DOMAIN users -> User]
    BY DEF AccInv, AccTypeOK
  <1>1. PICK f \in DOMAIN users, u \in User : f = requests[r].email /\ u = requests[r].user
    BY DEF VerifyUpdate, At, AccInv, Remembers
  <1>2. users'[f].verified /\ \A g \in DOMAIN users : g # f => users'[g] = users[g]
    BY <1>0, <1>1 DEF VerifyUpdate, User
  <1>3. requests'[r].pc = "idle" /\ \A s \in Requests \ {r} : requests'[s] = requests[s]
    BY <1>0, GotoMoves DEF VerifyUpdate, PCs
  <1>4. LinksOf(e)' = LinksOf(e) /\ UNCHANGED interrupted /\ requests[r].pc = "verify_update"
    BY DEF VerifyUpdate, LinksOf, history, At
  <1>5. CASE e = f
    <2>1. LinksOf(e) = {} /\ HoldersOf(e) = {r}
      BY <1>1, <1>4, <1>5, HolderAlone DEF Holds, Holding, VerificationInv
    <2>2. HoldersOf(e)' = {}
      BY <1>3, <2>1, HoldersAfter DEF Holds, Holding
    <2> QED BY <1>2, <1>4, <1>5, <2>1, <2>2 DEF RightInv
  <1>6. CASE e # f
    <2>1. HoldersOf(e)' = HoldersOf(e)
      BY <1>1, <1>3, <1>6, HoldersAfter DEF Holds, Holding
    <2> QED BY <1>2, <1>4, <1>6, <2>1, RightKept DEF VerificationInv
  <1> QED BY <1>5, <1>6

\* Every step keeps VerificationInv.
LEMMA VerificationStep ==
    ASSUME AccInv, VerificationInv, [Next]_vars
    PROVE  VerificationInv'
  <1>1. UsedInv'
    BY UsedStep DEF VerificationInv
  <1>2. ASSUME NEW e \in DOMAIN users' PROVE RightInv(e)'
    <2>1. CASE \E r \in Requests : CreateUser(r) \/ CreateIdentity(r)
      BY <2>1, RegisterRight
    <2>2. CASE \A r \in Requests : ~ CreateUser(r) /\ ~ CreateIdentity(r)
      <3>1. e \in DOMAIN users
        BY <2>2, UsersKept
      <3> QED BY <2>2, <3>1, QuietRequest, QuietEnvironment, FailRight, CreateTokenRight,
                 DeleteRight, UpdateRight DEF Next, MovesRight
    <2> QED BY <2>1, <2>2
  <1> QED BY <1>1, <1>2 DEF VerificationInv

\* OneVerificationRight: whatever links are followed, twice or after they have
\* expired, an account has one right to be verified, in a link or with one request
\* or spent, and none at all only after an interrupted request.
THEOREM OneVerificationRightAlways == Spec => []OneVerificationRight
  <1>1. Init => AccInv /\ VerificationInv
    BY AccInitInv, SMTT(30) DEF Init, VerificationInv, UsedInv, Idle, At
  <1>2. AccInv /\ VerificationInv /\ [Next]_vars => (AccInv /\ VerificationInv)'
    BY AccNextInv, VerificationStep
  <1>3. VerificationInv => OneVerificationRight
    <2> SUFFICES ASSUME VerificationInv, NEW e \in DOMAIN users
                 PROVE  RightsOf(e) = 1 \/ (RightsOf(e) = 0 /\ e \in interrupted)
      BY DEF OneVerificationRight
    <2>1. Cardinality({}) = 0
      BY FS_EmptySet
    <2>2. \A x : Cardinality({x}) = 1
      BY FS_Singleton
    <2>3. RightInv(e)
      BY DEF VerificationInv
    <2>4. CASE users[e].verified /\ LinksOf(e) = {} /\ HoldersOf(e) = {}
      BY <2>1, <2>4 DEF RightsOf
    <2>5. CASE ~ users[e].verified /\ HoldersOf(e) = {} /\ \E t \in VTokens : LinksOf(e) = {t}
      <3>1. Cardinality(LinksOf(e)) = 1 /\ Cardinality(HoldersOf(e)) = 0
        BY <2>1, <2>2, <2>5
      <3> QED BY <2>5, <3>1 DEF RightsOf
    <2>6. CASE ~ users[e].verified /\ LinksOf(e) = {} /\ \E r \in Requests : HoldersOf(e) = {r}
      <3>1. Cardinality(LinksOf(e)) = 0 /\ Cardinality(HoldersOf(e)) = 1
        BY <2>1, <2>2, <2>6
      <3> QED BY <2>6, <3>1 DEF RightsOf
    <2>7. CASE /\ ~ users[e].verified /\ LinksOf(e) = {} /\ HoldersOf(e) = {}
               /\ e \in interrupted
      BY <2>1, <2>7 DEF RightsOf
    <2> QED BY <2>3, <2>4, <2>5, <2>6, <2>7 DEF RightInv
  <1> QED BY <1>1, <1>2, <1>3, PTL DEF Spec
=============================================================================
