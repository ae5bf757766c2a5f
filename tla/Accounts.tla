------------------------------ MODULE Accounts ------------------------------
(***************************************************************************)
(* Accounts of the API service (internal/api/auth) and the e-mail worker   *)
(* (cmd/email): registration, verification of the e-mail address, login,   *)
(* refresh-token rotation and logout.                                      *)
(*                                                                         *)
(* Every service call is a request goroutine whose SQL statements are      *)
(* steps of their own, since none of these calls opens a transaction.  A   *)
(* user is named by the e-mail address, which users.email makes unique.    *)
(* Passwords, hashes and access tokens are left out; replaced_by is        *)
(* written by the code and read by nothing.                                *)
(***************************************************************************)
EXTENDS Naturals, FiniteSets

CONSTANTS
    Emails, Handles,
    VTokens,     \* rows of email_verification_tokens that can be issued
    RTokens,     \* rows of refresh_tokens that can be issued
    Requests,    \* request goroutines of the API service
    NoEmail, NoHandle, NoToken, NoUser

ASSUME AccountsAssumption ==
    NoEmail \notin Emails /\ NoHandle \notin Handles /\ NoToken \notin VTokens \cup RTokens

VARIABLES
    users,        \* e-mail -> row of users
    identities,   \* e-mails with a row in auth_identities
    vtokens,      \* email_verification_tokens, deleted rows included
    rtokens,      \* id -> row of refresh_tokens
    queue,        \* verification messages in the broker, by their token
    inbox,        \* tokens that have reached a mailbox
    requests,     \* where each request goroutine is
    interrupted,  \* history: accounts a request left half done
    loggedOut     \* history: families a logout has revoked a token of

vars == <<users, identities, vtokens, rtokens, queue, inbox, requests, interrupted, loggedOut>>
mailVars == <<queue, inbox>>
history == <<interrupted, loggedOut>>

Idle == [pc |-> "idle", email |-> NoEmail, handle |-> NoHandle, token |-> NoToken,
         user |-> NoUser]

Init ==
    /\ users = << >>
    /\ identities = {}
    /\ vtokens = [t \in VTokens |-> [state |-> "unissued", email |-> NoEmail, expired |-> FALSE]]
    /\ rtokens = << >>
    /\ queue = {} /\ inbox = {}
    /\ requests = [r \in Requests |-> Idle]
    /\ interrupted = {} /\ loggedOut = {}

At(r, pc) == requests[r].pc = pc
Goto(r, pc) == requests' = [requests EXCEPT ![r] = IF pc = "idle" THEN Idle ELSE [@ EXCEPT !.pc = pc]]
Begin(r, pc, e, h, t) ==
    /\ At(r, "idle")
    /\ requests' = [requests EXCEPT ![r] =
                      [Idle EXCEPT !.pc = pc, !.email = e, !.handle = h, !.token = t]]

HandleTaken(h) == \E e \in DOMAIN users : users[e].handle = h
-----------------------------------------------------------------------------
(* Register.                                                                *)

\* GetUserByEmail; a known address ends the call.
Register(r, e, h) ==
    /\ e \notin DOMAIN users
    /\ Begin(r, "reg_handle", e, h, NoToken)
    /\ UNCHANGED <<users, identities, vtokens, rtokens, mailVars, history>>

\* GetUserByHandle.
RegisterHandle(r) ==
    /\ At(r, "reg_handle")
    /\ Goto(r, IF HandleTaken(requests[r].handle) THEN "idle" ELSE "reg_user")
    /\ UNCHANGED <<users, identities, vtokens, rtokens, mailVars, history>>

Inserted(r) ==
    users' = [e \in DOMAIN users \cup {requests[r].email} |->
                IF e = requests[r].email
                THEN [handle |-> requests[r].handle, verified |-> FALSE, banned |-> FALSE]
                ELSE users[e]]

\* Mutant: the checks made before are taken for granted.
CreateUserUnchecked(r) ==
    /\ At(r, "reg_user")
    /\ Inserted(r)
    /\ Goto(r, "reg_identity")
    /\ UNCHANGED <<identities, vtokens, rtokens, mailVars, history>>

\* INSERT INTO users: both columns are UNIQUE.
CreateUser(r) ==
    /\ At(r, "reg_user")
    /\ IF requests[r].email \in DOMAIN users \/ HandleTaken(requests[r].handle)
       THEN Goto(r, "idle") /\ UNCHANGED users
       ELSE Inserted(r) /\ Goto(r, "reg_identity")
    /\ UNCHANGED <<identities, vtokens, rtokens, mailVars, history>>

CreateIdentity(r) ==
    /\ At(r, "reg_identity")
    /\ identities' = identities \cup {requests[r].email}
    /\ Goto(r, "create_token")
    /\ UNCHANGED <<users, vtokens, rtokens, mailVars, history>>

\* Also the replacement of an expired token in VerifyEmail.
CreateEmailVerificationToken(r) ==
    /\ At(r, "create_token")
    /\ \E t \in VTokens :
         /\ vtokens[t].state = "unissued"
         /\ vtokens' = [vtokens EXCEPT ![t] =
                          [state |-> "live", email |-> requests[r].email, expired |-> FALSE]]
         /\ requests' = [requests EXCEPT ![r].pc = "publish", ![r].token = t]
    /\ UNCHANGED <<users, identities, rtokens, mailVars, history>>

\* An error of the publish is logged, and a message may be lost unnoticed.
PublishEmailVerification(r) ==
    /\ At(r, "publish")
    /\ queue' \in {queue, queue \cup {requests[r].token}}
    /\ Goto(r, "idle")
    /\ UNCHANGED <<users, identities, vtokens, rtokens, inbox, history>>
-----------------------------------------------------------------------------
(* The e-mail worker.                                                       *)

\* The mail is sent; the message stays queued if the worker stops before it
\* acknowledges it.  A failed send puts the message back: no change.
SendVerificationEmail(t) ==
    /\ t \in queue
    /\ inbox' = inbox \cup {t}
    /\ queue' \in {queue, queue \ {t}}
    /\ UNCHANGED <<users, identities, vtokens, rtokens, requests, history>>
-----------------------------------------------------------------------------
(* VerifyEmail.                                                             *)

\* The token is looked up; one that is not there ends the call.
VerifyEmail(r, t) ==
    /\ t \in inbox
    /\ vtokens[t].state = "live"
    /\ Begin(r, IF vtokens[t].expired THEN "verify_expired" ELSE "verify_user",
             vtokens[t].email, NoHandle, t)
    /\ UNCHANGED <<users, identities, vtokens, rtokens, mailVars, history>>

\* Mutant: deleting no row is not noticed.
DeleteByIDBlind(r, pc) ==
    /\ vtokens' = [vtokens EXCEPT ![requests[r].token].state = "deleted"]
    /\ Goto(r, pc)

\* DeleteEmailVerificationTokenByID: an error if there is no such row any more.
DeleteByID(r, pc) ==
    IF vtokens[requests[r].token].state = "live"
    THEN /\ vtokens' = [vtokens EXCEPT ![requests[r].token].state = "deleted"]
         /\ Goto(r, pc)
    ELSE Goto(r, "idle") /\ UNCHANGED vtokens

VerifyExpired(r) ==
    /\ At(r, "verify_expired")
    /\ DeleteByID(r, "create_token")
    /\ UNCHANGED <<users, identities, rtokens, mailVars, history>>

\* GetUserByID: the row that UpdateUser is going to write back.
VerifyGetUser(r) ==
    /\ At(r, "verify_user")
    /\ LET u == users[requests[r].email] IN
       requests' = [requests EXCEPT ![r].user = u,
                      ![r].pc = IF u.verified THEN "verify_used" ELSE "verify_consume"]
    /\ UNCHANGED <<users, identities, vtokens, rtokens, mailVars, history>>

VerifyUsed(r) ==
    /\ At(r, "verify_used")
    /\ DeleteByID(r, "idle")
    /\ UNCHANGED <<users, identities, rtokens, mailVars, history>>

VerifyConsume(r) ==
    /\ At(r, "verify_consume")
    /\ DeleteByID(r, "verify_update")
    /\ UNCHANGED <<users, identities, rtokens, mailVars, history>>

\* UpdateUser writes the whole row.
VerifyUpdate(r) ==
    /\ At(r, "verify_update")
    /\ users' = [users EXCEPT ![requests[r].email] = [requests[r].user EXCEPT !.verified = TRUE]]
    /\ Goto(r, "idle")
    /\ UNCHANGED <<identities, vtokens, rtokens, mailVars, history>>
-----------------------------------------------------------------------------
(* Login, RefreshToken and Logout.                                          *)

Login(r, e) ==
    /\ e \in identities
    /\ Begin(r, "login_user", e, NoHandle, NoToken)
    /\ UNCHANGED <<users, identities, vtokens, rtokens, mailVars, history>>

MayHaveSession(e) == ~ users[e].banned /\ users[e].verified

LoginUser(r) ==
    /\ At(r, "login_user")
    /\ Goto(r, IF MayHaveSession(requests[r].email) THEN "login_create" ELSE "idle")
    /\ UNCHANGED <<users, identities, vtokens, rtokens, mailVars, history>>

Unissued == RTokens \ DOMAIN rtokens
\* family: the token of the login from which this one descends by rotation.
Issue(t, e, family) ==
    rtokens' = [u \in DOMAIN rtokens \cup {t} |->
                  IF u = t THEN [email |-> e, family |-> family, revoked |-> FALSE, expired |-> FALSE]
                  ELSE rtokens[u]]

GenerateAuthResponse(r) ==
    /\ At(r, "login_create")
    /\ \E t \in Unissued : Issue(t, requests[r].email, t)
    /\ Goto(r, "idle")
    /\ UNCHANGED <<users, identities, vtokens, mailVars, history>>

\* Mutant: revoked tokens are accepted.
RefreshableThoughRevoked(t) == ~ rtokens[t].expired

Refreshable(t) == ~ rtokens[t].revoked /\ ~ rtokens[t].expired

RefreshToken(r, t) ==
    /\ Refreshable(t)
    /\ Begin(r, "refresh_user", rtokens[t].email, NoHandle, t)
    /\ UNCHANGED <<users, identities, vtokens, rtokens, mailVars, history>>

\* Mutant: the old token is revoked before its successor is stored.
RefreshUserRevokes(r) ==
    /\ At(r, "refresh_user")
    /\ IF MayHaveSession(requests[r].email)
       THEN /\ rtokens' = [rtokens EXCEPT ![requests[r].token].revoked = TRUE]
            /\ Goto(r, "refresh_create")
       ELSE Goto(r, "idle") /\ UNCHANGED rtokens
    /\ UNCHANGED <<users, identities, vtokens, mailVars, history>>

RefreshUser(r) ==
    /\ At(r, "refresh_user")
    /\ Goto(r, IF MayHaveSession(requests[r].email) THEN "refresh_create" ELSE "idle")
    /\ UNCHANGED <<users, identities, vtokens, rtokens, mailVars, history>>

RefreshCreate(r) ==
    /\ At(r, "refresh_create")
    /\ \E t \in Unissued : Issue(t, requests[r].email, rtokens[requests[r].token].family)
    /\ Goto(r, "refresh_revoke")
    /\ UNCHANGED <<users, identities, vtokens, mailVars, history>>

RefreshRevoke(r) ==
    /\ At(r, "refresh_revoke")
    /\ rtokens' = [rtokens EXCEPT ![requests[r].token].revoked = TRUE]
    /\ Goto(r, "idle")
    /\ UNCHANGED <<users, identities, vtokens, mailVars, history>>

Logout(r, t) ==
    /\ Begin(r, "logout", rtokens[t].email, NoHandle, t)
    /\ UNCHANGED <<users, identities, vtokens, rtokens, mailVars, history>>

LogoutRevoke(r) ==
    /\ At(r, "logout")
    /\ rtokens' = [rtokens EXCEPT ![requests[r].token].revoked = TRUE]
    /\ loggedOut' = loggedOut \cup {rtokens[requests[r].token].family}
    /\ Goto(r, "idle")
    /\ UNCHANGED <<users, identities, vtokens, mailVars, interrupted>>
-----------------------------------------------------------------------------
(* The environment.                                                         *)

\* A statement fails, the client goes away or the service stops: the statements
\* that remain are not executed.
Fail(r) ==
    /\ ~ At(r, "idle")
    /\ interrupted' = IF requests[r].pc \in {"reg_identity", "create_token", "verify_update"}
                      THEN interrupted \cup {requests[r].email} ELSE interrupted
    /\ Goto(r, "idle")
    /\ UNCHANGED <<users, identities, vtokens, rtokens, mailVars, loggedOut>>

\* An operator sets users.status; no code in the repository does.
Ban(e) ==
    /\ e \in DOMAIN users /\ ~ users[e].banned
    /\ users' = [users EXCEPT ![e].banned = TRUE]
    /\ UNCHANGED <<identities, vtokens, rtokens, mailVars, requests, history>>

\* Time passes: 48 hours for a link, REFRESH_TOKEN_DURATION for a session.
ExpireLink(t) ==
    /\ vtokens[t].state = "live" /\ ~ vtokens[t].expired
    /\ vtokens' = [vtokens EXCEPT ![t].expired = TRUE]
    /\ UNCHANGED <<users, identities, rtokens, mailVars, requests, history>>
ExpireSession(t) ==
    /\ ~ rtokens[t].expired
    /\ rtokens' = [rtokens EXCEPT ![t].expired = TRUE]
    /\ UNCHANGED <<users, identities, vtokens, mailVars, requests, history>>

Registering(r) ==
    \/ \E e \in Emails, h \in Handles : Register(r, e, h)
    \/ RegisterHandle(r)
    \/ CreateUser(r)
    \/ CreateIdentity(r)
    \/ CreateEmailVerificationToken(r)
    \/ PublishEmailVerification(r)

Verifying(r) ==
    \/ \E t \in VTokens : VerifyEmail(r, t)
    \/ VerifyExpired(r)
    \/ VerifyGetUser(r)
    \/ VerifyUsed(r)
    \/ VerifyConsume(r)
    \/ VerifyUpdate(r)

Session(r) ==
    \/ \E e \in Emails : Login(r, e)
    \/ LoginUser(r)
    \/ GenerateAuthResponse(r)
    \/ \E t \in DOMAIN rtokens : RefreshToken(r, t) \/ Logout(r, t)
    \/ RefreshUser(r)
    \/ RefreshCreate(r)
    \/ RefreshRevoke(r)
    \/ LogoutRevoke(r)

Environment ==
    \/ \E t \in VTokens : SendVerificationEmail(t) \/ ExpireLink(t)
    \/ \E t \in DOMAIN rtokens : ExpireSession(t)
    \/ \E e \in Emails : Ban(e)

Next ==
    \/ \E r \in Requests : Registering(r) \/ Verifying(r) \/ Session(r) \/ Fail(r)
    \/ Environment

Spec == Init /\ [][Next]_vars
-----------------------------------------------------------------------------
(* Properties.                                                              *)

\* Concurrent registrations that have all passed GetUserByEmail and
\* GetUserByHandle end with one account: handles are unique, and only the
\* request that inserted the user goes on to its identity and first token.
RegistrationExclusive ==
    /\ \A e, f \in DOMAIN users : users[e].handle = users[f].handle => e = f
    /\ \A r, s \in Requests :
         requests[r].pc = "reg_identity" /\ requests[s].pc = "reg_identity"
            /\ requests[r].email = requests[s].email => r = s
    /\ \A r \in Requests : At(r, "reg_identity") => requests[r].email \notin identities

LinksOf(e) == {t \in VTokens : vtokens[t].state = "live" /\ vtokens[t].email = e}
HoldersOf(e) == {r \in Requests : /\ requests[r].email = e
                                  /\ requests[r].pc \in {"reg_identity", "create_token", "verify_update"}}
RightsOf(e) == Cardinality(LinksOf(e)) + Cardinality(HoldersOf(e)) + (IF users[e].verified THEN 1 ELSE 0)

\* Each account has one right to be verified, which is a stored link, or in the
\* hands of the one request that is replacing or consuming it, or spent: double
\* clicks on an expired or a valid link never multiply it (a link is one-time),
\* and it disappears only if such a request is interrupted.
OneVerificationRight ==
    \A e \in DOMAIN users :
        RightsOf(e) = 1 \/ (RightsOf(e) = 0 /\ e \in interrupted)

\* Rotation never loses a session: whatever requests are interrupted or run
\* concurrently on the same token, a family that nobody logged out of keeps a
\* token that is not revoked.
SessionSurvives ==
    \A t \in DOMAIN rtokens :
        \/ rtokens[t].family \in loggedOut
        \/ \E u \in DOMAIN rtokens : rtokens[u].family = rtokens[t].family /\ ~ rtokens[u].revoked

Refreshing(f) == \E r \in Requests :
    /\ requests[r].pc \in {"refresh_user", "refresh_create"}
    /\ rtokens[requests[r].token].family = f
Dead(f) == /\ \A t \in DOMAIN rtokens : rtokens[t].family = f => rtokens[t].revoked
           /\ ~ Refreshing(f)

\* A session that has ended does not come back: once every token of a family is
\* revoked and no refresh that read one of them earlier is under way, no token
\* of the family is ever valid again.
DeadStayDead == \A f \in {rtokens[t].family : t \in DOMAIN rtokens} : Dead(f) => Dead(f)'
EndedSessionsStayEnded == [][DeadStayDead]_vars
=============================================================================
