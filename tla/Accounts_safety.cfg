CONSTANTS
    Emails = {e1, e2}
    Handles = {h1}
    VTokens = {v1, v2}
    RTokens = {t1, t2, t3}
    Requests = {r1, r2}
    NoEmail = NoEmail
    NoHandle = NoHandle
    NoToken = NoToken
    NoUser = NoUser
SPECIFICATION Spec
SYMMETRY MCSymmetry
INVARIANTS
    RegistrationExclusive
    OneVerificationRight
    SessionSurvives
PROPERTIES
    EndedSessionsStayEnded
