------------------------------ MODULE MockOidc ------------------------------
(***************************************************************************)
(* The OpenID provider of the test stack, gateway/mock-oidc/app.py: its    *)
(* token and userinfo endpoints.  It keeps no state; a token holds the     *)
(* claims it was made with.  It has no authorization endpoint, so a        *)
(* browser cannot log in there: its tokens are handed out to tests.        *)
(***************************************************************************)

USERINFO_STORE ==
    [admin     |-> [sub |-> "user-ztlab-001", groups |-> {"engineers", "admins"}],
     non_admin |-> [sub |-> "user-ztlab-002", groups |-> {"engineers"}]]

\* The user of a type, the administrator for a type there is none of.
StoredUser(type) ==
    IF type \in DOMAIN USERINFO_STORE THEN USERINFO_STORE[type] ELSE USERINFO_STORE.admin

Error(status) == [status |-> status]

\* The claims make_jwt is given; neither token has auth_time or amr.
access_claims(user) == [sub |-> user.sub]
id_claims(user) == [sub |-> user.sub, groups |-> user.groups]

\* POST /oauth/token
token(grant_type, type) ==
    IF grant_type # "authorization_code" THEN Error(400)
    ELSE [status       |-> 200,
          access_token |-> access_claims(StoredUser(type)),
          id_token     |-> id_claims(StoredUser(type))]

NoToken == [sub |-> "none"]

\* GET /userinfo: bearer is the payload of the token, NoToken when there is
\* none or it does not decode; an unknown subject is the administrator.
userinfo(bearer) ==
    IF bearer = NoToken THEN Error(401)
    ELSE [status |-> 200,
          user   |-> IF \E type \in DOMAIN USERINFO_STORE : USERINFO_STORE[type].sub = bearer.sub
                     THEN CHOOSE u \in {USERINFO_STORE[type] : type \in DOMAIN USERINFO_STORE} :
                              u.sub = bearer.sub
                     ELSE USERINFO_STORE.admin]

=============================================================================
