------------------------------- MODULE Policy -------------------------------
(***************************************************************************)
(* The decision of the policy engine: gateway/opa/policy.rego as operators *)
(* of the input document and of OPA's clock.  Rego rules of one name are   *)
(* alternatives: allow holds if one body does; reason is a complete rule,  *)
(* so two bodies that hold with different values are an evaluation error.  *)
(***************************************************************************)
EXTENDS Integers, FiniteSets

CONSTANTS
    ReauthWindow,    \* sensitive_reauth_window_seconds: 300
    StaleAge,        \* 8 hours
    VeryStaleAge     \* 24 hours

ASSUME PolicyAssumption ==
    /\ ReauthWindow \in Nat
    /\ StaleAge \in Nat
    /\ VeryStaleAge \in Nat
    /\ ReauthWindow <= StaleAge
    /\ StaleAge <= VeryStaleAge

\* The locations nginx protects and the one it asks the bridge at; the rules
\* look at this prefix only.
Paths == {"/public", "/sensitive", "/api/data", "/admin", "/api/peers", "/api/risk-score",
          "/validate"}

Roles == {"admin", "devops", "user", "anonymous"}
Classes == {"critical", "restricted", "internal", "public"}

\* The input document.  classification "none": input.data is not there.
Inputs ==
    [authenticated : BOOLEAN, mfa_verified : BOOLEAN, auth_time : Nat,
     is_admin : BOOLEAN, role : Roles, posture : {"healthy", "unhealthy"},
     classification : Classes \cup {"none"}, path : Paths]

-----------------------------------------------------------------------------

\* auth_time 0 means that the token has none.
valid_auth_time(in) == in.auth_time > 0

seconds_since_auth(in, t) == t - in.auth_time

fresh_auth(in, t) ==
    valid_auth_time(in) /\ seconds_since_auth(in, t) <= ReauthWindow

stale_session(in, t) ==
    valid_auth_time(in) /\ seconds_since_auth(in, t) > StaleAge

very_stale_session(in, t) ==
    valid_auth_time(in) /\ seconds_since_auth(in, t) > VeryStaleAge

base_ok(in) == in.authenticated /\ in.mfa_verified /\ in.posture = "healthy"

clearance_level ==
    [r \in Roles |-> CASE r = "admin" -> 3 [] r = "devops" -> 2
                       [] r = "user" -> 1  [] r = "anonymous" -> 0]

required_clearance ==
    [c \in Classes |-> CASE c = "critical" -> 3 [] c = "restricted" -> 2
                         [] c = "internal" -> 1 [] c = "public" -> 0]

classified(in) == in.classification # "none"

data_access_ok(in) ==
    classified(in) => clearance_level[in.role] >= required_clearance[in.classification]

\* The first four allow rules.
allow_by_path(in, t) ==
    /\ base_ok(in)
    /\ \/ /\ in.path \in {"/admin", "/api/peers"}
          /\ in.is_admin
          /\ ~very_stale_session(in, t)
       \/ /\ in.path \notin {"/sensitive", "/admin", "/api/peers"}
          /\ ~very_stale_session(in, t)
       \/ /\ in.path = "/sensitive"
          /\ fresh_auth(in, t)

\* The four allow rules that also ask for clearance.
allow_by_clearance(in, t) ==
    /\ base_ok(in)
    /\ data_access_ok(in)
    /\ \/ in.path = "/public" /\ ~very_stale_session(in, t)
       \/ in.path = "/sensitive" /\ fresh_auth(in, t)
       \/ /\ in.path \in {"/admin", "/api/peers"}
          /\ in.is_admin
          /\ ~very_stale_session(in, t)

allow(in, t) == allow_by_path(in, t) \/ allow_by_clearance(in, t)

\* Mutant of reason_rules: "allowed" is reported of every healthy device.
reason_rules_base_ok(in, t) == [r \in {"allowed"} |-> base_ok(in)]

\* The bodies of reason, each with the value it gives.
reason_rules(in, t) ==
    [insufficient_clearance |-> base_ok(in) /\ ~data_access_ok(in),
     session_too_old        |-> base_ok(in) /\ very_stale_session(in, t),
     session_stale          |-> /\ base_ok(in)
                                /\ stale_session(in, t)
                                /\ ~very_stale_session(in, t)
                                /\ ~fresh_auth(in, t)
                                /\ in.path = "/sensitive",
     not_authenticated      |-> ~in.authenticated,
     mfa_not_verified       |-> in.authenticated /\ ~in.mfa_verified,
     posture_unhealthy      |-> /\ in.authenticated
                                /\ in.mfa_verified
                                /\ in.posture # "healthy",
     reauth_required        |-> /\ base_ok(in)
                                /\ in.path = "/sensitive"
                                /\ ~fresh_auth(in, t)
                                /\ ~stale_session(in, t),
     admin_required         |-> base_ok(in) /\ in.path = "/admin" /\ ~in.is_admin,
     peer_admin_required    |-> base_ok(in) /\ in.path = "/api/peers" /\ ~in.is_admin,
     allowed                |-> allow(in, t)]

\* The values whose bodies hold.
reasons(in, t) == {r \in DOMAIN reason_rules(in, t) : reason_rules(in, t)[r]}

Conflict == "conflict"

\* What OPA evaluates reason to: the one value, the default, or an error.
reason(in, t) ==
    IF reasons(in, t) = {} THEN "no_matching_rule"
    ELSE IF Cardinality(reasons(in, t)) = 1 THEN CHOOSE r \in reasons(in, t) : TRUE
    ELSE Conflict

ReasonValues ==
    {"insufficient_clearance", "session_too_old", "session_stale", "not_authenticated",
     "mfa_not_verified", "posture_unhealthy", "reauth_required", "admin_required",
     "peer_admin_required", "allowed", "no_matching_rule", Conflict}

=============================================================================
