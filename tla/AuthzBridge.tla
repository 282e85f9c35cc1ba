----------------------------- MODULE AuthzBridge -----------------------------
(***************************************************************************)
(* The policy enforcement point: validate() of the authz-bridge, called by *)
(* nginx's auth_request for every request to a protected location.  A      *)
(* worker asks oauth2-proxy who the user is, looks up the posture of the   *)
(* device, and puts two queries to OPA; the session, the posture store and *)
(* the clock move on between these steps, and each call may fail.          *)
(*                                                                         *)
(* The posture store is what PostureView promises of it.                   *)
(***************************************************************************)
EXTENDS Clocks, Policy

CONSTANTS
    Workers,     \* gunicorn's sync workers
    Users,       \* browsers with a session cookie
    Locations,   \* the protected locations that are requested
    MaxLogins,   \* bound: logins
    EngineFaults \* how a call to OPA may fail: "unreachable", "no_result" (an
                 \* error reported as JSON), "bad_json" (a body that is no JSON)

ASSUME BridgeAssumption ==
    /\ Users # {}
    /\ Devices # {}
    /\ Locations \subseteq Paths \ {"/validate"}  \* "internal" in ztlab.conf
    /\ MaxLogins \in Nat
    /\ EngineFaults \subseteq {"unreachable", "no_result", "bad_json"}

VARIABLES
    now, genuine, view,  \* the posture store: see PostureView
    session,             \* session[u]: what the identity provider holds of u
    logins,              \* logins so far
    req                  \* req[w]: the request worker w is handling

vars == <<now, genuine, view, session, logins, req>>

View == INSTANCE PostureView

-----------------------------------------------------------------------------
(* External: Authentik and oauth2-proxy, as check_identity uses them.      *)

Sessions == [active : BOOLEAN, mfa : BOOLEAN, auth_time : Nat, admin : BOOLEAN]

NoSession == [active |-> FALSE, mfa |-> FALSE, auth_time |-> 0, admin |-> FALSE]

\* The claims check_identity returns.
Identities ==
    [authenticated : BOOLEAN, mfa_verified : BOOLEAN, auth_time : Nat, is_admin : BOOLEAN]

Unauthenticated ==
    [authenticated |-> FALSE, mfa_verified |-> FALSE, auth_time |-> 0, is_admin |-> FALSE]

\* The claims of an id token that is missing or does not decode.
NoClaims == [Unauthenticated EXCEPT !.authenticated = TRUE]

ClaimsOf(s) ==
    [authenticated |-> TRUE, mfa_verified |-> s.mfa, auth_time |-> s.auth_time,
     is_admin |-> s.admin]

\* check_identity: any failure, and any status but 202, is unauthenticated.
check_identity(u) ==
    {Unauthenticated} \cup
    (IF session[u].active THEN {ClaimsOf(session[u]), NoClaims} ELSE {})

-----------------------------------------------------------------------------
(* The request a worker handles.                                           *)

\* An answer of OPA: a result, JSON without a result (an evaluation error),
\* or a body that is not JSON.  "none": not asked yet.
Answers == {"none", "result", "no_result", "bad_json"}

Unreachable == "policy_engine_unreachable"
Unknown == "unknown"

PCs == {"idle", "identity", "posture", "allow", "reason", "decide", "done"}
Postures == {"healthy", "unhealthy"}
ReasonTexts == ReasonValues \cup {Unreachable, Unknown}
Statuses == {0, 200, 401, 403, 500}  \* 0: none yet; 500: nginx got no answer

\* location is what the client asked nginx for.  start and held are
\* bookkeeping: when the request began, and the sessions its user had since.
Requests ==
    [pc : PCs, user : Users, device : Devices, location : Paths,
     identity : Identities, posture : Postures,
     opa_resp : Answers, opa_allow : BOOLEAN,
     allowed : BOOLEAN, reason : ReasonTexts, status : Statuses,
     start : Times, held : SUBSET Sessions]

\* A worker with no request keeps nothing from the one before.
NewRequest(u, d, l) ==
    [pc |-> "idle", user |-> u, device |-> d, location |-> l,
     identity |-> Unauthenticated, posture |-> "unhealthy",
     opa_resp |-> "none", opa_allow |-> FALSE,
     allowed |-> FALSE, reason |-> Unreachable, status |-> 0,
     start |-> StartTime, held |-> {}]

IdleRequests == {NewRequest(u, d, "/public") : u \in Users, d \in Devices}
IdleRequest == CHOOSE r \in IdleRequests : TRUE

TypeOK ==
    /\ View!TypeOK
    /\ session \in [Users -> Sessions]
    /\ logins \in 0 .. MaxLogins
    /\ req \in [Workers -> Requests]

Init ==
    /\ View!Init
    /\ session = [u \in Users |-> NoSession]
    /\ logins = 0
    /\ req = [w \in Workers |-> IdleRequest]

\* A request remembers the sessions its user has until it asks for them.
SessionChanges(u, s) ==
    /\ session' = [session EXCEPT ![u] = s]
    /\ req' = [w \in Workers |->
           IF req[w].user = u /\ req[w].pc = "identity"
           THEN [req[w] EXCEPT !.held = @ \cup {s}]
           ELSE req[w]]
    /\ UNCHANGED <<now, genuine, view>>

\* A login; the token of a provider such as mock-oidc has no auth_time.
Login(u) ==
    /\ logins < MaxLogins
    /\ logins' = logins + 1
    /\ \E mfa, admin \in BOOLEAN, at \in {0, now} :
        SessionChanges(u, [active |-> TRUE, mfa |-> mfa, auth_time |-> at, admin |-> admin])

\* A logout, or a session that expires or is revoked.
Logout(u) ==
    /\ session[u].active
    /\ SessionChanges(u, NoSession)
    /\ UNCHANGED logins

-----------------------------------------------------------------------------
(* validate()                                                              *)

\* The classification validate derives from the path.
data_classification(p) ==
    CASE p \in {"/admin", "/api/peers"} -> "critical"
      [] p \in {"/sensitive", "/api/data"} -> "restricted"
      [] OTHER -> "public"

\* The header validate() takes the path from.  ztlab.conf sets it to $uri,
\* which nginx evaluates in the subrequest of auth_request, whose own URI it
\* is: only $request_uri would be the client's.
X_Original_URI(location) == "/validate"

\* The input document of both queries.
opa_input(r) ==
    LET original_uri == X_Original_URI(r.location) IN
    [authenticated |-> r.identity.authenticated,
     mfa_verified |-> r.identity.mfa_verified,
     auth_time |-> r.identity.auth_time,
     is_admin |-> r.identity.is_admin,
     role |-> IF r.identity.is_admin THEN "admin" ELSE "user",
     posture |-> r.posture,
     classification |-> data_classification(original_uri),
     path |-> original_uri]

\* nginx hands the subrequest /validate to a worker.
Arrive(w) ==
    /\ req[w].pc = "idle"
    /\ \E u \in Users, d \in Devices, l \in Locations :
         req' = [req EXCEPT ![w] = [NewRequest(u, d, l) EXCEPT
                    !.pc = "identity", !.start = now, !.held = {session[u]}]]
    /\ UNCHANGED <<now, genuine, view, session, logins>>

Identity(w) ==
    /\ req[w].pc = "identity"
    /\ \E id \in check_identity(req[w].user) :
         req' = [req EXCEPT ![w].pc = "posture", ![w].identity = id]
    /\ UNCHANGED <<now, genuine, view, session, logins>>

\* Mutant of Posture: the age of the record is not looked at.
Posture_any_age(w) ==
    /\ req[w].pc = "posture"
    /\ req' = [req EXCEPT ![w].pc = "allow",
                   ![w].posture = IF view[req[w].device] # 0 THEN "healthy" ELSE "unhealthy"]
    /\ UNCHANGED <<now, genuine, view, session, logins>>

\* get_posture, on the source address of the device.
Posture(w) ==
    /\ req[w].pc = "posture"
    /\ req' = [req EXCEPT ![w].pc = "allow",
                   ![w].posture = IF View!Healthy(req[w].device) THEN "healthy" ELSE "unhealthy"]
    /\ UNCHANGED <<now, genuine, view, session, logins>>

\* The bodies OPA may answer with when its evaluation gives those in ok.
Bodies(ok) == ok \cup (EngineFaults \cap {"no_result", "bad_json"})

\* requests.post raises: the except clause leaves allowed and reason alone.
Unanswered(w) ==
    /\ "unreachable" \in EngineFaults
    /\ req' = [req EXCEPT ![w].pc = "decide", ![w].opa_resp = "none", ![w].opa_allow = FALSE]

\* POST .../allow: a connection that fails or times out ends the try block.
AskAllow(w) ==
    /\ req[w].pc = "allow"
    /\ \/ \E resp \in Bodies({"result"}) :
            req' = [req EXCEPT ![w].pc = "reason", ![w].opa_resp = resp,
                        ![w].opa_allow = resp = "result" /\ allow(opa_input(req[w]), now)]
       \/ Unanswered(w)
    /\ UNCHANGED <<now, genuine, view, session, logins>>

\* Mutant of Parse: an answer without a result is read as the default rule's.
Parse_default_rule(r, resp, value) ==
    LET parsed == [r EXCEPT !.pc = "decide", !.opa_allow = FALSE] IN
    IF r.opa_resp = "bad_json" THEN parsed
    ELSE [parsed EXCEPT !.allowed = r.opa_allow,
                        !.reason = IF resp = "result" THEN value ELSE "no_matching_rule"]

\* The two assignments that end the try block, in their order: the first
\* stands when the second body does not parse.
Parse(r, resp, value) ==
    LET parsed == [r EXCEPT !.pc = "decide", !.opa_allow = FALSE] IN
    CASE r.opa_resp = "bad_json" -> parsed
      [] r.opa_resp # "bad_json" /\ resp = "bad_json" ->
            [parsed EXCEPT !.allowed = r.opa_allow]
      [] r.opa_resp # "bad_json" /\ resp # "bad_json" ->
            [parsed EXCEPT !.allowed = r.opa_allow,
                           !.reason = IF resp = "result" THEN value ELSE Unknown]

\* POST .../reason; reason bodies that conflict are an answer without result.
AskReason(w) ==
    /\ req[w].pc = "reason"
    /\ LET value == reason(opa_input(req[w]), now) IN
       \/ \E resp \in Bodies({IF value = Conflict THEN "no_result" ELSE "result"}) :
            req' = [req EXCEPT ![w] = Parse(req[w], resp, value)]
       \/ Unanswered(w)
    /\ UNCHANGED <<now, genuine, view, session, logins>>

\* Mutant of Decide: the bridge redirects to the login page by itself.
Decide_redirects(w) ==
    /\ req[w].pc = "decide"
    /\ req' = [req EXCEPT ![w].pc = "done",
                   ![w].status = IF req[w].allowed THEN 200
                                 ELSE IF ~req[w].identity.authenticated THEN 302
                                 ELSE 403]
    /\ UNCHANGED <<now, genuine, view, session, logins>>

\* The audit record (an error writing it is ignored) and the response.
Decide(w) ==
    /\ req[w].pc = "decide"
    /\ req' = [req EXCEPT ![w].pc = "done",
                   ![w].status = IF req[w].allowed THEN 200
                                 ELSE IF ~req[w].identity.authenticated THEN 401
                                 ELSE 403]
    /\ UNCHANGED <<now, genuine, view, session, logins>>

\* gunicorn kills a worker that is silent for too long, or validate() raises
\* what it does not catch (a store that is JSON but no object): nginx sees an
\* error.
WorkerKilled(w) ==
    /\ req[w].pc \notin {"idle", "done"}
    /\ req' = [req EXCEPT ![w].pc = "done", ![w].status = 500]
    /\ UNCHANGED <<now, genuine, view, session, logins>>

\* nginx acts on the status, and the worker is free for the next request.
Finish(w) ==
    /\ req[w].pc = "done"
    /\ req' = [req EXCEPT ![w] = IdleRequest]
    /\ UNCHANGED <<now, genuine, view, session, logins>>

\* auth_request and error_page: what the client gets for each status.
nginx(status) ==
    CASE status = 200 -> "proxied"
      [] status = 401 -> "sign_in"
      [] status = 403 -> "denied"
      [] OTHER -> "error"

Handle(w) == Identity(w) \/ Posture(w) \/ AskAllow(w) \/ AskReason(w) \/ Decide(w)

Store == View!Next /\ UNCHANGED <<session, logins, req>>

Next ==
    \/ Store
    \/ \E u \in Users : Login(u) \/ Logout(u)
    \/ \E w \in Workers : Arrive(w) \/ Handle(w) \/ WorkerKilled(w) \/ Finish(w)

Spec == Init /\ [][Next]_vars

-----------------------------------------------------------------------------
(* Properties.                                                             *)

\* The request of w was let through to the application.
Granted(w) == req[w].pc = "done" /\ nginx(req[w].status) = "proxied"

\* A session the user had since the request began carries it: active, with a
\* second factor, and not too old.
SessionJustifies(r) ==
    \E s \in r.held :
        /\ s.active
        /\ s.mfa
        /\ s.auth_time > 0 => r.start - s.auth_time <= VeryStaleAge

\* The device passed its checks recently, as of the beginning of the request.
DeviceJustifies(r) ==
    \E t \in genuine[r.device] : r.start - t <= MaxPostureAge + Skew[r.device]

\* No request reaches the application on a session that had ended or grown
\* too old before it began, or from a device that did not recently pass its
\* checks, however sessions, verdicts, the clock and the failures of
\* oauth2-proxy and OPA interleave with the steps of validate().
GrantJustified ==
    \A w \in Workers : Granted(w) => SessionJustifies(req[w]) /\ DeviceJustifies(req[w])

\* The session of r passed the limit between the beginning of r and time t.
GrewTooOld(r, t) ==
    /\ r.identity.auth_time > 0
    /\ r.start - r.identity.auth_time <= VeryStaleAge
    /\ t - r.identity.auth_time > VeryStaleAge

\* When OPA answers both queries, the reason given to the client and written
\* to the audit log agrees with the decision, although time passes between
\* the queries: a denied request is not reported allowed, and one that is let
\* through is reported otherwise only if its session grew too old meanwhile.
ReasonMatchesDecision ==
    \A w \in Workers :
        LET r == req[w] IN
        /\ r.pc \in {"decide", "done"}
        /\ r.opa_resp = "result"
        /\ r.reason \in ReasonValues
        => \/ r.allowed <=> r.reason = "allowed"
           \/ r.allowed /\ r.reason = "session_too_old" /\ GrewTooOld(r, now)

\* A reason given to the client and written to the audit log is the one the
\* policy had for this request at some moment since it began: not one of an
\* earlier request, of another input or of a query that failed.
ReasonIsTrue ==
    \A w \in Workers :
        \/ req[w].reason \in {Unreachable, Unknown}
        \/ /\ req[w].reason # Conflict
           /\ \E t \in req[w].start .. now : req[w].reason = reason(opa_input(req[w]), t)

\* The line the bridge logs when a call to OPA fails, "OPA unreachable,
\* failing closed": the requests it reports so are not let through.
EngineFailureFailsClosed ==
    \A w \in Workers : Granted(w) => req[w].reason # Unreachable

\* The checkpoint of phase 5: a session that is otherwise valid opens
\* /sensitive only for a while after its login.  (A token without auth_time
\* is left out here.)
SensitiveNeedsReauth ==
    \A w \in Workers :
        /\ Granted(w)
        /\ req[w].location = "/sensitive"
        => \E s \in req[w].held :
              /\ s.active
              /\ s.auth_time > 0 => req[w].start - s.auth_time <= ReauthWindow

=============================================================================
