------------------------------ MODULE Gateway -------------------------------
(***************************************************************************)
(* The gateway end to end: nginx asks the authz-bridge about a request     *)
(* (AuthzBridge) and, if it is let through, forwards it to the demo        *)
(* application (DemoApp) or to another handler of the bridge, with the     *)
(* clearance header the bridge set.  The forwarded request runs later than *)
(* the decision: sessions and verdicts may have changed, and risk_score    *)
(* looks them up again.                                                    *)
(*                                                                         *)
(* What nginx forwards for request w is up[w]; req[w] is kept until the    *)
(* client has its answer.                                                  *)
(***************************************************************************)
EXTENDS AuthzBridge, DemoApp, RiskScore, MockOidc

VARIABLE up   \* up[w]: the upstream request of w

gatewayVars == <<now, genuine, view, session, logins, req, up>>

UpstreamPCs == {"none", "app", "identity", "posture", "score", "bridge", "answered"}

NoFinding == [posture |-> "unhealthy", checked_at |-> 0, failed |-> {}]

\* identity and finding are what risk_score looks up, step_up what it says;
\* objects and label are the body and the label of the demo application.
Upstreams ==
    [pc : UpstreamPCs, status : {0, 200, 403, 404, 502}, objects : SUBSET Objects,
     label : Labels, identity : Identities, finding : Findings, step_up : BOOLEAN]

NoUpstream ==
    [pc |-> "none", status |-> 0, objects |-> {}, label |-> "UNCLASSIFIED",
     identity |-> Unauthenticated, finding |-> NoFinding, step_up |-> FALSE]

GatewayTypeOK == TypeOK /\ up \in [Workers -> Upstreams]

GatewayInit == Init /\ up = [w \in Workers |-> NoUpstream]

-----------------------------------------------------------------------------

\* Mutant of clearance_header: the role the bridge tells OPA.
clearance_header_role(identity) == IF identity.is_admin THEN "admin" ELSE "user"

\* identity.get('role', 'user'): check_identity returns no role.
clearance_header(identity) == "user"

\* Mutant of proxy_pass: a location with an upstream the model does not know.
proxy_pass_dashboard(location) ==
    CASE location \in {"/public", "/sensitive", "/api/data"} -> "app"
      [] location = "/api/risk-score" -> "identity"
      [] location = "/admin" -> "dashboard"
      [] OTHER -> "bridge"

\* proxy_pass of each location: the application, or a handler of the bridge.
proxy_pass(location) ==
    CASE location \in {"/public", "/sensitive", "/api/data"} -> "app"
      [] location = "/api/risk-score" -> "identity"
      [] OTHER -> "bridge"

\* nginx forwards a request that auth_request let through.
Forward(w) ==
    /\ Granted(w)
    /\ up[w].pc = "none"
    /\ up' = [up EXCEPT ![w].pc = proxy_pass(req[w].location)]
    /\ UNCHANGED vars

\* The demo application answers.
Serve(w) ==
    /\ up[w].pc = "app"
    /\ \E r \in responses(req[w].location, clearance_header(req[w].identity)) :
         up' = [up EXCEPT ![w] = [NoUpstream EXCEPT !.pc = "answered", !.status = r.status,
                                      !.objects = r.objects, !.label = r.label]]
    /\ UNCHANGED vars

\* risk_score asks oauth2-proxy again.
RiskIdentity(w) ==
    /\ up[w].pc = "identity"
    /\ \E id \in check_identity(req[w].user) :
         up' = [up EXCEPT ![w].pc = "posture", ![w].identity = id]
    /\ UNCHANGED vars

\* What get_posture returns for device d: a healthy verdict has no failed
\* signal, as the agent writes it; an unhealthy one may be recent or refused.
get_finding(d) ==
    IF View!Healthy(d)
    THEN {[posture |-> "healthy", checked_at |-> view[d], failed |-> {}]}
    ELSE {[posture |-> "unhealthy", checked_at |-> t, failed |-> {}] : t \in {0, now}}

RiskPosture(w) ==
    /\ up[w].pc = "posture"
    /\ \E f \in get_finding(req[w].device) :
         up' = [up EXCEPT ![w].pc = "score", ![w].finding = f]
    /\ UNCHANGED vars

\* The score on the clock of this moment, the audit record, the answer.
risk_score(w) ==
    /\ up[w].pc = "score"
    /\ up' = [up EXCEPT ![w].pc = "answered", ![w].status = 200,
                  ![w].step_up = requires_step_up(up[w].identity, up[w].finding, now)]
    /\ UNCHANGED vars

\* The dashboard, or the peer API (module Peers): no label and no object.
BridgePage(w) ==
    /\ up[w].pc = "bridge"
    /\ up' = [up EXCEPT ![w].pc = "answered", ![w].status = 200]
    /\ UNCHANGED vars

\* Mutant of UpstreamFails: the request stays with nginx and is tried again.
UpstreamFails_retries(w) ==
    /\ up[w].pc \notin {"none", "answered"}
    /\ up' = [up EXCEPT ![w] = [NoUpstream EXCEPT !.pc = proxy_pass(req[w].location)]]
    /\ UNCHANGED vars

\* The upstream is down, dies or takes longer than nginx waits.
UpstreamFails(w) ==
    /\ up[w].pc \notin {"none", "answered"}
    /\ up' = [up EXCEPT ![w] = [NoUpstream EXCEPT !.pc = "answered", !.status = 502]]
    /\ UNCHANGED vars

\* The client has its answer.
Reply(w) ==
    /\ Granted(w) => up[w].pc = "answered"
    /\ Finish(w)
    /\ up' = [up EXCEPT ![w] = NoUpstream]

Upstream(w) ==
    \/ Serve(w) \/ RiskIdentity(w) \/ RiskPosture(w) \/ risk_score(w) \/ BridgePage(w)
    \/ UpstreamFails(w)

\* The steps of the bridge, the store and the users.
BridgeStep ==
    /\ \/ Store
       \/ \E u \in Users : Login(u) \/ Logout(u)
       \/ \E w \in Workers : Arrive(w) \/ Handle(w) \/ WorkerKilled(w)
    /\ UNCHANGED up

GatewayNext ==
    \/ BridgeStep
    \/ \E w \in Workers : Forward(w) \/ Upstream(w) \/ Reply(w)

\* Every call the bridge makes and every upstream request has a timeout.
GatewayFairness ==
    \A w \in Workers :
        /\ WF_gatewayVars(Handle(w) /\ UNCHANGED up)
        /\ WF_gatewayVars(Forward(w) \/ Upstream(w) \/ Reply(w))

GatewaySpec == GatewayInit /\ [][GatewayNext]_gatewayVars
FairGatewaySpec == GatewaySpec /\ GatewayFairness

-----------------------------------------------------------------------------
(* Properties.                                                             *)

role(s) == IF s.admin THEN "admin" ELSE "user"

\* A data object the application hands out needs no more clearance than a
\* session gave that its user held since the request began, although the
\* application sees a header and no session.
ServedWithinClearance ==
    \A w \in Workers : \A o \in up[w].objects :
        \E s \in req[w].held :
            /\ s.active
            /\ CLASSIFICATION_LEVELS[DATA_OBJECTS[o]] <= CLEARANCE_LEVELS[role(s)]

\* The X-Data-Classification label of a response, derived from the path,
\* covers every object in its body, derived from the clearance.
LabelCoversContent ==
    \A w \in Workers : \A o \in up[w].objects :
        CLASSIFICATION_LEVELS[DATA_OBJECTS[o]] <= CLASSIFICATION_LEVELS[up[w].label]

\* A request that OPA let through is told to step up only if oauth2-proxy or
\* the posture store answered differently the second time: the score asks
\* for nothing the policy does not.
StepUpMeansChange ==
    \A w \in Workers :
        up[w].step_up => \/ up[w].identity # req[w].identity
                         \/ up[w].finding.posture # "healthy"

\* Every request a client sends is answered, by nginx, the bridge or the
\* application, whatever calls fail on the way.
EveryRequestAnswered ==
    \A w \in Workers : req[w].pc = "identity" ~> req[w].pc = "idle"

=============================================================================
