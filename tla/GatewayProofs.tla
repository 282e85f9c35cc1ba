--------------------------- MODULE GatewayProofs ----------------------------
(***************************************************************************)
(* Proofs about Gateway: that it keeps the promises of AuthzBridge, what   *)
(* the application hands out, and what the risk score can ask for; and two *)
(* facts about the provider of the test stack.                             *)
(***************************************************************************)
EXTENDS Gateway, AuthzBridgeProofs

Level(o) == CLASSIFICATION_LEVELS[DATA_OBJECTS[o]]

\* What holds of an upstream request u made for the request r: it was let
\* through, what it hands out a plain user may see, under a label that covers
\* it, and it is told to step up only where something changed.
SoundUpstream(u, r) ==
    /\ u.pc # "none" => r.pc = "done" /\ r.status = 200
    /\ u.pc # "answered" => u.objects = {} /\ ~u.step_up
    /\ u.pc = "app" => r.location \in {"/public", "/sensitive", "/api/data"}
    /\ \A o \in u.objects : Level(o) <= 1 /\ Level(o) <= CLASSIFICATION_LEVELS[u.label]
    /\ u.finding.failed = {}
    /\ RISK_THRESHOLD > 45 /\ u.step_up =>
           u.identity # r.identity \/ u.finding.posture # "healthy"

\* The bridge's invariant, and the same for what nginx forwards.
GInv ==
    /\ IInv
    /\ up \in [Workers -> Upstreams]
    /\ \A w \in Workers : SoundUpstream(up[w], req[w])

-----------------------------------------------------------------------------
(* Refinement.                                                             *)

\* A step of the gateway is one of the bridge, or leaves it alone.
LEMMA StepRefines == [GatewayNext]_gatewayVars => [Next]_vars
  <1> SUFFICES ASSUME [GatewayNext]_gatewayVars PROVE [Next]_vars
    OBVIOUS
  <1>1. CASE BridgeStep
    BY <1>1 DEF BridgeStep, Next
  <1>2. ASSUME NEW w \in Workers, Forward(w) \/ Upstream(w)
        PROVE  UNCHANGED vars
    BY <1>2 DEF Forward, Upstream, Serve, RiskIdentity, RiskPosture, risk_score, BridgePage,
                UpstreamFails
  <1>3. ASSUME NEW w \in Workers, Reply(w)
        PROVE  Next
    BY <1>3 DEF Reply, Next
  <1>4. CASE UNCHANGED gatewayVars
    BY <1>4 DEF gatewayVars, vars
  <1> QED
    BY <1>1, <1>2, <1>3, <1>4 DEF GatewayNext

\* The bridge is a part of the gateway, so that what is proved of it holds of
\* the gateway.
LEMMA GatewayIsBridge == GatewaySpec => Spec
  <1>1. GatewayInit => Init
    BY DEF GatewayInit
  <1> QED
    BY <1>1, StepRefines, PTL DEF GatewaySpec, Spec

-----------------------------------------------------------------------------
(* The application and the score.                                          *)

\* What the application hands out to the clearance the bridge forwards.
LEMMA UserResponses ==
    ASSUME NEW path \in {"/public", "/sensitive", "/api/data"},
           NEW r \in responses(path, "user")
    PROVE  /\ r.status \in {200, 403, 404}
           /\ r.objects \in SUBSET Objects
           /\ r.label \in Labels
           /\ \A o \in r.objects : Level(o) <= 1 /\ Level(o) <= CLASSIFICATION_LEVELS[r.label]
  <1>1. /\ get_classification_for_path(path) \in Labels
        /\ path = "/api/data" => get_classification_for_path(path) = "INTERNAL"
    BY DEF get_classification_for_path, DATA_CLASSIFICATIONS, Labels, CLASSIFICATION_LEVELS
  <1>2. CLASSIFICATION_LEVELS["INTERNAL"] = 1
    BY DEF CLASSIFICATION_LEVELS
  <1>3. \A o \in Objects : clearance_sufficient("user", o) => Level(o) <= 1
    BY DEF clearance_sufficient, get_caller_clearance, CLEARANCE_LEVELS, Level, Objects,
           DATA_OBJECTS, CLASSIFICATION_LEVELS
  <1>4. CASE r = Response(404, {}, path)
    BY <1>1, <1>4 DEF Response
  <1>5. CASE path = "/public" /\ r = public
    BY <1>1, <1>5 DEF Response, public
  <1>6. CASE path = "/sensitive" /\ r = sensitive
    BY <1>1, <1>6 DEF Response, sensitive
  <1>7. CASE path = "/api/data" /\ r = api_data("user")
    BY <1>1, <1>2, <1>3, <1>7 DEF Response, api_data
  <1>8. CASE path = "/api/data" /\ \E o \in Objects : r = api_data_object("user", o)
    BY <1>1, <1>2, <1>3, <1>8 DEF Response, api_data_object
  <1> QED
    BY <1>4, <1>5, <1>6, <1>7, <1>8 DEF responses

\* The score of a session with a second factor on a device that passed all of
\* its checks stays under 46, however old the session and the verdict are: a
\* threshold above that asks nobody to step up whom OPA lets through.
THEOREM AllowedScoreIsLow ==
    ASSUME NEW id \in Identities, NEW f \in Findings, NEW t \in Int,
           id.authenticated, id.mfa_verified, f.posture = "healthy", f.failed = {}
    PROVE  calculate_risk_score(id, f, t) <= 45
  <1>1. session_points(id, t) \in {0, 15, 30}
    BY DEF session_points, Points
  <1>2. Points(~id.mfa_verified, 25) = 0
    BY DEF Points
  <1>3. posture_points(f) = 0
    BY DEF posture_points, Points
  <1>4. Points(t - f.checked_at > MaxPostureAge, 15) \in {0, 15}
    BY DEF Points
  <1> QED
    BY <1>1, <1>2, <1>3, <1>4 DEF calculate_risk_score

\* The score is one from 0 to 100, and a session and a verdict that are left
\* alone only become riskier: whoever is told to step up is told so until he
\* logs in again or the device is checked again.
THEOREM ScoreGrowsWithAge ==
    ASSUME NEW id \in Identities, NEW f \in Findings, NEW t \in Int, NEW v \in Int, t <= v
    PROVE  /\ calculate_risk_score(id, f, t) \in 0 .. 100
           /\ calculate_risk_score(id, f, t) <= calculate_risk_score(id, f, v)
           /\ requires_step_up(id, f, t) => requires_step_up(id, f, v)
  <1>1. id.auth_time \in Int /\ f.checked_at \in Int /\ MaxPostureAge \in Int
    BY ClockAssumption DEF Identities, Findings
  <1>2. HalfHour \in Int /\ Hour \in Int /\ HalfHour <= Hour /\ Hour < 999999
        /\ RISK_THRESHOLD \in Int
    BY RiskAssumption DEF NoAuthTime
  <1>3. /\ session_points(id, t) \in 0 .. 100
        /\ session_points(id, v) \in 0 .. 100
        /\ session_points(id, t) <= session_points(id, v)
    BY <1>1, <1>2 DEF session_points, session_age, Points, NoAuthTime
  <1>4. Points(~id.mfa_verified, 25) \in 0 .. 25
    BY DEF Points
  <1>5. posture_points(f) \in 0 .. 45
    BY DEF posture_points, Points
  <1>6. /\ Points(t - f.checked_at > MaxPostureAge, 15) \in 0 .. 15
        /\ Points(v - f.checked_at > MaxPostureAge, 15) \in 0 .. 15
        /\ Points(t - f.checked_at > MaxPostureAge, 15)
             <= Points(v - f.checked_at > MaxPostureAge, 15)
    BY <1>1 DEF Points
  <1>7. /\ calculate_risk_score(id, f, t) \in 0 .. 100
        /\ calculate_risk_score(id, f, v) \in 0 .. 100
        /\ calculate_risk_score(id, f, t) <= calculate_risk_score(id, f, v)
    <2> DEFINE logged(x) == session_points(id, x)
               factor == Points(~id.mfa_verified, 25)
               age(x) == Points(x - f.checked_at > MaxPostureAge, 15)
               sum(x) == logged(x) + factor + posture_points(f) + age(x)
    <2>1. sum(t) \in Nat /\ sum(v) \in Nat /\ sum(t) <= sum(v)
      <3>1. /\ logged(t) \in Nat /\ logged(v) \in Nat /\ logged(t) <= logged(v)
            /\ factor \in Nat /\ posture_points(f) \in Nat
            /\ age(t) \in Nat /\ age(v) \in Nat /\ age(t) <= age(v)
        BY <1>3, <1>4, <1>5, <1>6
      <3> HIDE DEF logged, factor, age
      <3> QED
        BY <3>1
    <2>2. /\ calculate_risk_score(id, f, t) = IF sum(t) < 100 THEN sum(t) ELSE 100
          /\ calculate_risk_score(id, f, v) = IF sum(v) < 100 THEN sum(v) ELSE 100
      BY DEF calculate_risk_score
    <2> HIDE DEF sum
    <2> QED
      BY <2>1, <2>2
  <1> QED
    BY <1>2, <1>7 DEF requires_step_up

-----------------------------------------------------------------------------
(* The invariant.                                                          *)

\* A request that was decided waits for nginx: no step of the bridge, of a
\* session or of the store touches it.
LEMMA DoneStays ==
    ASSUME TypeOK, BridgeStep, NEW w \in Workers, req[w].pc = "done"
    PROVE  req'[w] = req[w]
  <1>1. CASE Store
    BY <1>1 DEF Store
  <1>2. ASSUME NEW u \in Users, NEW s, SessionChanges(u, s)
        PROVE  req'[w] = req[w]
    BY <1>2 DEF SessionChanges
  <1>3. CASE \E u \in Users : Login(u) \/ Logout(u)
    BY <1>2, <1>3 DEF Login, Logout
  <1>4. ASSUME NEW v \in Workers, NEW r, req' = [req EXCEPT ![v] = r], req[v].pc # "done"
        PROVE  req'[w] = req[w]
    BY <1>4 DEF TypeOK
  <1>5. ASSUME NEW v \in Workers, Arrive(v) \/ Handle(v) \/ WorkerKilled(v)
        PROVE  req'[w] = req[w]
    <2>1. CASE Arrive(v)
      BY <1>4, <2>1 DEF Arrive
    <2>2. CASE Identity(v)
      BY <2>2 DEF Identity, TypeOK
    <2>3. CASE Posture(v)
      BY <2>3 DEF Posture, TypeOK
    <2>4. CASE AskAllow(v)
      BY <2>4 DEF AskAllow, Unanswered, TypeOK
    <2>5. CASE AskReason(v)
      BY <2>5 DEF AskReason, Unanswered, TypeOK
    <2>6. CASE Decide(v)
      BY <2>6 DEF Decide, TypeOK
    <2>7. CASE WorkerKilled(v)
      BY <2>7 DEF WorkerKilled, TypeOK
    <2> QED
      BY <1>5, <2>1, <2>2, <2>3, <2>4, <2>5, <2>6, <2>7 DEF Handle
  <1> QED
    BY <1>1, <1>3, <1>5 DEF BridgeStep

\* The upstream request that is not there.
LEMMA NoUpstreamSound ==
    /\ NoUpstream \in Upstreams
    /\ \A r : SoundUpstream(NoUpstream, r)
  <1>1. Unauthenticated \in Identities /\ NoFinding \in Findings
    BY DEF Unauthenticated, Identities, NoFinding, Findings
  <1>2. "UNCLASSIFIED" \in Labels
    BY DEF Labels, CLASSIFICATION_LEVELS
  <1> QED
    BY <1>1, <1>2 DEF NoUpstream, Upstreams, UpstreamPCs, SoundUpstream, NoFinding

\* A step of one upstream request: what is left to show is that its new state
\* is one it can be in, and sound.
LEMMA UpstreamStep ==
    ASSUME GInv, NEW w \in Workers, NEW u \in Upstreams, SoundUpstream(u, req[w]),
           up' = [up EXCEPT ![w] = u], UNCHANGED vars
    PROVE  GInv'
  <1>1. IInv'
    BY NextIInv DEF GInv
  <1>2. up' \in [Workers -> Upstreams]
    BY DEF GInv
  <1>3. \A v \in Workers : up'[v] = (IF v = w THEN u ELSE up[v]) /\ req'[v] = req[v]
    BY DEF GInv, vars
  <1>4. \A v \in Workers : SoundUpstream(up'[v], req'[v])
    BY <1>3 DEF GInv
  <1>5. (\A v \in Workers : SoundUpstream(up[v], req[v]))'
    BY <1>4 DEF SoundUpstream, Level
  <1> QED
    BY <1>1, <1>2, <1>5 DEF GInv

\* nginx forwards what was let through.
LEMMA ForwardGInv ==
    ASSUME GInv, NEW w \in Workers, Forward(w)
    PROVE  GInv'
  <1> DEFINE u == [up[w] EXCEPT !.pc = proxy_pass(req[w].location)]
  <1>0. up[w] \in Upstreams /\ SoundUpstream(up[w], req[w])
    BY DEF GInv
  <1>1. /\ proxy_pass(req[w].location) \in {"app", "identity", "bridge"}
        /\ proxy_pass(req[w].location) = "app" => req[w].location \in {"/public", "/sensitive", "/api/data"}
    BY DEF proxy_pass
  <1>2. proxy_pass(req[w].location) \in UpstreamPCs
    BY <1>1 DEF UpstreamPCs
  <1> HIDE DEF proxy_pass
  <1>3. u \in Upstreams
    BY <1>0, <1>2 DEF Upstreams
  <1>4. /\ u.pc = proxy_pass(req[w].location) /\ u.objects = up[w].objects
        /\ u.label = up[w].label /\ u.identity = up[w].identity
        /\ u.finding = up[w].finding /\ u.step_up = up[w].step_up
    BY <1>0 DEF Upstreams
  <1>5. req[w].pc = "done" /\ req[w].status = 200 /\ up[w].pc = "none"
    BY DEF Forward, Granted, nginx
  <1>6. up' = [up EXCEPT ![w] = u]
    BY DEF GInv, Forward
  <1> HIDE DEF u
  <1>7. SoundUpstream(u, req[w])
    BY <1>0, <1>1, <1>4, <1>5 DEF SoundUpstream
  <1> QED
    BY <1>3, <1>6, <1>7, UpstreamStep DEF Forward

\* The answer of the application, kept with the request.
LEMMA ServeGInv ==
    ASSUME GInv, NEW w \in Workers, Serve(w)
    PROVE  GInv'
  <1>0. SoundUpstream(up[w], req[w]) /\ up[w].pc = "app"
    BY DEF GInv, Serve
  <1>1. PICK r \in responses(req[w].location, "user") :
            up' = [up EXCEPT ![w] = [NoUpstream EXCEPT !.pc = "answered", !.status = r.status,
                                         !.objects = r.objects, !.label = r.label]]
    BY DEF Serve, clearance_header
  <1>2. /\ r.status \in {200, 403, 404}
        /\ r.objects \in SUBSET Objects
        /\ r.label \in Labels
        /\ \A o \in r.objects : Level(o) <= 1 /\ Level(o) <= CLASSIFICATION_LEVELS[r.label]
    BY <1>0, UserResponses DEF SoundUpstream
  <1> DEFINE u == [NoUpstream EXCEPT !.pc = "answered", !.status = r.status,
                       !.objects = r.objects, !.label = r.label]
  <1>3. u \in Upstreams
    <2>1. "answered" \in UpstreamPCs /\ r.status \in {0, 200, 403, 404, 502}
      BY <1>2 DEF UpstreamPCs
    <2> QED
      BY <1>2, <2>1, NoUpstreamSound, ZenonT(30) DEF Upstreams
  <1>4. /\ u.pc = "answered" /\ u.objects = r.objects /\ u.label = r.label
        /\ u.finding = NoUpstream.finding /\ u.step_up = NoUpstream.step_up
    BY NoUpstreamSound DEF Upstreams
  <1>5. NoUpstream.finding.failed = {} /\ ~NoUpstream.step_up
    BY DEF NoUpstream, NoFinding
  <1>6. up' = [up EXCEPT ![w] = u]
    BY <1>1
  <1> HIDE DEF u
  <1>7. SoundUpstream(u, req[w])
    BY <1>0, <1>2, <1>4, <1>5 DEF SoundUpstream
  <1> QED
    BY <1>3, <1>6, <1>7, UpstreamStep DEF Serve

\* risk_score looks the session and the device up again, and scores them.
LEMMA RiskGInv ==
    ASSUME GInv, NEW w \in Workers,
           RiskIdentity(w) \/ RiskPosture(w) \/ risk_score(w)
    PROVE  GInv'
  <1>0. /\ up[w] \in Upstreams
        /\ SoundUpstream(up[w], req[w])
        /\ req[w] \in Requests
        /\ TypeOK
    BY DEF GInv, IInv, TypeOK
  <1>u. UNCHANGED vars /\ up[w].pc # "none"
    BY DEF RiskIdentity, RiskPosture, risk_score
  <1>p. /\ "posture" \in UpstreamPCs /\ "score" \in UpstreamPCs /\ "answered" \in UpstreamPCs
        /\ 200 \in {0, 200, 403, 404, 502}
    BY DEF UpstreamPCs
  <1>t. now \in Int /\ view \in [Devices -> Int]
    <2>1. now \in Times /\ view \in [Devices -> Int]
      BY <1>0 DEF TypeOK, View!TypeOK, View!Times, Times
    <2> QED
      BY <2>1, ClockAssumption DEF Times
  <1>1. CASE RiskIdentity(w)
    <2>1. PICK id \in check_identity(req[w].user) :
              up' = [up EXCEPT ![w].pc = "posture", ![w].identity = id]
      BY <1>1 DEF RiskIdentity
    <2>2. id \in Identities
      <3>1. session[req[w].user] \in Sessions
        BY <1>0 DEF TypeOK, Requests
      <3>2. ClaimsOf(session[req[w].user]) \in Identities
        BY <3>1 DEF ClaimsOf, Sessions, Identities
      <3>3. Unauthenticated \in Identities /\ NoClaims \in Identities
        BY DEF NoClaims, Unauthenticated, Identities
      <3> QED
        BY <2>1, <3>2, <3>3 DEF check_identity
    <2> DEFINE u == [up[w] EXCEPT !.pc = "posture", !.identity = id]
    <2>3. u \in Upstreams
      BY <1>0, <1>p, <2>2, ZenonT(30) DEF Upstreams
    <2>4. /\ u.pc = "posture" /\ u.objects = up[w].objects /\ u.label = up[w].label
          /\ u.finding = up[w].finding /\ u.step_up = up[w].step_up
      BY <1>0 DEF Upstreams
    <2>5. up' = [up EXCEPT ![w] = u]
      BY <2>1 DEF GInv
    <2> HIDE DEF u
    <2>6. SoundUpstream(u, req[w])
      BY <1>0, <1>1, <1>u, <2>4 DEF SoundUpstream, RiskIdentity
    <2> QED
      BY <1>u, <2>3, <2>5, <2>6, UpstreamStep
  <1>2. CASE RiskPosture(w)
    <2>1. PICK f \in get_finding(req[w].device) :
              up' = [up EXCEPT ![w].pc = "score", ![w].finding = f]
      BY <1>2 DEF RiskPosture
    <2>2. f \in Findings /\ f.failed = {}
      <3>1. view[req[w].device] \in Int /\ now \in Int
        BY <1>0, <1>t DEF Requests
      <3> QED
        BY <2>1, <3>1 DEF get_finding, Findings
    <2> DEFINE u == [up[w] EXCEPT !.pc = "score", !.finding = f]
    <2>3. u \in Upstreams
      BY <1>0, <1>p, <2>2, ZenonT(30) DEF Upstreams
    <2>4. /\ u.pc = "score" /\ u.objects = up[w].objects /\ u.label = up[w].label
          /\ u.finding = f /\ u.step_up = up[w].step_up
      BY <1>0 DEF Upstreams
    <2>5. up' = [up EXCEPT ![w] = u]
      BY <2>1 DEF GInv
    <2> HIDE DEF u
    <2>6. SoundUpstream(u, req[w])
      BY <1>0, <1>2, <1>u, <2>2, <2>4 DEF SoundUpstream, RiskPosture
    <2> QED
      BY <1>u, <2>3, <2>5, <2>6, UpstreamStep
  <1>3. CASE risk_score(w)
    <2> DEFINE b == requires_step_up(up[w].identity, up[w].finding, now)
               u == [up[w] EXCEPT !.pc = "answered", !.status = 200, !.step_up = b]
    <2>1. b \in BOOLEAN
      BY DEF requires_step_up
    <2>2. /\ up[w].identity \in Identities
          /\ up[w].finding \in Findings
          /\ up[w].finding.failed = {}
          /\ now \in Int
      BY <1>0, <1>t DEF Upstreams, SoundUpstream
    <2>3. req[w].identity.authenticated /\ req[w].identity.mfa_verified
      <3>1. req[w].status = 200
        BY <1>0, <1>u DEF SoundUpstream
      <3> QED
        BY <3>1 DEF GInv, IInv, SoundRequest
    <2>4. ASSUME RISK_THRESHOLD > 45, b
          PROVE  up[w].identity # req[w].identity \/ up[w].finding.posture # "healthy"
      <3> SUFFICES ASSUME up[w].identity = req[w].identity,
                          up[w].finding.posture = "healthy"
                   PROVE  FALSE
        OBVIOUS
      <3>1. calculate_risk_score(up[w].identity, up[w].finding, now) <= 45
        BY <2>2, <2>3, AllowedScoreIsLow
      <3>2. calculate_risk_score(up[w].identity, up[w].finding, now) \in Int
        BY DEF calculate_risk_score, session_points, posture_points, Points
      <3> QED
        BY <2>4, <3>1, <3>2, RiskAssumption DEF requires_step_up
    <2> HIDE DEF b
    <2>5. u \in Upstreams
      BY <1>0, <1>p, <2>1, ZenonT(30) DEF Upstreams
    <2>6. /\ u.pc = "answered" /\ u.objects = up[w].objects /\ u.label = up[w].label
          /\ u.identity = up[w].identity /\ u.finding = up[w].finding /\ u.step_up = b
      BY <1>0 DEF Upstreams
    <2>7. up' = [up EXCEPT ![w] = u]
      BY <1>3 DEF GInv, risk_score, b
    <2> HIDE DEF u
    <2>8. SoundUpstream(u, req[w])
      BY <1>0, <1>u, <2>4, <2>6 DEF SoundUpstream
    <2> QED
      BY <1>u, <2>5, <2>7, <2>8, UpstreamStep
  <1> QED
    BY <1>1, <1>2, <1>3

\* The other answers, and the upstreams that do not answer.
LEMMA PageGInv ==
    ASSUME GInv, NEW w \in Workers, BridgePage(w) \/ UpstreamFails(w)
    PROVE  GInv'
  <1>0. up[w] \in Upstreams /\ SoundUpstream(up[w], req[w])
    BY DEF GInv
  <1>u. UNCHANGED vars /\ up[w].pc \notin {"none", "answered"}
    BY DEF BridgePage, UpstreamFails
  <1>p. /\ "answered" \in UpstreamPCs
        /\ 200 \in {0, 200, 403, 404, 502}
        /\ 502 \in {0, 200, 403, 404, 502}
    BY DEF UpstreamPCs
  <1>1. CASE BridgePage(w)
    <2> DEFINE u == [up[w] EXCEPT !.pc = "answered", !.status = 200]
    <2>1. u \in Upstreams
      BY <1>0, <1>p, ZenonT(30) DEF Upstreams
    <2>2. /\ u.pc = "answered" /\ u.objects = up[w].objects /\ u.label = up[w].label
          /\ u.finding = up[w].finding /\ u.step_up = up[w].step_up
      BY <1>0 DEF Upstreams
    <2>3. up' = [up EXCEPT ![w] = u]
      BY <1>1 DEF GInv, BridgePage
    <2> HIDE DEF u
    <2>4. SoundUpstream(u, req[w])
      BY <1>0, <1>u, <2>2 DEF SoundUpstream
    <2> QED
      BY <1>u, <2>1, <2>3, <2>4, UpstreamStep
  <1>2. CASE UpstreamFails(w)
    <2> DEFINE u == [NoUpstream EXCEPT !.pc = "answered", !.status = 502]
    <2>0. NoUpstream \in Upstreams
      BY NoUpstreamSound
    <2>1. u \in Upstreams
      <3>1. \A x \in Upstreams, s \in {0, 200, 403, 404, 502} :
                [x EXCEPT !.pc = "answered", !.status = s] \in Upstreams
        <4> TAKE x \in Upstreams, s \in {0, 200, 403, 404, 502}
        <4> QED
          BY <1>p, ZenonT(30) DEF Upstreams
      <3> QED
        BY <1>p, <2>0, <3>1, Zenon
    <2>2. /\ u.pc = "answered" /\ u.objects = NoUpstream.objects
          /\ u.finding = NoUpstream.finding /\ u.step_up = NoUpstream.step_up
      BY NoUpstreamSound DEF Upstreams
    <2>3. /\ NoUpstream.objects = {} /\ ~NoUpstream.step_up
          /\ NoUpstream.finding.failed = {}
      BY DEF NoUpstream, NoFinding
    <2>4. up' = [up EXCEPT ![w] = u]
      BY <1>2 DEF UpstreamFails
    <2> HIDE DEF u
    <2>5. SoundUpstream(u, req[w])
      BY <1>0, <1>u, <2>2, <2>3 DEF SoundUpstream
    <2> QED
      BY <1>u, <2>1, <2>4, <2>5, UpstreamStep
  <1> QED
    BY <1>1, <1>2

\* The invariant at the start.
LEMMA InitGInv == GatewayInit => GInv
  <1> SUFFICES ASSUME GatewayInit PROVE GInv
    OBVIOUS
  <1>1. IInv
    BY InitIInv DEF GatewayInit
  <1>2. \A w \in Workers : up[w] = NoUpstream
    BY DEF GatewayInit
  <1>3. up \in [Workers -> Upstreams]
    BY NoUpstreamSound DEF GatewayInit
  <1> QED
    BY <1>1, <1>2, <1>3, NoUpstreamSound DEF GInv

\* Every step keeps it.
LEMMA NextGInv ==
    ASSUME GInv, [GatewayNext]_gatewayVars
    PROVE  GInv'
  <1>0. IInv'
    BY StepRefines, NextIInv DEF GInv
  <1>1. CASE BridgeStep \/ UNCHANGED gatewayVars
    <2>1. UNCHANGED up
      BY <1>1 DEF BridgeStep, gatewayVars
    <2>2. ASSUME NEW w \in Workers
          PROVE  SoundUpstream(up[w], req'[w])
      <3>0. SoundUpstream(up[w], req[w])
        BY DEF GInv
      <3>1. CASE up[w].pc = "none"
        BY <3>0, <3>1 DEF SoundUpstream
      <3>2. CASE up[w].pc # "none"
        <4>1. req[w].pc = "done"
          BY <3>0, <3>2 DEF SoundUpstream
        <4>2. req'[w] = req[w]
          BY <1>1, <4>1, DoneStays DEF GInv, IInv, gatewayVars
        <4> QED
          BY <3>0, <4>2
      <3> QED
        BY <3>1, <3>2
    <2>3. (\A w \in Workers : SoundUpstream(up[w], req[w]))'
      BY <2>1, <2>2 DEF SoundUpstream, Level
    <2> QED
      BY <1>0, <2>1, <2>3 DEF GInv
  <1>2. ASSUME NEW w \in Workers, Reply(w)
        PROVE  GInv'
    <2>1. up' \in [Workers -> Upstreams]
      BY <1>2, NoUpstreamSound DEF GInv, Reply
    <2>2. \A v \in Workers : SoundUpstream(up'[v], req'[v])
      <3>1. \A v \in Workers \ {w} : up'[v] = up[v] /\ req'[v] = req[v]
        BY <1>2 DEF GInv, IInv, TypeOK, Reply, Finish
      <3>2. up'[w] = NoUpstream
        BY <1>2 DEF GInv, Reply
      <3> QED
        BY <3>1, <3>2, NoUpstreamSound DEF GInv
    <2>3. (\A v \in Workers : SoundUpstream(up[v], req[v]))'
      BY <2>2 DEF SoundUpstream, Level
    <2> QED
      BY <1>0, <2>1, <2>3 DEF GInv
  <1>3. ASSUME NEW w \in Workers, Forward(w) \/ Upstream(w)
        PROVE  GInv'
    BY <1>3, ForwardGInv, ServeGInv, RiskGInv, PageGInv DEF Upstream
  <1> QED
    BY <1>1, <1>2, <1>3 DEF GatewayNext

-----------------------------------------------------------------------------
(* Theorems.                                                               *)

\* The invariant of the gateway.
THEOREM GatewayInvariance == GatewaySpec => []GInv
  <1>1. GInv /\ [GatewayNext]_gatewayVars => GInv'
    BY NextGInv
  <1> QED
    BY <1>1, InitGInv, PTL DEF GatewaySpec

\* Requests, sessions, the posture view and what nginx forwards keep their types.
THEOREM GatewayTypeCorrect == GatewaySpec => []GatewayTypeOK
  <1>1. GInv => GatewayTypeOK
    BY DEF GInv, IInv, GatewayTypeOK
  <1> QED
    BY <1>1, GatewayInvariance, PTL

\* What the application hands out needs no more clearance than a session of
\* the user gave, for any users, sessions, failures and interleavings.
THEOREM ServedIsCleared == GatewaySpec => []ServedWithinClearance
  <1>1. GInv => ServedWithinClearance
    <2> SUFFICES ASSUME GInv, NEW w \in Workers, NEW o \in up[w].objects
                 PROVE  \E s \in req[w].held :
                            /\ s.active
                            /\ CLASSIFICATION_LEVELS[DATA_OBJECTS[o]] <= CLEARANCE_LEVELS[role(s)]
      BY DEF ServedWithinClearance
    <2>1. Level(o) <= 1 /\ req[w].status = 200
      BY DEF GInv, SoundUpstream
    <2>2. SessionJustifies(req[w])
      BY <2>1 DEF GInv, IInv, SoundRequest
    <2>3. PICK s \in req[w].held : s.active
      BY <2>2 DEF SessionJustifies
    <2>4. CLEARANCE_LEVELS[role(s)] \in {1, 3}
      BY DEF CLEARANCE_LEVELS, role
    <2>5. o \in Objects
      BY DEF GInv, Upstreams
    <2>6. Level(o) \in Int
      BY <2>5 DEF Level, Objects, DATA_OBJECTS, CLASSIFICATION_LEVELS
    <2> QED
      BY <2>1, <2>3, <2>4, <2>6 DEF Level
  <1> QED
    BY <1>1, GatewayInvariance, PTL

\* The label of a response covers every object in it.
THEOREM LabelsCoverContents == GatewaySpec => []LabelCoversContent
  <1>1. GInv => LabelCoversContent
    BY DEF GInv, SoundUpstream, Level, LabelCoversContent
  <1> QED
    BY <1>1, GatewayInvariance, PTL

\* With a threshold above 45 (70 by default) the score asks nobody to step up
\* whom OPA let through, unless the session or the verdict changed since.
THEOREM StepUpsMeanChange ==
    ASSUME RISK_THRESHOLD > 45
    PROVE  GatewaySpec => []StepUpMeansChange
  <1>1. GInv => StepUpMeansChange
    BY DEF GInv, SoundUpstream, StepUpMeansChange
  <1> QED
    BY <1>1, GatewayInvariance, PTL

-----------------------------------------------------------------------------
(* The provider of the test stack.                                         *)

\* The two endpoints of the mock provider agree: the userinfo of an access
\* token is the user whose groups the id token of the same answer carries.
THEOREM UserinfoAgreesWithToken ==
    ASSUME NEW type
    PROVE  LET t == token("authorization_code", type)
               i == userinfo(t.access_token)
           IN  i.status = 200 /\ i.user.sub = t.id_token.sub /\ i.user.groups = t.id_token.groups
  <1> DEFINE user == StoredUser(type)
             t == token("authorization_code", type)
  <1>1. user \in {USERINFO_STORE.admin, USERINFO_STORE.non_admin}
    BY DEF StoredUser, USERINFO_STORE
  <1>2. t.access_token.sub = user.sub /\ t.id_token.sub = user.sub
        /\ t.id_token.groups = user.groups
    BY DEF token, access_claims, id_claims
  <1> QED
    BY <1>1, <1>2 DEF userinfo, NoToken, USERINFO_STORE

=============================================================================
