-------------------------- MODULE AuthzBridgeProofs --------------------------
(***************************************************************************)
(* Proofs about AuthzBridge, for every number of workers, users and        *)
(* devices, every clock skew, every limit and every way OPA may fail.      *)
(***************************************************************************)
EXTENDS AuthzBridge, PolicyProofs

\* DeviceJustifies as a function of the request and of genuine.
DeviceEarned(r, g) ==
    \E t \in g[r.device] : r.start - t <= MaxPostureAge + Skew[r.device]

\* The state r of a request at time n, with the sessions s: what it has read
\* so far was true since it began, and what it has concluded follows.
SoundRequest(r, g, n, s) ==
    /\ r.start <= n
    /\ r.pc = "identity" =>
           s[r.user] \in r.held /\ ~r.opa_allow /\ ~r.allowed /\ r.status = 0
    /\ r.identity.mfa_verified =>
           \E x \in r.held : x.active /\ r.identity = ClaimsOf(x)
    /\ r.posture = "healthy" => DeviceEarned(r, g)
    /\ r.opa_allow \/ r.allowed \/ r.status = 200 =>
           /\ SessionJustifies(r)
           /\ DeviceEarned(r, g)
           /\ r.identity.authenticated
           /\ r.identity.mfa_verified
    /\ r.pc = "reason" /\ r.opa_resp = "result" /\ ~r.opa_allow =>
           \E t \in Times : t <= n /\ ~allow(opa_input(r), t)
    /\ r.pc = "reason" /\ r.opa_allow => allow(opa_input(r), r.start)
    /\ r.pc \notin {"decide", "done"} => r.reason = Unreachable
    /\ r.opa_resp = "result" /\ r.reason = "allowed" => r.allowed
    /\ r.allowed /\ r.reason \in ReasonValues =>
           \/ r.reason = "allowed"
           \/ r.reason = "session_too_old" /\ GrewTooOld(r, n)

\* The inductive invariant.  A grant is justified by what the steps before
\* it read, so every request carries its justification along.
IInv ==
    /\ TypeOK
    /\ \A d \in Devices : view[d] \in View!Earned(d)
    /\ \A w \in Workers : SoundRequest(req[w], genuine, now, session)

-----------------------------------------------------------------------------

\* The values the steps of validate() give to the fields of a request.
LEMMA FieldTypes ==
    /\ \A p \in {"idle", "identity", "posture", "allow", "reason", "decide", "done"} : p \in PCs
    /\ "healthy" \in Postures /\ "unhealthy" \in Postures
    /\ "none" \in Answers /\ FALSE \in BOOLEAN
    /\ Unreachable \in ReasonTexts /\ Unknown \in ReasonTexts
    /\ \A v \in ReasonValues : v \in ReasonTexts
    /\ 200 \in Statuses /\ 401 \in Statuses /\ 403 \in Statuses /\ 500 \in Statuses
  BY DEF PCs, Postures, Answers, ReasonTexts, Statuses

\* The texts of the bridge itself are no values of the policy.
LEMMA UnnamedReason ==
    Unreachable \notin ReasonValues \cup {"allowed"} /\ Unknown \notin ReasonValues
  BY DEF Unreachable, Unknown, ReasonValues, Conflict

\* A response, well typed, ends a request well typed.
LEMMA ResponseType ==
    ASSUME NEW q \in Requests, NEW p \in PCs, NEW st \in Statuses
    PROVE  [q EXCEPT !.pc = p, !.status = st] \in Requests
  BY ZenonT(30) DEF Requests

\* A fresh request of any user, device and path is well typed and sound.
LEMMA NewRequestSound ==
    ASSUME NEW u \in Users, NEW d \in Devices, NEW p \in Paths
    PROVE  /\ NewRequest(u, d, p) \in Requests
           /\ \A g, s : \A n \in Int : StartTime <= n => SoundRequest(NewRequest(u, d, p), g, n, s)
  <1>1. NewRequest(u, d, p) \in Requests
    BY ClockAssumption
    DEF NewRequest, Requests, Identities, Unauthenticated, Answers, Unreachable, Times,
        PCs, Postures, ReasonTexts, Statuses
  <1>2. ASSUME NEW g, NEW s, NEW n \in Int, StartTime <= n
        PROVE  SoundRequest(NewRequest(u, d, p), g, n, s)
    BY <1>2 DEF SoundRequest, NewRequest, Unauthenticated, Unreachable
  <1> QED
    BY <1>1, <1>2

\* The worker that waits for a request.
LEMMA IdleRequestSound ==
    /\ IdleRequest \in Requests
    /\ \A g, s : \A n \in Int : StartTime <= n => SoundRequest(IdleRequest, g, n, s)
  <1>1. IdleRequests # {}
    BY BridgeAssumption DEF IdleRequests
  <1>2. IdleRequest \in IdleRequests
    BY <1>1 DEF IdleRequest
  <1>3. PICK u \in Users, d \in Devices : IdleRequest = NewRequest(u, d, "/public")
    BY <1>2 DEF IdleRequests
  <1> QED
    BY <1>3, NewRequestSound DEF Paths

\* The clock moves on and verdicts are earned: requests stay sound.
LEMMA SoundMonotone ==
    ASSUME NEW r \in Requests, NEW g, NEW h, NEW n \in Int, NEW m \in Int, NEW s,
           SoundRequest(r, g, n, s), n <= m,
           \A d \in Devices : g[d] \subseteq h[d]
    PROVE  SoundRequest(r, h, m, s)
  <1>1. DeviceEarned(r, g) => DeviceEarned(r, h)
    BY DEF DeviceEarned, Requests
  <1>2. r.start \in Int
    BY ClockAssumption DEF Requests, Times
  <1>3. \A t \in Times : t <= n => t <= m
    BY ClockAssumption DEF Times
  <1>4. GrewTooOld(r, n) => GrewTooOld(r, m)
    BY PolicyAssumption DEF GrewTooOld, Requests, Identities
  <1> QED
    BY <1>1, <1>2, <1>3, <1>4 DEF SoundRequest

\* The input document is one the policy is written for.
LEMMA InputType ==
    ASSUME NEW r \in Requests
    PROVE  opa_input(r) \in Inputs
  <1>1. r.identity \in Identities /\ X_Original_URI(r.location) \in Paths /\ r.posture \in {"healthy", "unhealthy"}
    BY DEF Requests, Postures, X_Original_URI, Paths
  <1>2. data_classification(X_Original_URI(r.location)) \in Classes
    BY DEF data_classification, Classes
  <1>3. (IF r.identity.is_admin THEN "admin" ELSE "user") \in Roles
    BY DEF Roles
  <1> QED
    BY <1>1, <1>2, <1>3 DEF opa_input, Inputs, Identities

\* What OPA allows now, on the input a sound request puts together, was
\* justified when the request began.
LEMMA AllowJustified ==
    ASSUME NEW r \in Requests, NEW g, NEW n \in Times, NEW s,
           SoundRequest(r, g, n, s), allow(opa_input(r), n)
    PROVE  /\ SessionJustifies(r)
           /\ DeviceEarned(r, g)
           /\ r.identity.authenticated
           /\ r.identity.mfa_verified
  <1> DEFINE in == opa_input(r)
  <1>1. in \in Inputs /\ n \in Int /\ r.start \in Int /\ r.start <= n
    BY InputType, ClockAssumption DEF SoundRequest, Requests, Times
  <1>2. Permitted(in, r.start)
    BY <1>1, AllowAntitone, AllowIsPermitted
  <1>3. /\ in.mfa_verified = r.identity.mfa_verified /\ in.auth_time = r.identity.auth_time
        /\ in.is_admin = r.identity.is_admin /\ in.posture = r.posture
    BY DEF opa_input
  <1>4. PICK x \in r.held : x.active /\ r.identity = ClaimsOf(x)
    BY <1>2, <1>3 DEF SoundRequest, Permitted, base_ok
  <1>5. /\ r.identity.mfa_verified = x.mfa /\ r.identity.auth_time = x.auth_time
        /\ r.identity.is_admin = x.admin
    BY <1>4 DEF ClaimsOf
  <1>6. x.auth_time \in Nat
    BY <1>4 DEF Requests, Sessions
  <1>7. x.mfa
    BY <1>2, <1>3, <1>5 DEF Permitted, base_ok
  <1>8. x.auth_time > 0 => r.start - x.auth_time <= VeryStaleAge
    BY <1>1, <1>2, <1>3, <1>5, <1>6, PolicyAssumption
    DEF Permitted, very_stale_session, valid_auth_time, seconds_since_auth
  <1>9. SessionJustifies(r)
    BY <1>4, <1>7, <1>8 DEF SessionJustifies
  <1>10. r.posture = "healthy" /\ r.identity.authenticated /\ r.identity.mfa_verified
    BY <1>2, <1>3 DEF Permitted, base_ok, opa_input
  <1> QED
    BY <1>9, <1>10 DEF SoundRequest

\* Whatever location the client asks for, the policy is that of a path without
\* a rule of its own: session, second factor, device and the 24 hours decide,
\* and the one reason that holds is given.  Neither the admin group nor a
\* recent login is ever asked for, because nginx tells the bridge of no
\* location but its own: the general form of what violates
\* SensitiveNeedsReauth.
THEOREM GeneralRuleDecides ==
    ASSUME NEW r \in Requests, NEW t \in Int
    PROVE  LET in == opa_input(r) IN
           /\ allow(in, t) <=> base_ok(in) /\ ~very_stale_session(in, t)
           /\ reason(in, t) =
                IF ~in.authenticated THEN "not_authenticated"
                ELSE IF ~in.mfa_verified THEN "mfa_not_verified"
                ELSE IF in.posture # "healthy" THEN "posture_unhealthy"
                ELSE IF very_stale_session(in, t) THEN "session_too_old"
                ELSE "allowed"
  <1> DEFINE in == opa_input(r)
  <1>1. in \in Inputs
    BY InputType
  <1>2. /\ in.path = "/validate" /\ in.classification = "public"
        /\ in.role \in Roles
    BY DEF opa_input, X_Original_URI, data_classification, Roles
  <1> HIDE DEF in
  <1>3. data_access_ok(in)
    BY <1>2 DEF data_access_ok, classified, clearance_level, required_clearance, Roles, Classes
  <1>4. allow(in, t) <=> base_ok(in) /\ ~very_stale_session(in, t)
    BY <1>1, <1>2, AllowIsPermitted DEF Permitted
  <1>5. reason(in, t) # Conflict
    BY <1>1, <1>2, <1>3, ConflictExactly
  <1>6. reasons(in, t) = {reason(in, t)}
    BY <1>1, <1>5, GivenReason
  <1> DEFINE v == IF ~in.authenticated THEN "not_authenticated"
                  ELSE IF ~in.mfa_verified THEN "mfa_not_verified"
                  ELSE IF in.posture # "healthy" THEN "posture_unhealthy"
                  ELSE IF very_stale_session(in, t) THEN "session_too_old"
                  ELSE "allowed"
  <1>7. v \in reasons(in, t)
    BY <1>4 DEF reasons, reason_rules, base_ok
  <1>8. reason(in, t) = v
    BY <1>6, <1>7
  <1> QED
    BY <1>4, <1>8 DEF in

\* A device that get_posture finds healthy passed its checks recently, as of
\* any earlier moment.
LEMMA HealthyEarned ==
    ASSUME TypeOK, \A d \in Devices : view[d] \in View!Earned(d),
           NEW r \in Requests, r.start <= now, View!Healthy(r.device)
    PROVE  DeviceEarned(r, genuine)
  <1>1. r.device \in Devices /\ r.start \in Times /\ now \in Times
        /\ genuine[r.device] \subseteq Times
    BY DEF Requests, TypeOK, View!TypeOK, View!Times, Times
  <1>2. PICK t \in genuine[r.device] : view[r.device] = t + Skew[r.device]
    BY <1>1 DEF View!Healthy, View!Earned, View!Stamp
  <1>3. now - (t + Skew[r.device]) <= MaxPostureAge
    BY <1>2 DEF View!Healthy
  <1>4. r.start - t <= MaxPostureAge + Skew[r.device]
    BY <1>1, <1>2, <1>3, ClockAssumption DEF Times
  <1> QED
    BY <1>4 DEF DeviceEarned

-----------------------------------------------------------------------------

\* No request, no session and no verdict: the invariant holds at the start.
LEMMA InitIInv == Init => IInv
  <1> SUFFICES ASSUME Init PROVE IInv
    OBVIOUS
  <1>1. View!TypeOK
    BY ClockAssumption DEF Init, View!Init, View!TypeOK, View!Times
  <1>2. TypeOK
    BY <1>1, IdleRequestSound, BridgeAssumption DEF Init, TypeOK, NoSession, Sessions
  <1>3. \A d \in Devices : view[d] \in View!Earned(d)
    BY DEF Init, View!Init, View!Earned
  <1>4. \A w \in Workers : SoundRequest(req[w], genuine, now, session)
    BY IdleRequestSound, ClockAssumption DEF Init, View!Init
  <1> QED
    BY <1>2, <1>3, <1>4 DEF IInv

\* Steps of the store, the clock and the devices keep requests sound.
LEMMA StoreIInv ==
    ASSUME IInv, Store
    PROVE  IInv'
  <1>0. TypeOK /\ View!TypeOK /\ \A w \in Workers :
            req[w] \in Requests /\ SoundRequest(req[w], genuine, now, session)
    BY DEF IInv, TypeOK
  <1>1. View!Next /\ UNCHANGED <<session, logins, req>>
    BY DEF Store
  <1>2. /\ View!TypeOK'
        /\ now <= now'
        /\ \A d \in Devices : genuine[d] \subseteq genuine'[d]
        /\ \A d \in Devices : view'[d] \in View!Earned(d)'
    <2>1. CASE View!Tick
      <3>1. now' \in Times /\ now <= now' /\ UNCHANGED <<genuine, view>>
        BY <1>0, <2>1, ClockAssumption DEF View!Tick, View!TypeOK, View!Times, Times
      <3>2. \A d \in Devices : View!Earned(d)' = View!Earned(d)
        BY <3>1 DEF View!Earned
      <3> QED
        BY <1>0, <3>1, <3>2 DEF View!TypeOK, View!Times, Times, IInv
    <2>2. ASSUME NEW d \in Devices, View!Attest(d)
          PROVE  /\ View!TypeOK' /\ now <= now'
                 /\ \A e \in Devices : genuine[e] \subseteq genuine'[e]
                 /\ \A e \in Devices : view'[e] \in View!Earned(e)'
      <3>1. genuine' = [genuine EXCEPT ![d] = @ \cup {now}] /\ UNCHANGED <<now, view>>
        BY <2>2 DEF View!Attest
      <3>2. genuine' \in [Devices -> SUBSET View!Times] /\ now \in Int
        BY <1>0, <3>1, ClockAssumption DEF View!TypeOK, View!Times
      <3>3. \A e \in Devices : genuine[e] \subseteq genuine'[e]
        BY <1>0, <3>1 DEF View!TypeOK
      <3>4. \A e \in Devices : View!Earned(e) \subseteq View!Earned(e)'
        BY <3>3 DEF View!Earned
      <3> QED
        BY <1>0, <3>1, <3>2, <3>3, <3>4 DEF View!TypeOK, IInv
    <2>3. CASE View!Publish
      <3>1. UNCHANGED <<now, genuine>> /\ \A d \in Devices : view'[d] \in View!Earned(d)
        BY <2>3 DEF View!Publish
      <3>2. \A d \in Devices : View!Earned(d)' = View!Earned(d)
        BY <3>1 DEF View!Earned
      <3>3. now \in Int
        BY <1>0, ClockAssumption DEF View!TypeOK, View!Times
      <3>4. \A d \in Devices : View!Earned(d) \subseteq Int
        <4> SUFFICES ASSUME NEW d \in Devices, NEW x \in View!Earned(d) PROVE x \in Int
          OBVIOUS
        <4>1. genuine[d] \subseteq Int /\ Skew[d] \in Int
          BY <1>0, ClockAssumption DEF View!TypeOK, View!Times
        <4>2. x = 0 \/ \E t \in genuine[d] : x = t + Skew[d]
          BY DEF View!Earned, View!Stamp
        <4> QED
          BY <4>1, <4>2
      <3>5. view' \in [Devices -> Int]
        <4>1. view' = [d \in Devices |-> view'[d]]
          BY <2>3 DEF View!Publish
        <4> QED
          BY <3>1, <3>4, <4>1
      <3> QED
        BY <1>0, <3>1, <3>2, <3>3, <3>5 DEF View!TypeOK
    <2> QED
      BY <1>1, <2>1, <2>2, <2>3 DEF View!Next
  <1>3. now \in Int /\ now' \in Int
    BY <1>0, <1>2, ClockAssumption DEF View!TypeOK, View!Times
  <1>4. \A w \in Workers : SoundRequest(req[w], genuine', now', session)
    BY <1>0, <1>2, <1>3, SoundMonotone
  <1>5. TypeOK'
    BY <1>0, <1>1, <1>2 DEF TypeOK
  <1> QED
    BY <1>1, <1>2, <1>4, <1>5 DEF IInv

\* Logins and logouts keep requests sound: one that has yet to ask for the
\* session of its user takes note of the new one.
LEMMA SessionIInv ==
    ASSUME IInv, NEW u \in Users, NEW x \in Sessions, SessionChanges(u, x),
           logins' \in 0 .. MaxLogins
    PROVE  IInv'
  <1>0. TypeOK /\ \A w \in Workers :
            req[w] \in Requests /\ SoundRequest(req[w], genuine, now, session)
    BY DEF IInv, TypeOK
  <1>1. session' = [session EXCEPT ![u] = x] /\ UNCHANGED <<now, genuine, view>>
    BY DEF SessionChanges
  <1>2. ASSUME NEW w \in Workers
        PROVE  req'[w] \in Requests /\ SoundRequest(req'[w], genuine, now, session')
    <2> DEFINE r == [req[w] EXCEPT !.held = @ \cup {x}]
    <2>1. CASE req[w].user = u /\ req[w].pc = "identity"
      <3>1. req'[w] = r
        BY <2>1 DEF SessionChanges
      <3>2. r \in Requests /\ r.held = req[w].held \cup {x}
        BY <1>0 DEF Requests
      <3>3. /\ r.start = req[w].start /\ r.pc = req[w].pc /\ r.user = req[w].user
            /\ r.identity = req[w].identity /\ r.posture = req[w].posture
            /\ r.opa_allow = req[w].opa_allow /\ r.allowed = req[w].allowed
            /\ r.status = req[w].status /\ r.opa_resp = req[w].opa_resp
            /\ r.reason = req[w].reason /\ r.device = req[w].device
            /\ r.location = req[w].location
        BY <1>0 DEF Requests
      <3> HIDE DEF r
      <3>4. session'[r.user] \in r.held
        BY <1>0, <1>1, <2>1, <3>2, <3>3 DEF TypeOK
      <3>5. SessionJustifies(req[w]) => SessionJustifies(r)
        BY <3>2, <3>3 DEF SessionJustifies
      <3>6. DeviceEarned(req[w], genuine) => DeviceEarned(r, genuine)
        BY <3>3 DEF DeviceEarned
      <3>7. SoundRequest(r, genuine, now, session')
        BY <1>0, <2>1, <3>2, <3>3, <3>4, <3>5, <3>6 DEF SoundRequest
      <3> QED
        BY <3>1, <3>2, <3>7
    <2>2. CASE ~(req[w].user = u /\ req[w].pc = "identity")
      <3>1. req'[w] = req[w]
        BY <2>2 DEF SessionChanges
      <3>2. req[w].pc = "identity" => session'[req[w].user] = session[req[w].user]
        BY <1>0, <1>1, <2>2 DEF TypeOK, Requests
      <3>3. SoundRequest(req[w], genuine, now, session')
        BY <1>0, <3>2 DEF SoundRequest
      <3> QED
        BY <1>0, <3>1, <3>3
    <2> QED
      BY <2>1, <2>2
  <1>3. TypeOK'
    <2>1. req' \in [Workers -> Requests]
      <3>1. req' = [w \in Workers |-> req'[w]]
        BY DEF SessionChanges
      <3> QED
        BY <1>2, <3>1
    <2>2. session' \in [Users -> Sessions]
      BY <1>0, <1>1 DEF TypeOK
    <2>3. View!TypeOK'
      BY <1>0, <1>1 DEF TypeOK, View!TypeOK
    <2> QED
      BY <2>1, <2>2, <2>3 DEF TypeOK
  <1>4. \A d \in Devices : view'[d] \in View!Earned(d)'
    BY <1>1 DEF IInv, View!Earned
  <1> QED
    BY <1>1, <1>2, <1>3, <1>4 DEF IInv

\* A step of one worker that leaves the rest of the system alone.
LEMMA WorkerIInv ==
    ASSUME IInv, NEW w \in Workers, NEW r \in Requests,
           SoundRequest(r, genuine, now, session),
           req' = [req EXCEPT ![w] = r],
           UNCHANGED <<now, genuine, view, session, logins>>
    PROVE  IInv'
  <1>1. TypeOK /\ \A v \in Workers :
            req[v] \in Requests /\ SoundRequest(req[v], genuine, now, session)
    BY DEF IInv, TypeOK
  <1>2. req' \in [Workers -> Requests]
        /\ \A v \in Workers : SoundRequest(req'[v], genuine, now, session)
    BY <1>1 DEF TypeOK
  <1>3. TypeOK'
    BY <1>1, <1>2 DEF TypeOK, View!TypeOK
  <1>4. \A d \in Devices : view'[d] \in View!Earned(d)'
    BY DEF IInv, View!Earned
  <1> QED
    BY <1>2, <1>3, <1>4 DEF IInv

-----------------------------------------------------------------------------

\* Every step of the workers, of the users and of the posture store keeps the
\* invariant.
LEMMA NextIInv == IInv /\ [Next]_vars => IInv'
  <1> SUFFICES ASSUME IInv, [Next]_vars PROVE IInv'
    OBVIOUS
  <1>0. TypeOK /\ now \in Times /\ now \in Int /\ StartTime <= now
        /\ \A w \in Workers :
            req[w] \in Requests /\ SoundRequest(req[w], genuine, now, session)
    BY ClockAssumption DEF IInv, TypeOK, View!TypeOK, View!Times, Times
  <1>1. CASE Store
    BY <1>1, StoreIInv
  <1>2. ASSUME NEW u \in Users, Login(u) PROVE IInv'
    <2>1. PICK mfa \in BOOLEAN, admin \in BOOLEAN, at \in {0, now} :
            SessionChanges(u, [active |-> TRUE, mfa |-> mfa, auth_time |-> at, admin |-> admin])
      BY <1>2 DEF Login
    <2>2. [active |-> TRUE, mfa |-> mfa, auth_time |-> at, admin |-> admin] \in Sessions
      BY <1>0, ClockAssumption DEF Sessions, Times
    <2>3. logins' \in 0 .. MaxLogins
      BY <1>0, <1>2, BridgeAssumption DEF Login, TypeOK
    <2> QED
      BY <2>1, <2>2, <2>3, SessionIInv
  <1>3. ASSUME NEW u \in Users, Logout(u) PROVE IInv'
    <2>1. SessionChanges(u, NoSession) /\ logins' \in 0 .. MaxLogins
      BY <1>0, <1>3 DEF Logout, TypeOK
    <2>2. NoSession \in Sessions
      BY DEF NoSession, Sessions
    <2> QED
      BY <2>1, <2>2, SessionIInv
  <1>4. ASSUME NEW w \in Workers, Arrive(w) PROVE IInv'
    <2>1. PICK u \in Users, d \in Devices, p \in Locations :
            req' = [req EXCEPT ![w] = [NewRequest(u, d, p) EXCEPT
                      !.pc = "identity", !.start = now, !.held = {session[u]}]]
      BY <1>4 DEF Arrive
    <2> DEFINE r == [NewRequest(u, d, p) EXCEPT
                      !.pc = "identity", !.start = now, !.held = {session[u]}]
    <2>2. p \in Paths /\ session[u] \in Sessions
      BY <1>0, BridgeAssumption DEF TypeOK
    <2>3. r \in Requests
      <3>1. NewRequest(u, d, p) \in Requests /\ {session[u]} \in SUBSET Sessions
        BY <2>2, NewRequestSound
      <3> QED
        BY <1>0, <3>1, FieldTypes, ZenonT(30) DEF Requests
    <2>4. SoundRequest(r, genuine, now, session)
      BY <1>0 DEF SoundRequest, NewRequest, Unauthenticated, Unreachable
    <2> HIDE DEF r
    <2> QED
      BY <1>4, <2>1, <2>3, <2>4, WorkerIInv DEF Arrive, r
  <1>5. ASSUME NEW w \in Workers, Identity(w) PROVE IInv'
    <2>1. PICK id \in check_identity(req[w].user) :
            req' = [req EXCEPT ![w].pc = "posture", ![w].identity = id]
      BY <1>5 DEF Identity
    <2> DEFINE s == session[req[w].user]
               q == req[w]
               r == [q EXCEPT !.pc = "posture", !.identity = id]
    <2>2. s \in Sessions
      BY <1>0 DEF TypeOK, Requests
    <2>3. id \in Identities
          /\ (id.mfa_verified => s.active /\ id = ClaimsOf(s))
      <3>1. id \in {Unauthenticated, NoClaims} \/ (s.active /\ id = ClaimsOf(s))
        BY DEF check_identity
      <3>2. Unauthenticated \in Identities /\ ~Unauthenticated.mfa_verified
        BY DEF Unauthenticated, Identities
      <3>3. NoClaims \in Identities /\ ~NoClaims.mfa_verified
        BY DEF NoClaims, Unauthenticated, Identities
      <3>4. ClaimsOf(s) \in Identities
        BY <2>2 DEF ClaimsOf, Identities, Sessions
      <3> QED
        BY <3>1, <3>2, <3>3, <3>4
    <2>4. s \in req[w].held
      BY <1>0, <1>5 DEF Identity, SoundRequest
    <2>5. r \in Requests
      <3>1. q \in Requests /\ "posture" \in PCs
        BY <1>0, FieldTypes
      <3> HIDE DEF q
      <3> QED
        BY <2>3, <3>1, ZenonT(30) DEF Requests
    <2>6. /\ r.pc = "posture" /\ r.identity = id /\ r.held = req[w].held
          /\ r.start = req[w].start /\ r.posture = req[w].posture
          /\ r.opa_allow = req[w].opa_allow /\ r.allowed = req[w].allowed
          /\ r.status = req[w].status /\ r.opa_resp = req[w].opa_resp
          /\ r.reason = req[w].reason /\ r.device = req[w].device /\ r.location = req[w].location
      BY <1>0 DEF Requests
    <2>7. req' = [req EXCEPT ![w] = r]
      BY <1>0, <2>1 DEF TypeOK
    <2> HIDE DEF r
    <2>8. SoundRequest(r, genuine, now, session)
      BY <1>0, <1>5, <2>3, <2>4, <2>6
      DEF SoundRequest, SessionJustifies, DeviceEarned, Identity
    <2> QED
      BY <1>5, <2>5, <2>7, <2>8, WorkerIInv DEF Identity
  <1>6. ASSUME NEW w \in Workers, Posture(w) PROVE IInv'
    <2> DEFINE ps == IF View!Healthy(req[w].device) THEN "healthy" ELSE "unhealthy"
               q == req[w]
               r == [q EXCEPT !.pc = "allow", !.posture = ps]
    <2>1. req' = [req EXCEPT ![w] = r]
      BY <1>0, <1>6 DEF Posture, TypeOK
    <2>2. r \in Requests
      <3>1. ps \in Postures
        BY FieldTypes
      <3>2. q \in Requests /\ "allow" \in PCs
        BY <1>0, FieldTypes
      <3> HIDE DEF ps, q
      <3> QED
        BY <3>1, <3>2, ZenonT(30) DEF Requests
    <2>3. /\ r.pc = "allow" /\ r.posture = ps /\ r.held = req[w].held
          /\ r.start = req[w].start /\ r.identity = req[w].identity
          /\ r.opa_allow = req[w].opa_allow /\ r.allowed = req[w].allowed
          /\ r.status = req[w].status /\ r.opa_resp = req[w].opa_resp
          /\ r.reason = req[w].reason /\ r.device = req[w].device /\ r.location = req[w].location
      BY <1>0 DEF Requests
    <2>4. ps = "healthy" => DeviceEarned(req[w], genuine)
      BY <1>0, HealthyEarned DEF SoundRequest, IInv
    <2> HIDE DEF r, ps
    <2>5. SoundRequest(r, genuine, now, session)
      BY <1>0, <1>6, <2>3, <2>4, UnnamedReason
      DEF SoundRequest, SessionJustifies, DeviceEarned, Posture
    <2> QED
      BY <1>6, <2>1, <2>2, <2>5, WorkerIInv DEF Posture
  <1>u. ASSUME NEW w \in Workers, Unanswered(w), req[w].pc \in {"allow", "reason"},
               UNCHANGED <<now, genuine, view, session, logins>>
        PROVE  IInv'
    <2> DEFINE q == req[w]
               r == [q EXCEPT !.pc = "decide", !.opa_resp = "none", !.opa_allow = FALSE]
    <2>1. req' = [req EXCEPT ![w] = r]
      BY <1>0, <1>u DEF Unanswered, TypeOK
    <2>2. r \in Requests
      <3>1. q \in Requests /\ "decide" \in PCs /\ "none" \in Answers
        BY <1>0, FieldTypes
      <3> HIDE DEF q
      <3> QED
        BY <3>1, ZenonT(30) DEF Requests
    <2>3. /\ r.pc = "decide" /\ r.opa_resp = "none" /\ r.opa_allow = FALSE
          /\ r.posture = q.posture /\ r.held = q.held /\ r.start = q.start
          /\ r.identity = q.identity /\ r.allowed = q.allowed /\ r.status = q.status
          /\ r.reason = q.reason /\ r.device = q.device
      BY <1>0 DEF Requests
    <2> HIDE DEF r
    <2>4. r.reason = Unreachable
      BY <1>0, <1>u, <2>3 DEF SoundRequest
    <2>5. SoundRequest(r, genuine, now, session)
      BY <1>0, <2>3, <2>4, UnnamedReason DEF SoundRequest, SessionJustifies, DeviceEarned
    <2> QED
      BY <1>u, <2>1, <2>2, <2>5, WorkerIInv
  <1>7. ASSUME NEW w \in Workers, AskAllow(w) PROVE IInv'
    <2>1. CASE Unanswered(w)
      BY <1>u, <1>7, <2>1 DEF AskAllow
    <2>2. ASSUME NEW resp \in Bodies({"result"}),
                 req' = [req EXCEPT ![w].pc = "reason", ![w].opa_resp = resp,
                   ![w].opa_allow = resp = "result" /\ allow(opa_input(req[w]), now)]
          PROVE  IInv'
      <3> DEFINE a == resp = "result" /\ allow(opa_input(req[w]), now)
                 q == req[w]
                 r == [q EXCEPT !.pc = "reason", !.opa_resp = resp, !.opa_allow = a]
      <3>1. a \in BOOLEAN /\ resp \in Answers
        BY DEF Bodies, Answers
      <3>2. r \in Requests
        <4>1. q \in Requests /\ "reason" \in PCs
          BY <1>0, FieldTypes
        <4> HIDE DEF a, q
        <4> QED
          BY <3>1, <4>1, ZenonT(30) DEF Requests
      <3>3. a => /\ SessionJustifies(req[w])
                 /\ DeviceEarned(req[w], genuine)
                 /\ req[w].identity.authenticated
                 /\ req[w].identity.mfa_verified
        BY <1>0, AllowJustified
      <3>4. req' = [req EXCEPT ![w] = r]
        BY <1>0, <2>2 DEF TypeOK
      <3>5. /\ r.pc = "reason" /\ r.opa_resp = resp /\ r.opa_allow = a
            /\ r.posture = req[w].posture /\ r.held = req[w].held
            /\ r.start = req[w].start /\ r.identity = req[w].identity
            /\ r.allowed = req[w].allowed /\ r.status = req[w].status
            /\ r.reason = req[w].reason /\ r.device = req[w].device /\ r.location = req[w].location
        BY <1>0 DEF Requests
      <3>6. opa_input(r) = opa_input(req[w])
        BY <3>5 DEF opa_input
      <3>7. resp = "result" /\ ~a => \E t \in Times : t <= now /\ ~allow(opa_input(r), t)
        BY <1>0, <3>6
      <3>8. r.reason = Unreachable
        BY <1>0, <1>7, <3>5 DEF SoundRequest, AskAllow
      <3>a. a => allow(opa_input(q), q.start)
        <4>1. opa_input(q) \in Inputs /\ q.start \in Int /\ q.start <= now
          BY <1>0, InputType, ClockAssumption DEF Requests, Times, SoundRequest
        <4> QED
          BY <1>0, <4>1, AllowAntitone
      <3>b. a => allow(opa_input(r), r.start)
        BY <3>5, <3>6, <3>a
      <3> HIDE DEF r, a
      <3>9. SoundRequest(r, genuine, now, session)
        BY <1>0, <3>3, <3>5, <3>7, <3>8, <3>b, UnnamedReason
        DEF SoundRequest, SessionJustifies, DeviceEarned
      <3> QED
        BY <1>7, <3>2, <3>4, <3>9, WorkerIInv DEF AskAllow
    <2> QED
      BY <1>7, <2>1, <2>2 DEF AskAllow
  <1>8. ASSUME NEW w \in Workers, AskReason(w) PROVE IInv'
    <2> DEFINE value == reason(opa_input(req[w]), now)
    <2>1. CASE Unanswered(w)
      BY <1>u, <1>8, <2>1 DEF AskReason
    <2>2. ASSUME NEW resp, req' = [req EXCEPT ![w] = Parse(req[w], resp, value)]
          PROVE  IInv'
      <3> DEFINE r == Parse(req[w], resp, value)
      <3>1. value \in ReasonValues
        BY ReasonType
      <3>2. r \in Requests
        <4> DEFINE q == req[w]
                   text == IF resp = "result" THEN value ELSE Unknown
        <4>1. q \in Requests /\ q.opa_allow \in BOOLEAN /\ text \in ReasonTexts
          BY <1>0, <3>1, FieldTypes DEF Requests
        <4>2. \/ r = [q EXCEPT !.pc = "decide", !.opa_allow = FALSE]
              \/ r = [q EXCEPT !.pc = "decide", !.opa_allow = FALSE, !.allowed = q.opa_allow]
              \/ r = [q EXCEPT !.pc = "decide", !.opa_allow = FALSE, !.allowed = q.opa_allow,
                              !.reason = text]
          BY DEF Parse
        <4> HIDE DEF q, text, r
        <4>3. [q EXCEPT !.pc = "decide", !.opa_allow = FALSE] \in Requests
          BY <4>1, FieldTypes, ZenonT(30) DEF Requests
        <4>4. [q EXCEPT !.pc = "decide", !.opa_allow = FALSE, !.allowed = q.opa_allow]
                \in Requests
          BY <4>1, FieldTypes, ZenonT(30) DEF Requests
        <4>5. [q EXCEPT !.pc = "decide", !.opa_allow = FALSE, !.allowed = q.opa_allow,
                        !.reason = text] \in Requests
          BY <4>1, FieldTypes, ZenonT(30) DEF Requests
        <4> QED
          BY <4>2, <4>3, <4>4, <4>5, Zenon
      <3>3. /\ r.pc = "decide" /\ r.opa_allow = FALSE /\ r.opa_resp = req[w].opa_resp
            /\ r.posture = req[w].posture /\ r.held = req[w].held
            /\ r.start = req[w].start /\ r.identity = req[w].identity
            /\ r.status = req[w].status /\ r.device = req[w].device /\ r.location = req[w].location
            /\ r.allowed \in {req[w].allowed, req[w].opa_allow}
        BY <1>0 DEF Parse, Requests
      <3>4. \/ r.reason = req[w].reason
            \/ r.reason = Unknown
            \/ r.reason = value /\ r.allowed = req[w].opa_allow
        BY <1>0 DEF Parse, Requests
      <3>5. req[w].pc = "reason" /\ req[w].reason = Unreachable
        BY <1>0, <1>8 DEF AskReason, SoundRequest
      <3>6. value = "allowed" /\ req[w].opa_resp = "result" => req[w].opa_allow
        <4> SUFFICES ASSUME value = "allowed", req[w].opa_resp = "result", ~req[w].opa_allow
                     PROVE  FALSE
          BY <1>0 DEF Requests
        <4>1. PICK t \in Times : t <= now /\ ~allow(opa_input(req[w]), t)
          BY <1>0, <3>5 DEF SoundRequest
        <4>2. t \in Int /\ opa_input(req[w]) \in Inputs
          BY <1>0, InputType, ClockAssumption DEF Times
        <4>3. allow(opa_input(req[w]), now)
          BY <1>0, <4>2, ReasonAllowed
        <4> QED
          BY <1>0, <4>1, <4>2, <4>3, AllowAntitone
      <3> HIDE DEF r, value
      <3>7. r.opa_resp = "result" /\ r.reason = "allowed" => r.allowed
        BY <3>3, <3>4, <3>5, <3>6 DEF Unreachable, Unknown
      <3>9. ASSUME r.allowed, r.reason \in ReasonValues
            PROVE  \/ r.reason = "allowed"
                   \/ r.reason = "session_too_old" /\ GrewTooOld(r, now)
        <4> DEFINE q == req[w]
                   in == opa_input(q)
        <4>1. r.reason = reason(in, now) /\ q.opa_allow /\ q \in Requests
          BY <1>0, <3>4, <3>5, <3>9, UnnamedReason DEF value
        <4>2. allow(in, q.start) /\ q.start \in Int /\ q.identity.auth_time \in Nat
          BY <1>0, <3>5, <4>1, ClockAssumption DEF SoundRequest, Requests, Times, Identities
        <4> HIDE DEF q
        <4>3. base_ok(in) /\ ~very_stale_session(in, q.start)
          BY <4>1, <4>2, GeneralRuleDecides
        <4>4. \/ r.reason = "allowed"
              \/ r.reason = "session_too_old" /\ very_stale_session(in, now)
          BY <1>0, <4>1, <4>3, GeneralRuleDecides DEF base_ok
        <4>5. in.auth_time = q.identity.auth_time
          BY DEF opa_input
        <4>6. r.start = q.start /\ r.identity = q.identity
          BY <3>3 DEF q
        <4> QED
          BY <1>0, <4>2, <4>3, <4>4, <4>5, <4>6, PolicyAssumption
          DEF very_stale_session, valid_auth_time, seconds_since_auth, GrewTooOld
      <3>8. SoundRequest(r, genuine, now, session)
        BY <1>0, <3>3, <3>7, <3>9 DEF SoundRequest, SessionJustifies, DeviceEarned
      <3> QED
        BY <1>8, <2>2, <3>2, <3>8, WorkerIInv DEF AskReason, r
    <2> QED
      BY <1>8, <2>1, <2>2 DEF AskReason
  \* A request that is answered keeps all but its status.
  <1>d. ASSUME NEW w \in Workers, NEW r,
               r.pc = "done", r.status = 200 => req[w].allowed,
               r.opa_resp = req[w].opa_resp, r.opa_allow = req[w].opa_allow,
               r.posture = req[w].posture, r.held = req[w].held, r.start = req[w].start,
               r.identity = req[w].identity, r.allowed = req[w].allowed,
               r.reason = req[w].reason, r.device = req[w].device
        PROVE  SoundRequest(r, genuine, now, session)
    <2>1. GrewTooOld(r, now) <=> GrewTooOld(req[w], now)
      BY <1>d DEF GrewTooOld
    <2>2. /\ SessionJustifies(r) <=> SessionJustifies(req[w])
          /\ DeviceEarned(r, genuine) <=> DeviceEarned(req[w], genuine)
      BY <1>d DEF SessionJustifies, DeviceEarned
    <2> QED
      BY <1>0, <1>d, <2>1, <2>2 DEF SoundRequest
  <1>9. ASSUME NEW w \in Workers, Decide(w) PROVE IInv'
    <2> DEFINE st == IF req[w].allowed THEN 200
                     ELSE IF ~req[w].identity.authenticated THEN 401 ELSE 403
               r == [req[w] EXCEPT !.pc = "done", !.status = st]
    <2>1. req' = [req EXCEPT ![w] = r]
      BY <1>0, <1>9 DEF Decide, TypeOK
    <2>2. r \in Requests
      <3>1. st \in Statuses /\ "done" \in PCs
        BY FieldTypes DEF Statuses
      <3> HIDE DEF st
      <3> QED
        BY <1>0, <3>1, ResponseType
    <2>f. /\ r.pc = "done" /\ r.status = st
          /\ r.opa_resp = req[w].opa_resp /\ r.opa_allow = req[w].opa_allow
          /\ r.posture = req[w].posture /\ r.held = req[w].held /\ r.start = req[w].start
          /\ r.identity = req[w].identity /\ r.allowed = req[w].allowed
          /\ r.reason = req[w].reason /\ r.device = req[w].device
      BY <1>0 DEF Requests
    <2>g. st = 200 => req[w].allowed
      OBVIOUS
    <2> HIDE DEF r, st
    <2>3. SoundRequest(r, genuine, now, session)
      BY <1>d, <2>f, <2>g
    <2> QED
      BY <1>9, <2>1, <2>2, <2>3, WorkerIInv DEF Decide
  <1>10. ASSUME NEW w \in Workers, WorkerKilled(w) PROVE IInv'
    <2> DEFINE q == req[w]
               r == [q EXCEPT !.pc = "done", !.status = 500]
    <2>1. req' = [req EXCEPT ![w] = r]
      BY <1>0, <1>10 DEF WorkerKilled, TypeOK
    <2>2. r \in Requests
      <3>1. q \in Requests /\ "done" \in PCs /\ 500 \in Statuses
        BY <1>0, FieldTypes
      <3> HIDE DEF q
      <3> QED
        BY <3>1, ResponseType
    <2>f. /\ r.pc = "done" /\ r.status = 500
          /\ r.opa_resp = req[w].opa_resp /\ r.opa_allow = req[w].opa_allow
          /\ r.posture = req[w].posture /\ r.held = req[w].held /\ r.start = req[w].start
          /\ r.identity = req[w].identity /\ r.allowed = req[w].allowed
          /\ r.reason = req[w].reason /\ r.device = req[w].device
      BY <1>0 DEF Requests
    <2> HIDE DEF r
    <2>3. SoundRequest(r, genuine, now, session)
      BY <1>d, <2>f
    <2> QED
      BY <1>10, <2>1, <2>2, <2>3, WorkerIInv DEF WorkerKilled
  <1>11. ASSUME NEW w \in Workers, Finish(w) PROVE IInv'
    BY <1>0, <1>11, IdleRequestSound, WorkerIInv DEF Finish
  <1>12. CASE UNCHANGED vars
    <2>1. TypeOK'
      BY <1>0, <1>12 DEF vars, TypeOK, View!TypeOK
    <2>2. \A d \in Devices : view'[d] \in View!Earned(d)'
      BY <1>12 DEF vars, IInv, View!Earned
    <2> QED
      BY <1>0, <1>12, <2>1, <2>2 DEF vars, IInv
  <1> QED
    BY <1>1, <1>2, <1>3, <1>4, <1>5, <1>6, <1>7, <1>8, <1>9, <1>10, <1>11, <1>12
    DEF Next, Handle

-----------------------------------------------------------------------------

\* IInv holds in every reachable state.
THEOREM Invariance == Spec => []IInv
  BY InitIInv, NextIInv, PTL DEF Spec

\* Every reachable state of the bridge is well typed.
THEOREM TypeCorrect == Spec => []TypeOK
  <1>1. IInv => TypeOK
    BY DEF IInv
  <1> QED
    BY <1>1, Invariance, PTL

\* Nothing reaches the application unless the session and the device justified
\* it as of the beginning of the request.
THEOREM GrantsAreJustified == Spec => []GrantJustified
  <1>1. IInv => GrantJustified
    <2> SUFFICES ASSUME IInv, NEW w \in Workers, Granted(w)
                 PROVE  SessionJustifies(req[w]) /\ DeviceJustifies(req[w])
      BY DEF GrantJustified
    <2>1. req[w].status = 200
      BY DEF Granted, nginx
    <2>2. SoundRequest(req[w], genuine, now, session)
      BY DEF IInv
    <2> QED
      BY <2>1, <2>2 DEF SoundRequest, DeviceEarned, DeviceJustifies
  <1> QED
    BY <1>1, Invariance, PTL

\* The reason given agrees with the decision when OPA answers both queries,
\* unless the session grew too old between the two.
THEOREM ReasonsMatchDecisions == Spec => []ReasonMatchesDecision
  <1>1. IInv => ReasonMatchesDecision
    <2> SUFFICES ASSUME IInv, NEW w \in Workers, req[w].opa_resp = "result",
                        req[w].reason \in ReasonValues
                 PROVE  \/ req[w].allowed <=> req[w].reason = "allowed"
                        \/ /\ req[w].allowed /\ req[w].reason = "session_too_old"
                           /\ GrewTooOld(req[w], now)
      BY DEF ReasonMatchesDecision
    <2>1. SoundRequest(req[w], genuine, now, session) /\ req[w].allowed \in BOOLEAN
      BY DEF IInv, TypeOK, Requests
    <2> QED
      BY <2>1 DEF SoundRequest
  <1> QED
    BY <1>1, Invariance, PTL

-----------------------------------------------------------------------------
(* The reasons that clients and the audit log are given.                   *)

\* ReasonIsTrue of one request, at time n.
TrueReason(r, n) ==
    \/ r.reason \in {Unreachable, Unknown}
    \/ /\ r.reason # Conflict
       /\ \E t \in r.start .. n : r.reason = reason(opa_input(r), t)

\* A reason stays true while the clock moves on and the request keeps the
\* input it was decided on.
LEMMA TrueReasonKept ==
    ASSUME NEW q, NEW r, NEW n \in Int, NEW m \in Int, n <= m, q.start \in Int,
           TrueReason(q, n), r.reason = q.reason, r.start = q.start,
           r.identity = q.identity, r.posture = q.posture
    PROVE  TrueReason(r, m)
  <1>1. opa_input(r) = opa_input(q)
    BY DEF opa_input, X_Original_URI
  <1>2. q.start .. n \subseteq r.start .. m
    OBVIOUS
  <1> QED
    BY <1>1, <1>2 DEF TrueReason

\* A worker without a request has no reason to give.
LEMMA IdleRequestUnnamed == IdleRequest.reason = Unreachable
  <1>1. IdleRequests # {}
    BY BridgeAssumption DEF IdleRequests
  <1>2. IdleRequest \in IdleRequests
    BY <1>1 DEF IdleRequest
  <1>3. PICK u \in Users, d \in Devices : IdleRequest = NewRequest(u, d, "/public")
    BY <1>2 DEF IdleRequests
  <1> QED
    BY <1>3 DEF NewRequest

\* Every step of a request gives a true reason, or none, or leaves it alone.
LEMMA NextReason ==
    ASSUME IInv, ReasonIsTrue, [Next]_vars
    PROVE  ReasonIsTrue'
  <1>0. /\ TypeOK /\ now \in Int
        /\ \A w \in Workers : /\ req[w] \in Requests /\ req[w].start \in Int
                              /\ req[w].start <= now
                              /\ req[w].pc \notin {"decide", "done"} => req[w].reason = Unreachable
    BY ClockAssumption DEF IInv, TypeOK, View!TypeOK, View!Times, Times, SoundRequest, Requests
  <1>1. \A w \in Workers : TrueReason(req[w], now)
    BY DEF ReasonIsTrue, TrueReason
  <1> SUFFICES \A w \in Workers : TrueReason(req'[w], now')
    BY DEF ReasonIsTrue, TrueReason, opa_input
  \* Requests that keep their reason and what it was given for.
  <1>k. ASSUME NEW w \in Workers, req'[w] = req[w], now' = now
        PROVE  TrueReason(req'[w], now')
    BY <1>1, <1>k
  \* A step of worker w that gives a true reason, or none.
  <1>w. ASSUME NEW w \in Workers, NEW r, req' = [req EXCEPT ![w] = r], now' = now,
               TrueReason(r, now)
        PROVE  \A v \in Workers : TrueReason(req'[v], now')
    BY <1>0, <1>1, <1>w DEF TypeOK
  <1>u. \A r : r.reason = Unreachable => TrueReason(r, now)
    BY DEF TrueReason
  <1>2. CASE Store
    <2>1. req' = req /\ now' \in Int /\ now <= now'
      BY <1>0, <1>2, ClockAssumption DEF Store, View!Next, View!Tick, View!Attest, View!Publish
    <2> QED
      BY <1>0, <1>1, <2>1, TrueReasonKept
  <1>3. ASSUME NEW u \in Users, Login(u) \/ Logout(u)
        PROVE  \A w \in Workers : TrueReason(req'[w], now')
    <2>1. PICK x : SessionChanges(u, x)
      BY <1>3 DEF Login, Logout
    <2> SUFFICES ASSUME NEW w \in Workers PROVE TrueReason(req'[w], now')
      OBVIOUS
    <2>2. now' = now
      BY <2>1 DEF SessionChanges
    <2>3. CASE req[w].user = u /\ req[w].pc = "identity"
      <3>1. req'[w] = [req[w] EXCEPT !.held = @ \cup {x}]
        BY <2>1, <2>3 DEF SessionChanges
      <3>2. req'[w].reason = Unreachable
        BY <1>0, <2>3, <3>1 DEF Requests
      <3> QED
        BY <1>u, <2>2, <3>2
    <2>4. CASE ~(req[w].user = u /\ req[w].pc = "identity")
      <3>1. req'[w] = req[w]
        BY <2>1, <2>4 DEF SessionChanges
      <3> QED
        BY <1>k, <2>2, <3>1
    <2> QED
      BY <2>3, <2>4
  <1>4. ASSUME NEW w \in Workers, Arrive(w)
        PROVE  \A v \in Workers : TrueReason(req'[v], now')
    <2>1. PICK u \in Users, d \in Devices, p \in Locations :
            req' = [req EXCEPT ![w] = [NewRequest(u, d, p) EXCEPT
                       !.pc = "identity", !.start = now, !.held = {session[u]}]]
      BY <1>4 DEF Arrive
    <2> DEFINE r == [NewRequest(u, d, p) EXCEPT
                       !.pc = "identity", !.start = now, !.held = {session[u]}]
    <2>2. r.reason = Unreachable
      BY DEF NewRequest
    <2> HIDE DEF r
    <2> QED
      BY <1>4, <1>u, <1>w, <2>1, <2>2 DEF Arrive, r
  \* The steps before the reason is known.
  <1>5. ASSUME NEW w \in Workers, NEW r, req' = [req EXCEPT ![w] = r], now' = now,
               req[w].pc \notin {"decide", "done"}, r.reason = req[w].reason
        PROVE  \A v \in Workers : TrueReason(req'[v], now')
    BY <1>0, <1>5, <1>u, <1>w
  <1>6. ASSUME NEW w \in Workers, Identity(w) \/ Posture(w) \/ AskAllow(w)
        PROVE  \A v \in Workers : TrueReason(req'[v], now')
    <2>1. PICK r : req' = [req EXCEPT ![w] = r] /\ r.reason = req[w].reason
      <3>1. CASE Identity(w)
        <4>1. PICK id : req' = [req EXCEPT ![w].pc = "posture", ![w].identity = id]
          BY <3>1 DEF Identity
        <4> DEFINE r == [req[w] EXCEPT !.pc = "posture", !.identity = id]
        <4>2. req' = [req EXCEPT ![w] = r] /\ r.reason = req[w].reason
          BY <1>0, <4>1 DEF TypeOK, Requests
        <4> QED
          BY <4>2
      <3>2. CASE Posture(w)
        <4>1. PICK ps : req' = [req EXCEPT ![w].pc = "allow", ![w].posture = ps]
          BY <3>2 DEF Posture
        <4> DEFINE r == [req[w] EXCEPT !.pc = "allow", !.posture = ps]
        <4>2. req' = [req EXCEPT ![w] = r] /\ r.reason = req[w].reason
          BY <1>0, <4>1 DEF TypeOK, Requests
        <4> QED
          BY <4>2
      <3>3. CASE AskAllow(w)
        <4>1. PICK pc, resp, al : req' = [req EXCEPT ![w].pc = pc, ![w].opa_resp = resp,
                                              ![w].opa_allow = al]
          BY <3>3 DEF AskAllow, Unanswered
        <4> DEFINE r == [req[w] EXCEPT !.pc = pc, !.opa_resp = resp, !.opa_allow = al]
        <4>2. req' = [req EXCEPT ![w] = r] /\ r.reason = req[w].reason
          BY <1>0, <4>1 DEF TypeOK, Requests
        <4> QED
          BY <4>2
      <3> QED
        BY <1>6, <3>1, <3>2, <3>3
    <2>2. now' = now /\ req[w].pc \notin {"decide", "done"}
      BY <1>6 DEF Identity, Posture, AskAllow
    <2> QED
      BY <1>5, <2>1, <2>2
  <1>7. ASSUME NEW w \in Workers, AskReason(w)
        PROVE  \A v \in Workers : TrueReason(req'[v], now')
    <2> DEFINE q == req[w]
               value == reason(opa_input(q), now)
    <2>0. now' = now /\ q.reason = Unreachable /\ q \in Requests /\ q.start <= now
      BY <1>0, <1>7 DEF AskReason
    <2>1. CASE Unanswered(w)
      <3> DEFINE r == [q EXCEPT !.pc = "decide", !.opa_resp = "none", !.opa_allow = FALSE]
      <3>1. req' = [req EXCEPT ![w] = r] /\ r.reason = q.reason
        BY <1>0, <2>1 DEF Unanswered, TypeOK, Requests
      <3> HIDE DEF r
      <3> QED
        BY <1>u, <1>w, <2>0, <3>1
    <2>2. ASSUME NEW resp \in Bodies({IF value = Conflict THEN "no_result" ELSE "result"}),
                 req' = [req EXCEPT ![w] = Parse(q, resp, value)]
          PROVE  \A v \in Workers : TrueReason(req'[v], now')
      <3> DEFINE r == Parse(q, resp, value)
      <3>1. resp = "result" => value # Conflict
        BY <2>2 DEF Bodies
      <3>2. resp # "bad_json" => resp \in {"no_result", "result"}
        BY <2>2 DEF Bodies
      <3>3. /\ r.start = q.start /\ r.identity = q.identity /\ r.posture = q.posture
            /\ r.location = q.location
            /\ r.reason \in {Unreachable, Unknown} \/ (r.reason = value /\ resp = "result")
        BY <2>0 DEF Parse, Requests
      <3> HIDE DEF r
      <3>4. opa_input(r) = opa_input(q)
        BY <3>3 DEF opa_input
      <3>5. now \in r.start .. now
        BY <1>0, <2>0, <3>3
      <3>6. TrueReason(r, now)
        BY <3>1, <3>3, <3>4, <3>5 DEF TrueReason
      <3> QED
        BY <1>w, <2>0, <2>2, <3>6 DEF r
    <2> QED
      BY <1>7, <2>1, <2>2 DEF AskReason
  \* The steps after.
  <1>8. ASSUME NEW w \in Workers, Decide(w) \/ WorkerKilled(w)
        PROVE  \A v \in Workers : TrueReason(req'[v], now')
    <2>1. PICK st : req' = [req EXCEPT ![w].pc = "done", ![w].status = st]
      BY <1>8 DEF Decide, WorkerKilled
    <2> DEFINE r == [req[w] EXCEPT !.pc = "done", !.status = st]
    <2>2. /\ req' = [req EXCEPT ![w] = r] /\ r.reason = req[w].reason
          /\ r.start = req[w].start /\ r.identity = req[w].identity
          /\ r.posture = req[w].posture /\ r.location = req[w].location
      BY <1>0, <2>1 DEF TypeOK, Requests
    <2> HIDE DEF r
    <2>3. TrueReason(r, now)
      BY <1>0, <1>1, <2>2, TrueReasonKept
    <2>4. now' = now
      BY <1>8 DEF Decide, WorkerKilled
    <2> QED
      BY <1>w, <2>2, <2>3, <2>4
  <1>9. ASSUME NEW w \in Workers, Finish(w)
        PROVE  \A v \in Workers : TrueReason(req'[v], now')
    BY <1>9, <1>u, <1>w, IdleRequestUnnamed DEF Finish
  <1>10. CASE UNCHANGED vars
    BY <1>1, <1>10 DEF vars
  <1> QED
    BY <1>2, <1>3, <1>4, <1>6, <1>7, <1>8, <1>9, <1>10 DEF Next, Handle

\* The audit log tells the truth: whatever OPA, the sessions and the clock did
\* between the two queries, a reason that is given was the policy's reason for
\* this very input at a moment since the request began.
THEOREM ReasonsAreTrue == Spec => []ReasonIsTrue
  <1>1. Init => ReasonIsTrue
    BY IdleRequestUnnamed DEF Init, ReasonIsTrue
  <1> QED
    BY <1>1, NextReason, Invariance, PTL DEF Spec

\* Since no location of a client reaches OPA, no client is ever told that it
\* needs a recent login, the admin group or a clearance, and the audit log
\* never says so, whatever was asked for and whatever fails.
THEOREM NoLocationReasons ==
    Spec => [](\A w \in Workers :
                  req[w].reason \notin {"reauth_required", "session_stale", "admin_required",
                                       "peer_admin_required", "insufficient_clearance"})
  <1>1. IInv /\ ReasonIsTrue =>
          \A w \in Workers :
              req[w].reason \notin {"reauth_required", "session_stale", "admin_required",
                                   "peer_admin_required", "insufficient_clearance"}
    <2> SUFFICES ASSUME IInv, ReasonIsTrue, NEW w \in Workers,
                        req[w].reason \notin {Unreachable, Unknown}
                 PROVE  req[w].reason \in {"not_authenticated", "mfa_not_verified",
                            "posture_unhealthy", "session_too_old", "allowed"}
      BY DEF Unreachable, Unknown
    <2>1. req[w] \in Requests /\ req[w].start \in Int
      BY ClockAssumption DEF IInv, TypeOK, Requests, Times
    <2>2. PICK t \in req[w].start .. now : req[w].reason = reason(opa_input(req[w]), t)
      BY DEF ReasonIsTrue
    <2> QED
      BY <2>1, <2>2, GeneralRuleDecides
  <1> QED
    BY <1>1, Invariance, ReasonsAreTrue, PTL

=============================================================================
