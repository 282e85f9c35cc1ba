------------------------------ MODULE EndToEnd ------------------------------
(***************************************************************************)
(* The gateway on the shared file itself.  Gateway is built on PostureView,*)
(* which says what readers may rely on; here its posture store is the file *)
(* of PostureStore, with the agents, the registration script and the       *)
(* crashes that rewrite it between any two steps of a request.             *)
(***************************************************************************)
EXTENDS PostureStoreProofs

CONSTANTS
    Workers, Users, Locations, MaxLogins, EngineFaults,    \* see AuthzBridge
    ReauthWindow, StaleAge, VeryStaleAge,                  \* see Policy
    RISK_THRESHOLD, HalfHour, Hour                         \* see RiskScore

VARIABLES session, logins, req, up                         \* see Gateway

\* The gateway, reading from the file what get_posture finds there.
G == INSTANCE GatewayProofs WITH view <- viewOf

gateway == <<session, logins, req, up>>
system == <<vars, gateway>>

SystemInit == Init /\ G!GatewayInit

\* Whoever writes the file; the gateway does not notice.
FileStep == Next /\ UNCHANGED gateway

\* The users, the bridge, nginx and the application; none writes the file.
GatewayStep ==
    /\ UNCHANGED vars
    /\ \/ /\ \/ \E u \in Users : G!Login(u) \/ G!Logout(u)
             \/ \E w \in Workers : G!Arrive(w) \/ G!Handle(w) \/ G!WorkerKilled(w)
          /\ UNCHANGED up
       \/ \E w \in Workers : G!Forward(w) \/ G!Upstream(w) \/ G!Reply(w)

SystemNext == FileStep \/ GatewayStep

SystemSpec == SystemInit /\ [][SystemNext]_system

\* The limits and the sets of the gateway are as its modules assume.
GatewayConstants == G!PolicyAssumption /\ G!BridgeAssumption /\ G!RiskAssumption

-----------------------------------------------------------------------------

\* What the bridge asks of the view is what get_posture returns for the
\* device's address, whatever the file holds: absent, truncated, garbled,
\* bare, unsigned and old records included.
THEOREM ReaderSeesView ==
    ASSUME IInv, NEW d \in Devices
    PROVE  get_posture(IpOf[d]) = "healthy" <=> G!View!Healthy(d)
  <1> DEFINE rec == file.recs[IpOf[d]]
  <1>1. now \in Times /\ now \in Int /\ now > MaxPostureAge
    BY ClockAssumption DEF IInv, TypeOK, Times
  <1>2. rec \in Records /\ Unstamped(rec) /\ EarnedBy(d, rec, genuine)
    BY StoreAssumption DEF IInv, TypeOK, Files, Sound
  <1>3. viewOf[d] = IF /\ file.kind = "ok"
                       /\ rec.kind = "envelope"
                       /\ verify_posture_sig(rec)
                       /\ rec.posture = "healthy"
                    THEN rec.checked_at ELSE 0
    BY DEF viewOf
  \* An earned stamp is positive, so it is not taken for no verdict.
  <1>4. rec.kind = "envelope" /\ rec.posture = "healthy" => rec.checked_at > 0
    <2> SUFFICES ASSUME rec.kind = "envelope", rec.posture = "healthy"
                 PROVE  rec.checked_at > 0
      OBVIOUS
    <2>1. PICK t \in genuine[d] : rec.checked_at = t + Skew[d]
      BY <1>2 DEF EarnedBy, Stamp
    <2>2. t \in Times
      BY DEF IInv, TypeOK
    <2> QED
      BY <2>1, <2>2, ClockAssumption DEF Times
  \* A record without a stamp is too old on every clock.
  <1>5. rec.kind # "envelope" => ~(now - rec.checked_at <= MaxPostureAge)
    BY <1>1, <1>2, ClockAssumption DEF Unstamped
  <1> HIDE DEF rec
  <1>6. get_posture(IpOf[d]) = "healthy" <=>
          /\ file.kind = "ok" /\ rec.kind # "none" /\ verify_posture_sig(rec)
          /\ now - rec.checked_at <= MaxPostureAge /\ rec.posture = "healthy"
    BY DEF get_posture, rec
  <1>7. G!View!Healthy(d) <=> viewOf[d] # 0 /\ now - viewOf[d] <= MaxPostureAge
    BY DEF G!View!Healthy
  <1>8. rec.checked_at \in Int
    BY <1>2 DEF Records
  <1>9. CASE /\ file.kind = "ok" /\ rec.kind = "envelope" /\ verify_posture_sig(rec)
             /\ rec.posture = "healthy"
    BY <1>3, <1>4, <1>6, <1>7, <1>8, <1>9
  <1>10. CASE ~ /\ file.kind = "ok" /\ rec.kind = "envelope" /\ verify_posture_sig(rec)
                /\ rec.posture = "healthy"
    BY <1>3, <1>5, <1>6, <1>7, <1>10
  <1> QED
    BY <1>9, <1>10

\* The writers of the file do not depend on the gateway.
LEMMA SystemIsStore == SystemSpec => Spec
  <1>1. SystemInit => Init
    BY DEF SystemInit
  <1>2. [SystemNext]_system => [Next]_vars
    BY DEF SystemNext, FileStep, GatewayStep, system
  <1> QED
    BY <1>1, <1>2, PTL DEF SystemSpec, Spec

\* Every step of the system is one of the gateway on PostureView, or one that
\* neither it nor its readers see.
LEMMA SystemStep ==
    ASSUME IInv, IInv', [SystemNext]_system
    PROVE  [G!GatewayNext]_(G!gatewayVars)
  <1>1. CASE FileStep
    <2>1. [View!Next]_(View!vars)
      BY <1>1, ViewStep DEF FileStep
    <2>2. ASSUME View!Next PROVE G!View!Next
      BY <2>2 DEF View!Next, View!Tick, View!Attest, View!Publish, View!Earned, View!Stamp,
                  G!View!Next, G!View!Tick, G!View!Attest, G!View!Publish, G!View!Earned,
                  G!View!Stamp
    <2>3. CASE View!Next
      BY <1>1, <2>2, <2>3 DEF FileStep, gateway, G!GatewayNext, G!BridgeStep, G!Store
    <2>4. CASE UNCHANGED View!vars
      BY <1>1, <2>4 DEF FileStep, gateway, View!vars, G!gatewayVars
    <2> QED
      BY <2>1, <2>3, <2>4
  <1>2. CASE GatewayStep
    BY <1>2 DEF GatewayStep, G!GatewayNext, G!BridgeStep
  <1>3. CASE UNCHANGED system
    BY <1>3 DEF system, gateway, vars, viewOf, verify_posture_sig, G!gatewayVars
  <1> QED
    BY <1>1, <1>2, <1>3 DEF SystemNext

\* The gateway on the shared file is a gateway on PostureView.
THEOREM SystemImplementsGateway == SystemSpec => G!GatewaySpec
  <1>1. SystemInit => G!GatewayInit
    BY DEF SystemInit
  <1> QED
    BY <1>1, SystemStep, SystemIsStore, Invariance, PTL DEF SystemSpec, G!GatewaySpec

\* However the agents, the script and crashes tear and revert the file while
\* validate() runs, a request is let through only on a session its user had and
\* from a device that had passed its checks recently when the request began.
THEOREM SystemGrantsJustified ==
    ASSUME GatewayConstants
    PROVE  SystemSpec => []G!GrantJustified
  BY SystemImplementsGateway, G!GatewayIsBridge, G!GrantsAreJustified,
     ClockAssumption, PTL
  DEF GatewayConstants, G!ClockAssumption

\* The end of the chain: a data object leaves the application only for a user
\* with a session that carries the request and from a device that passed its
\* checks, as of the beginning of the request.
DataServedJustified ==
    \A w \in Workers :
        up[w].objects # {} => G!SessionJustifies(req[w]) /\ G!DeviceJustifies(req[w])

\* No interleaving of the writers of the file, of sessions, of failing calls
\* and upstreams hands a data object to a request that was not entitled to it.
THEOREM SystemDataJustified ==
    ASSUME GatewayConstants
    PROVE  SystemSpec => []DataServedJustified
  <1>1. G!GInv /\ G!GrantJustified => DataServedJustified
    <2> SUFFICES ASSUME G!GInv, G!GrantJustified, NEW w \in Workers, up[w].objects # {}
                 PROVE  G!SessionJustifies(req[w]) /\ G!DeviceJustifies(req[w])
      BY DEF DataServedJustified
    <2>1. G!SoundUpstream(up[w], req[w])
      BY DEF G!GInv
    <2>2. req[w].pc = "done" /\ req[w].status = 200
      BY <2>1 DEF G!SoundUpstream
    <2>3. G!Granted(w)
      BY <2>2 DEF G!Granted, G!nginx
    <2> QED
      BY <2>3 DEF G!GrantJustified
  <1>2. SystemSpec => []G!GInv
    BY SystemImplementsGateway, G!GatewayInvariance, ClockAssumption, PTL
    DEF GatewayConstants, G!ClockAssumption
  <1> QED
    BY <1>1, <1>2, SystemGrantsJustified, PTL

=============================================================================
