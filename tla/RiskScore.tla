----------------------------- MODULE RiskScore ------------------------------
(***************************************************************************)
(* The risk score the authz-bridge reports of a session and a device.      *)
(* Nothing in the gateway acts on it: a client is told whether it should   *)
(* step up, while OPA decides by rules of its own.                         *)
(***************************************************************************)
EXTENDS Clocks

CONSTANTS
    RISK_THRESHOLD,  \* 70 by default
    HalfHour, Hour   \* 1800 and 3600 seconds

NoAuthTime == 999999

ASSUME RiskAssumption ==
    /\ RISK_THRESHOLD \in Nat
    /\ HalfHour \in Nat
    /\ Hour \in Nat
    /\ HalfHour <= Hour
    /\ Hour < NoAuthTime

\* What get_posture returns, as far as the score looks at it; failed: the
\* signals that are there and false.  A refusal has no checked_at, read as 0.
Findings ==
    [posture : {"healthy", "unhealthy"}, checked_at : Int,
     failed : SUBSET {"disk", "patch", "process"}]

session_age(id, t) == IF id.auth_time > 0 THEN t - id.auth_time ELSE NoAuthTime

Points(factor, n) == IF factor THEN n ELSE 0

\* Mutant of session_points: a token without auth_time is taken for no token.
session_points_no_auth_time(id, t) ==
    IF ~id.authenticated \/ id.auth_time = 0 THEN 100
    ELSE IF session_age(id, t) > Hour THEN 30
    ELSE Points(session_age(id, t) > HalfHour, 15)

session_points(id, t) ==
    IF ~id.authenticated THEN 100
    ELSE IF session_age(id, t) > Hour THEN 30
    ELSE Points(session_age(id, t) > HalfHour, 15)

posture_points(p) ==
    IF p.posture # "healthy" THEN 40
    ELSE Points("disk" \in p.failed, 15) + Points("patch" \in p.failed, 10)
         + Points("process" \in p.failed, 20)

\* _calculate_risk_score
calculate_risk_score(id, p, t) ==
    LET score == session_points(id, t) + Points(~id.mfa_verified, 25)
                 + posture_points(p) + Points(t - p.checked_at > MaxPostureAge, 15)
    IN  IF score < 100 THEN score ELSE 100

requires_step_up(id, p, t) == calculate_risk_score(id, p, t) >= RISK_THRESHOLD

=============================================================================
