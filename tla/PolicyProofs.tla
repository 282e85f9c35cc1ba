---------------------------- MODULE PolicyProofs ----------------------------
(***************************************************************************)
(* What the rules of policy.rego amount to, for every input and every      *)
(* choice of the three time limits.                                        *)
(***************************************************************************)
EXTENDS Policy, FiniteSetTheorems, TLAPS

\* What a request must show, path by path.
Permitted(in, t) ==
    /\ base_ok(in)
    /\ in.path = "/sensitive" => fresh_auth(in, t)
    /\ in.path \in {"/admin", "/api/peers"} => in.is_admin
    /\ ~very_stale_session(in, t)

\* The eight allow rules of policy.rego grant exactly what Permitted says; a
\* clearance is not part of it.
THEOREM AllowIsPermitted ==
    \A in \in Inputs, t \in Int : allow(in, t) <=> Permitted(in, t)
  <1> SUFFICES ASSUME NEW in \in Inputs, NEW t \in Int
               PROVE  allow(in, t) <=> Permitted(in, t)
    OBVIOUS
  <1>1. in.auth_time \in Nat
    BY DEF Inputs
  <1>2. fresh_auth(in, t) => ~very_stale_session(in, t)
    BY <1>1, PolicyAssumption
    DEF fresh_auth, very_stale_session, seconds_since_auth, valid_auth_time
  <1> QED
    BY <1>2 DEF allow, allow_by_path, allow_by_clearance, Permitted

\* The allow rules that ask for clearance grant nothing of their own: being
\* alternatives, they do not take away what the first four grant.
THEOREM ClearanceRulesRedundant ==
    \A in \in Inputs, t \in Int : allow_by_clearance(in, t) => allow_by_path(in, t)
  BY DEF allow_by_clearance, allow_by_path

\* A decision only gets stricter as time passes: the same input allowed later
\* was allowed earlier.  validate() asks for allow first and reason second.
THEOREM AllowAntitone ==
    \A in \in Inputs, t \in Int, u \in Int : t <= u /\ allow(in, u) => allow(in, t)
  <1> SUFFICES ASSUME NEW in \in Inputs, NEW t \in Int, NEW u \in Int, t <= u
               PROVE  Permitted(in, u) => Permitted(in, t)
    BY AllowIsPermitted
  <1>1. in.auth_time \in Nat
    BY DEF Inputs
  <1>2. fresh_auth(in, u) => fresh_auth(in, t)
    BY <1>1, PolicyAssumption DEF fresh_auth, seconds_since_auth, valid_auth_time
  <1>3. ~very_stale_session(in, u) => ~very_stale_session(in, t)
    BY <1>1, PolicyAssumption DEF very_stale_session, seconds_since_auth, valid_auth_time
  <1> QED
    BY <1>2, <1>3 DEF Permitted

\* reason is "allowed" only where allow holds.
THEOREM ReasonAllowed ==
    \A in \in Inputs, t \in Int : reason(in, t) = "allowed" => allow(in, t)
  <1> SUFFICES ASSUME NEW in \in Inputs, NEW t \in Int, reason(in, t) = "allowed"
               PROVE  allow(in, t)
    OBVIOUS
  <1>1. reasons(in, t) # {} /\ "allowed" = CHOOSE r \in reasons(in, t) : TRUE
    BY DEF reason, Conflict
  <1>2. "allowed" \in reasons(in, t)
    BY <1>1
  <1> QED
    BY <1>2 DEF reasons, reason_rules

\* The values of reason.
LEMMA ReasonType == \A in, t : reason(in, t) \in ReasonValues
  <1> SUFFICES ASSUME NEW in, NEW t PROVE reason(in, t) \in ReasonValues
    OBVIOUS
  <1>1. reasons(in, t) \subseteq ReasonValues
    BY DEF reasons, reason_rules, ReasonValues
  <1>2. reasons(in, t) # {} => (CHOOSE r \in reasons(in, t) : TRUE) \in reasons(in, t)
    OBVIOUS
  <1> QED
    BY <1>1, <1>2 DEF reason, ReasonValues

\* A body of reason other than the one about clearance always holds.
LEMMA OtherReason ==
    ASSUME NEW in \in Inputs, NEW t \in Int
    PROVE  \E r \in reasons(in, t) : r # "insufficient_clearance"
  <1> SUFFICES ASSUME \A r \in reasons(in, t) : r = "insufficient_clearance"
               PROVE  FALSE
    OBVIOUS
  <1> DEFINE rr == reason_rules(in, t)
  <1>1. \A r \in DOMAIN rr : r # "insufficient_clearance" => ~rr[r]
    BY DEF reasons
  <1>2. /\ ~rr.session_too_old /\ ~rr.session_stale /\ ~rr.not_authenticated
        /\ ~rr.mfa_not_verified /\ ~rr.posture_unhealthy /\ ~rr.reauth_required
        /\ ~rr.admin_required /\ ~rr.peer_admin_required /\ ~rr.allowed
    BY <1>1 DEF reason_rules
  <1>3. base_ok(in)
    BY <1>2 DEF reason_rules, base_ok, Inputs
  <1>4. ~Permitted(in, t)
    BY <1>2, AllowIsPermitted DEF reason_rules
  <1>5. ~very_stale_session(in, t)
    BY <1>2, <1>3 DEF reason_rules
  <1>6. in.path = "/sensitive" => fresh_auth(in, t)
    BY <1>2, <1>3, <1>5 DEF reason_rules
  <1>7. in.path \in {"/admin", "/api/peers"} => in.is_admin
    BY <1>2, <1>3 DEF reason_rules
  <1> QED
    BY <1>3, <1>4, <1>5, <1>6, <1>7 DEF Permitted

\* Some body of reason always holds: the default "no matching allow rule" is
\* never given to a client.
THEOREM ReasonAlwaysGiven ==
    \A in \in Inputs, t \in Int : reasons(in, t) # {}
  BY OtherReason

\* The bodies that hold are finitely many, so OPA gives a reason exactly when
\* a single one holds.
LEMMA GivenReason ==
    ASSUME NEW in \in Inputs, NEW t \in Int
    PROVE  /\ reason(in, t) # Conflict => reasons(in, t) = {reason(in, t)}
           /\ reason(in, t) = Conflict =>
                \E r, s \in reasons(in, t) : r # s
  <1> DEFINE S == reasons(in, t)
  <1>1. \A a, b, c, d : IsFiniteSet({a, b, c, d})
    <2> TAKE a, b, c, d
    <2>1. IsFiniteSet({a})
      BY FS_Singleton
    <2>2. IsFiniteSet({a} \cup {b})
      BY <2>1, FS_AddElement
    <2>3. IsFiniteSet({a} \cup {b} \cup {c})
      BY <2>2, FS_AddElement
    <2>4. IsFiniteSet({a} \cup {b} \cup {c} \cup {d})
      BY <2>3, FS_AddElement
    <2>5. {a, b, c, d} = {a} \cup {b} \cup {c} \cup {d}
      OBVIOUS
    <2> QED
      BY <2>4, <2>5
  <1>2. IsFiniteSet(S)
    <2> DEFINE A == {"insufficient_clearance", "session_too_old", "session_stale",
                     "not_authenticated"}
               B == {"mfa_not_verified", "posture_unhealthy", "reauth_required",
                     "admin_required"}
               C == {"peer_admin_required", "allowed", "allowed", "allowed"}
    <2>1. IsFiniteSet(A) /\ IsFiniteSet(B) /\ IsFiniteSet(C)
      BY <1>1
    <2>2. S \subseteq (A \cup B) \cup C
      BY DEF reasons, reason_rules
    <2> HIDE DEF A, B, C, S
    <2>3. IsFiniteSet(A \cup B)
      BY <2>1, FS_Union
    <2>4. IsFiniteSet((A \cup B) \cup C)
      BY <2>1, <2>3, FS_Union
    <2> QED
      BY <2>2, <2>4, FS_Subset
  <1>3. S # {}
    BY ReasonAlwaysGiven
  <1>4. Cardinality(S) = 1 <=> \E x : S = {x}
    BY <1>2, FS_Singleton
  <1>5. "conflict" \notin S
    BY DEF reasons, reason_rules
  <1>6. CASE Cardinality(S) = 1
    <2>1. PICK x : S = {x}
      BY <1>4, <1>6
    <2>2. reason(in, t) = x
      BY <1>6, <2>1 DEF reason
    <2> QED
      BY <1>5, <2>1, <2>2 DEF Conflict
  <1>7. CASE Cardinality(S) # 1
    <2>1. reason(in, t) = Conflict
      BY <1>3, <1>7 DEF reason
    <2>2. \E r, s \in S : r # s
      BY <1>3, <1>4, <1>7
    <2> QED
      BY <2>1, <2>2
  <1> QED
    BY <1>6, <1>7

\* "insufficient clearance" never reaches a client: whenever its body holds
\* another one does too, and OPA reports a conflict instead of a value.
THEOREM ClearanceReasonNeverGiven ==
    \A in \in Inputs, t \in Int : reason(in, t) # "insufficient_clearance"
  BY OtherReason, GivenReason DEF Conflict

\* A reason that is given and is not "allowed" comes with a denial.
THEOREM DenialReasonsDeny ==
    \A in \in Inputs, t \in Int :
        reason(in, t) \notin {"allowed", Conflict} => ~allow(in, t)
  <1> SUFFICES ASSUME NEW in \in Inputs, NEW t \in Int,
                      reason(in, t) \notin {"allowed", Conflict}
               PROVE  ~allow(in, t)
    OBVIOUS
  <1>1. "allowed" \notin reasons(in, t)
    BY GivenReason
  <1> QED
    BY <1>1 DEF reasons, reason_rules

\* OPA fails to give a reason in two cases and no other, both for a user with a
\* second factor on a healthy device: the clearance is too low, or a session
\* past its age asks for an admin path without the admin group.
THEOREM ConflictExactly ==
    \A in \in Inputs, t \in Int :
        reason(in, t) = Conflict <=>
            /\ base_ok(in)
            /\ \/ ~data_access_ok(in)
               \/ /\ very_stale_session(in, t)
                  /\ in.path \in {"/admin", "/api/peers"}
                  /\ ~in.is_admin
  <1> SUFFICES ASSUME NEW in \in Inputs, NEW t \in Int
               PROVE  reason(in, t) = Conflict <=>
                        /\ base_ok(in)
                        /\ \/ ~data_access_ok(in)
                           \/ /\ very_stale_session(in, t)
                              /\ in.path \in {"/admin", "/api/peers"}
                              /\ ~in.is_admin
    OBVIOUS
  <1> DEFINE S == reasons(in, t)
  <1>1. in.auth_time \in Nat /\ in.path \in Paths
    BY DEF Inputs
  <1>2. /\ very_stale_session(in, t) => stale_session(in, t)
        /\ fresh_auth(in, t) => ~stale_session(in, t)
    BY <1>1, PolicyAssumption
    DEF fresh_auth, very_stale_session, stale_session, seconds_since_auth, valid_auth_time
  <1>3. allow(in, t) <=> Permitted(in, t)
    BY AllowIsPermitted
  <1>m. /\ S \subseteq {"insufficient_clearance", "session_too_old", "session_stale",
                        "not_authenticated", "mfa_not_verified", "posture_unhealthy",
                        "reauth_required", "admin_required", "peer_admin_required", "allowed"}
        /\ "insufficient_clearance" \in S <=> base_ok(in) /\ ~data_access_ok(in)
        /\ "session_too_old" \in S <=> base_ok(in) /\ very_stale_session(in, t)
        /\ "session_stale" \in S <=> /\ base_ok(in) /\ stale_session(in, t)
                                     /\ ~very_stale_session(in, t) /\ ~fresh_auth(in, t)
                                     /\ in.path = "/sensitive"
        /\ "not_authenticated" \in S <=> ~in.authenticated
        /\ "mfa_not_verified" \in S <=> in.authenticated /\ ~in.mfa_verified
        /\ "posture_unhealthy" \in S <=> /\ in.authenticated /\ in.mfa_verified
                                         /\ in.posture # "healthy"
        /\ "reauth_required" \in S <=> /\ base_ok(in) /\ in.path = "/sensitive"
                                       /\ ~fresh_auth(in, t) /\ ~stale_session(in, t)
        /\ "admin_required" \in S <=> base_ok(in) /\ in.path = "/admin" /\ ~in.is_admin
        /\ "peer_admin_required" \in S <=>
             base_ok(in) /\ in.path = "/api/peers" /\ ~in.is_admin
        /\ "allowed" \in S <=> allow(in, t)
    BY DEF reasons, reason_rules
  <1> HIDE DEF S
  <1>4. ASSUME base_ok(in), ~data_access_ok(in)
        PROVE  reason(in, t) = Conflict
    <2>1. "insufficient_clearance" \in S
      BY <1>4, <1>m
    <2> QED
      BY <2>1, OtherReason, GivenReason DEF S
  <1>5. ASSUME base_ok(in), very_stale_session(in, t),
               in.path \in {"/admin", "/api/peers"}, ~in.is_admin
        PROVE  reason(in, t) = Conflict
    <2>1. "session_too_old" \in S
      BY <1>5, <1>m
    <2>2. \E r \in {"admin_required", "peer_admin_required"} : r \in S
      BY <1>5, <1>m
    <2> QED
      BY <2>1, <2>2, GivenReason DEF S
  <1>6. ASSUME \/ ~base_ok(in)
               \/ /\ data_access_ok(in)
                  /\ ~ /\ very_stale_session(in, t)
                       /\ in.path \in {"/admin", "/api/peers"}
                       /\ ~in.is_admin,
               NEW r \in S, NEW s \in S
        PROVE  r = s
    <2>1. CASE ~base_ok(in)
      BY <1>3, <1>m, <1>6, <2>1 DEF base_ok, Permitted
    <2>2. CASE base_ok(in)
      <3>1. in.authenticated /\ in.mfa_verified /\ in.posture = "healthy"
        BY <2>2 DEF base_ok
      <3>2. \A x \in S : x \in {"session_too_old", "session_stale", "reauth_required",
                                "admin_required", "peer_admin_required", "allowed"}
        BY <1>m, <1>6, <2>2, <3>1
      <3> QED
        BY <1>2, <1>3, <1>m, <1>6, <2>2, <3>1, <3>2 DEF Permitted
    <2> QED
      BY <2>1, <2>2
  <1> QED
    BY <1>4, <1>5, <1>6, GivenReason DEF S

=============================================================================
