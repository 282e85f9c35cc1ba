----------------------------- MODULE PostureView -----------------------------
(***************************************************************************)
(* What the readers of the posture store may rely on, whatever happens to  *)
(* the file: it may lose, revert and resurrect verdicts, but a verdict     *)
(* that lets a device through was earned by that device.  PostureStore     *)
(* implements this specification; AuthzBridge is built on it.              *)
(***************************************************************************)
EXTENDS Clocks

VARIABLES
    now,       \* the gateway's clock
    genuine,   \* genuine[d]: the times at which device d passed every check
    view       \* view[d]: checked_at of the healthy verdict a reader finds
               \* for device d, 0 when it finds none

vars == <<now, genuine, view>>

\* The stamps a reader may find for device d: none, or one the device earned.
Earned(d) == {0} \cup {Stamp(d, t) : t \in genuine[d]}

TypeOK ==
    /\ now \in Times
    /\ genuine \in [Devices -> SUBSET Times]
    /\ view \in [Devices -> Int]

Init ==
    /\ now = StartTime
    /\ genuine = [d \in Devices |-> {}]
    /\ view = [d \in Devices |-> 0]

Tick ==
    /\ now < MaxTime
    /\ now' = now + 1
    /\ UNCHANGED <<genuine, view>>

\* Device d passes all its checks now.
Attest(d) ==
    /\ genuine' = [genuine EXCEPT ![d] = @ \cup {now}]
    /\ UNCHANGED <<now, view>>

\* What readers find changes, for any set of devices at once (the store is
\* rewritten whole) and to any verdict earned at any time.
Publish ==
    /\ view' \in [Devices -> UNION {Earned(d) : d \in Devices}]
    /\ \A d \in Devices : view'[d] \in Earned(d)
    /\ UNCHANGED <<now, genuine>>

Next ==
    \/ Tick
    \/ \E d \in Devices : Attest(d)
    \/ Publish

Spec == Init /\ [][Next]_vars

(***************************************************************************)
(* The test get_posture makes: the record is healthy and not too old on    *)
(* the gateway's clock.  A stamp from the future passes it.                *)
(***************************************************************************)
Healthy(d) == view[d] # 0 /\ now - view[d] <= MaxPostureAge

\* The device really passed its checks, no longer ago than the age limit
\* plus what its clock runs ahead.
Fresh(d) == \E t \in genuine[d] : now - t <= MaxPostureAge + Skew[d]

\* A device that is seen healthy did pass its checks, recently.
HealthyIsGenuine == \A d \in Devices : Healthy(d) => Fresh(d)

=============================================================================
