------------------------------- MODULE Clocks -------------------------------
(***************************************************************************)
(* The devices and the clocks they and the gateway keep.                   *)
(***************************************************************************)
EXTENDS Integers

CONSTANTS
    Devices,         \* the client machines that run posture_check.py
    Skew,            \* Skew[d]: device d's clock minus the gateway's clock
    MaxPostureAge,   \* MAX_POSTURE_AGE_SECONDS of the authz-bridge
    StartTime,       \* the gateway's clock when the system starts (Unix time)
    MaxTime          \* bound: the clock stops here

(***************************************************************************)
(* Clocks count from an epoch that is further back than any posture age,   *)
(* so a record without checked_at (read as 0) is stale on every clock.     *)
(***************************************************************************)
ASSUME ClockAssumption ==
    /\ Skew \in [Devices -> Int]
    /\ MaxPostureAge \in Nat
    /\ StartTime \in Nat
    /\ MaxTime \in Nat
    /\ StartTime > MaxPostureAge
    /\ StartTime <= MaxTime
    /\ \A d \in Devices : StartTime + Skew[d] > 0

Times == StartTime .. MaxTime

\* checked_at is int(time.time()) on the device, read at gateway time t.
Stamp(d, t) == t + Skew[d]

=============================================================================
