--------------------------- MODULE MCPostureStore ---------------------------
(***************************************************************************)
(* Two devices, one of which runs ahead of the gateway's clock.            *)
(***************************************************************************)
EXTENDS PostureStore, TLC

CONSTANTS d1, d2, ip1, ip2, loopback

MCIpOf == d1 :> ip1 @@ d2 :> ip2
MCKeys == d1 :> {ip1} @@ d2 :> {ip2}
MCSkew == d1 :> 0 @@ d2 :> 1


\* One device, whose host name may also resolve to its loopback address.
MCIpOf1 == d1 :> ip1
MCKeys1 == d1 :> {ip1, loopback}
MCSkew1 == d1 :> 0

=============================================================================
