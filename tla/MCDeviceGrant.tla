--------------------------- MODULE MCDeviceGrant ---------------------------
(* Instances of DeviceGrant for TLC. *)
EXTENDS DeviceGrant, TLC

CONSTANTS p1, p2, p3, p4

SymRequests == Permutations(Requests)

=============================================================================
