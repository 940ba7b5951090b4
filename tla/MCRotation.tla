----------------------------- MODULE MCRotation -----------------------------
(* Small instances of Rotation for the model checker. *)
EXTENDS Rotation, TLC

RequestSymmetry == Permutations(Req)
TrueGateway == FaultKinds \ {"badgateway"}

\* Without VMs that AWS stops and TerminateMicrovm calls that raise, which the safety
\* run has: what they do to three VMs is too much for checking liveness.
RotationFaults == FaultKinds \ {"kill", "api"}
=============================================================================
