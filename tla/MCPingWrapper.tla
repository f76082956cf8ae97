--------------------------- MODULE MCPingWrapper ----------------------------
(* Instances of PingWrapper for TLC.  Nothing tells one host from another,    *)
(* so a safety run may take them up to permutation; a liveness run may not.   *)
EXTENDS PingWrapper, TLC

HostSymmetry == Permutations(Hosts)
=============================================================================
