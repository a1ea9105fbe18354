-------------------------- MODULE MCGatewaySession --------------------------
(* Instances of GatewaySession for TLC.                                    *)
EXTENDS GatewaySession, TLC

(* The models are interchangeable: no step orders or compares them.        *)
ModelSymmetry == Permutations(Models)
=============================================================================
