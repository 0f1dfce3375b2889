--------------------------- MODULE MCControlPlane ---------------------------
(* Instances of ControlPlane for TLC: the constants are given in the cfgs. *)
EXTENDS ControlPlane, TLC

\* Transports and configurations are only compared.
CPSymmetry == Permutations(Transports) \cup Permutations(Configs)

=============================================================================
