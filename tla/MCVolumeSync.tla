---------------------------- MODULE MCVolumeSync ----------------------------
(* Instances of VolumeSync for TLC: the constants are given in the cfg.    *)
EXTENDS VolumeSync, TLC

\* Transports are only compared.
VolumeSymmetry == Permutations(Transports)

=============================================================================
