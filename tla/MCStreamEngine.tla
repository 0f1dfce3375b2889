--------------------------- MODULE MCStreamEngine ---------------------------
(* Instances of StreamEngine for TLC: the constants are given in the cfgs. *)
EXTENDS StreamRefinement, TLC

\* Transports are only compared, so the safety runs may permute them.
TransportSymmetry == Permutations(Transports)

=============================================================================
