---------------------------- MODULE MCMiningRun ----------------------------
(* Symmetry for model checking MiningRun: no action tells licenses apart. *)
EXTENDS MiningRun, TLC

LicenseSymmetry == Permutations(Licenses)
=============================================================================
