----------------------------- MODULE MCIviModules ----------------------------
(* The instance of IviModules that TLC checks.                               *)
EXTENDS IviModules, TLC
Symmetry == Permutations(Clients)
=============================================================================
