----------------------------- MODULE MCIviShell -----------------------------
(* The instance of IviShell that TLC checks.  Surfaces, controllers,        *)
(* notification addresses and ids are interchangeable.                      *)
EXTENDS IviShell, TLC

Symmetry == Permutations(Surfaces) \cup Permutations(Controllers)
              \cup Permutations(Notifs) \cup Permutations(Ids)
=============================================================================
