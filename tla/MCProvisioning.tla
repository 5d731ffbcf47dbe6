--------------------------- MODULE MCProvisioning ---------------------------
(***************************************************************************)
(* Provisioning with two forms per boot and two networks to name: the      *)
(* second form can overtake, overwrite or tear down beside the first.      *)
(***************************************************************************)
EXTENDS Provisioning, TLC

CONSTANTS t1, t2, n1, n2

MCTask == {t1, t2}
MCNet  == {n1, n2}

\* Tasks are interchangeable, and so are networks.
Symmetry == Permutations(MCTask) \cup Permutations(MCNet)
=============================================================================
