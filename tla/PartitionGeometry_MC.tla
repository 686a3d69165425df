------------------------ MODULE PartitionGeometry_MC ------------------------
(* A disk of a dozen sectors, aligned to two.                               *)
EXTENDS PartitionGeometry
CONSTANTS sda1, sda2, sda5, sda6
OnePrimary == {sda1}
TwoLogicals == {sda5, sda6}
Symmetric == Permutations(TwoLogicals)
==============================================================================
