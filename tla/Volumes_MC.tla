----------------------------- MODULE Volumes_MC -----------------------------
(* Three physical volumes of two extents each and one logical volume.       *)
EXTENDS Volumes
CONSTANTS p1, p2, p3, lv1
SmallPVs == {p1, p2, p3}
SmallLVs == {lv1}
==============================================================================
