--------------------------- MODULE LuksVolume_MC ---------------------------
(* A partition of three to five blocks, one of them the header.             *)
EXTENDS LuksVolume
==============================================================================
