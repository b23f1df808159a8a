--------------------------- MODULE MCInstallation ---------------------------
(***************************************************************************)
(* Two drives that the user may install on.                                *)
(***************************************************************************)
EXTENDS InstallationInv, TLC

CONSTANTS C, D

Drives == {C, D}
Symmetry == Permutations(Drives)
=============================================================================
