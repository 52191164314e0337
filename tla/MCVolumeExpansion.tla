--------------------------- MODULE MCVolumeExpansion ---------------------------
(***************************************************************************)
(* Instances of VolumeExpansion for TLC: half gibibytes, so that the sizes  *)
(* 5 and 6 are the same in gibibytes.                                       *)
(***************************************************************************)
EXTENDS VolumeExpansion

MCSizes == {2, 3, 5, 6}
=============================================================================
