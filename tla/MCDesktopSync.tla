---------------------------- MODULE MCDesktopSync ----------------------------
(***************************************************************************)
(* Instances of DesktopSync for TLC.                                       *)
(***************************************************************************)
EXTENDS DesktopSync, TLC

Symmetry == Permutations(Devices)
=============================================================================
