----------------------------- MODULE MCNsLabels -----------------------------
(***************************************************************************)
(* Instances of NsLabels for TLC.                                          *)
(***************************************************************************)
EXTENDS LabelsInv, TLC

\* A namespace GUID stands for any other.
GuidSymmetry == Permutations(Uuids)
=============================================================================
