---------------------------- MODULE MCSuspension ----------------------------
(***************************************************************************)
(* Instances of Suspension for TLC.                                        *)
(***************************************************************************)
EXTENDS Suspension, TLC

SuspensionSymmetry == 
    Permutations(Workers) \cup Permutations(Callers) \cup Permutations(Packages)
=============================================================================
