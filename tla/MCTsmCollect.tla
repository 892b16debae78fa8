---------------------------- MODULE MCTsmCollect ----------------------------
(***************************************************************************)
(* Instances of TsmCollect for TLC.                                        *)
(***************************************************************************)
EXTENDS TsmCollect, TLC

NameSymmetry == Permutations(EntryName)
=============================================================================
