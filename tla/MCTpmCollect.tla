---------------------------- MODULE MCTpmCollect ----------------------------
(***************************************************************************)
(* Instances of TpmCollect for TLC.                                        *)
(***************************************************************************)
EXTENDS TpmCollect
=============================================================================
